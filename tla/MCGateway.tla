------------------------------ MODULE MCGateway ------------------------------
(***************************************************************************)
(* The parts behind the routes of the gateway: bodies and spool, index     *)
(* publication, retrieval.  They share no variable, so a behaviour moves   *)
(* one of them, the focus; their states add up instead of multiplying.     *)
(***************************************************************************)
EXTENDS Serving, IndexPublication, Retrieval

CONSTANTS r1, r2, a1, a2, s1, s2

\* One of two sources may know a bundle of the item, the other does not.
MCKnowing == {{}, {s1}}

VARIABLE focus
gateway == <<focus, serving, publishing, retrieving>>

GatewayInit ==
    /\ focus \in {"serving", "publication", "retrieval"}
    /\ ServingInit /\ PublicationInit /\ RetrievalInit
    /\ focus # "retrieval" => indexed = "none" /\ holders = {}

GatewayNext ==
    /\ UNCHANGED focus
    /\ \/ focus = "serving" /\ ServingNext /\ UNCHANGED <<publishing, retrieving>>
       \/ focus = "publication" /\ PublicationNext /\ UNCHANGED <<serving, retrieving>>
       \/ focus = "retrieval" /\ RetrievalNext /\ UNCHANGED <<serving, publishing>>

\* The fairness of each part, while it is the one that moves.
OfServing(A) == focus = "serving" /\ A
GatewayFairness ==
    /\ WF_serving(OfServing(RetrievalStep)) /\ WF_serving(OfServing(Tick))
    /\ \A r \in Request : WF_serving(OfServing(RequestStep(r))) /\ WF_serving(OfServing(BodyStep(r)))
    /\ WF_publishing(focus = "publication" /\ PublisherStep)

GatewaySpec == GatewayInit /\ [][GatewayNext]_gateway /\ GatewayFairness

\* Every body ends and gives its permit back, and in the end the scan has the
\* root it asked for, although it shares the budget of the spool and the
\* retrieval with requests.
ServingEnds == BodiesEnd /\ (focus = "serving" => ScanServed)

\* In the end the files that the operator left are the ones that are published.
IndexSettles == focus = "publication" => Settles
=============================================================================
