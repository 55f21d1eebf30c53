----------------------------- MODULE MCAuthenticity -----------------------------
(***************************************************************************)
(* Blocks for Authenticity.  Of the headers of one kind two neighbouring   *)
(* fields differ, so that bytes could move from one to the other; blocks   *)
(* with transactions differ in those, in every way that keeps the message  *)
(* under their signatures.                                                 *)
(***************************************************************************)
EXTENDS Authenticity, TLC

Flat == Since26 \o Since27 \o Since28 \o Since29
Extra == {"option", "chunk", "signature"}
Field == {f[1] : f \in ToSet(Flat)} \cup Extra
How == [name \in Field |-> IF name \in Extra THEN Bytes(1) ELSE (CHOOSE f \in ToSet(Flat) : f[1] = name)[2]]
All(n, byte) == [k \in 1 .. n |-> byte]
Twice(byte) ==
    [key |-> <<byte>>,
     first |-> [signature |-> <<1>>, diff |-> 0, previous |-> 1, preimage |-> <<0>>],
     second |-> [signature |-> <<1>>, diff |-> byte, previous |-> 0, preimage |-> <<byte>>]]
Values(how) ==
    LET n == how[2] IN
    CASE how[1] = "bytes" -> << << >>, <<1>>, <<1, 1>> >>
      [] how[1] = "number" -> <<0, 1, 5>>
      [] how[1] = "optional" -> <<Absent, 0>>
      [] how[1] = "digits" -> <<0, 1>>
      [] how[1] = "raw" -> <<All(n, 0), All(n, 1)>>
      [] how[1] = "proof" -> <<Absent, Twice(0), Twice(1)>>
      [] OTHER -> << << >>, <<<<1>>>>, <<<<0>>, <<1>>>> >>
Usual(how) ==
    CASE how[1] = "bytes" -> <<1>>
      [] how[1] \in {"number", "digits"} -> 1
      [] how[1] \in {"optional", "proof"} -> Absent
      [] how[1] = "raw" -> All(how[2], 0)
      [] OTHER -> << >>
Plainly(height) ==
    [name \in Field |-> IF name = "height" THEN height ELSE Usual(How[name])]

\* The order of the fields in the trees, and in the strings.
InTrees == <<"tx_path", "data_path", "chunk", "option", "previous_block", "tx_root", "txs",
    "block_size", "weave_size", "reward_addr", "tags", "timestamp", "last_retarget", "diff",
    "cumulative_diff", "reward_pool", "wallet_list", "hash_list_merkle", "hash", "nonce">>
FieldsAt(height) ==
    LET fields == IF height < Fork27 THEN Since26 ELSE <<Last(Since26)>> \o Since27 \o Since28 \o Since29
    IN IF height < Fork26 THEN InTrees ELSE [k \in DOMAIN fields |-> fields[k][1]]

\* A nonce has a byte, and a root is none or a hash.
Options(height, name) ==
    CASE name = "height" -> <<height>>
      [] name = "nonce" -> Tail(Values(How[name]))
      [] name = "tx_root" -> Front(Values(How[name]))
      [] OTHER -> Values(How[name])
Heights == {Fork20 - 1, Fork20, Fork24, Fork25, Fork26, Fork29}
\* A key: the height, the first of the two fields, and their values.
VariedKeys ==
    UNION {UNION {{<<height, k, v, w>> : v \in DOMAIN Options(height, FieldsAt(height)[k]),
                                         w \in DOMAIN Options(height, FieldsAt(height)[k + 1])} :
                     k \in 1 .. Len(FieldsAt(height)) - 1} : height \in Heights}
Varied(key) ==
    LET a == FieldsAt(key[1])[key[2]]
        b == FieldsAt(key[1])[key[2] + 1]
    IN [Plainly(key[1]) EXCEPT ![a] = Options(key[1], a)[key[3]], ![b] = Options(key[1], b)[key[4]]]
SameKind(key) ==
    {<<key[1], key[2], v, w>> : v \in DOMAIN Options(key[1], FieldsAt(key[1])[key[2]]),
                                w \in DOMAIN Options(key[1], FieldsAt(key[1])[key[2] + 1])}

-----------------------------------------------------------------------------
Transfer(format, owner, data) ==
    [format |-> format, denomination |-> 0, ecdsa |-> FALSE, owner |-> owner, target |-> << >>,
     data |-> data, quantity |-> <<0>>, reward |-> <<1>>, anchor |-> <<1>>, tags |-> << >>,
     size |-> Len(data), root |-> IF data = << >> THEN << >> ELSE InlineRoot(data)]
FirstFormat(data) == Transfer(1, <<3>>, data)
Later(data) == [Transfer(2, <<1>>, data) EXCEPT !.tags = <<[name |-> <<1>>, value |-> <<2>>]>>]
Denominated(data) == [Transfer(1, <<2>>, data) EXCEPT !.denomination = 1]
Keyless(data) == [Transfer(2, << >>, data) EXCEPT !.ecdsa = TRUE]

One == <<1>>
Two == <<2>>
Three == <<3>>

\* Every way to cut the message of an early one, with a tag or without: its
\* quantity and reward are numbers without leading zeros.
Decimal(s) == s # << >> /\ ToSet(s) \subseteq {0, 1} /\ (s[1] = 0 => Len(s) = 1)
Cuts(t) ==
    LET rest == Tail(Message(t)[2])
        n == Len(rest)
        upto(lengths, k) == FoldLeft(LAMBDA x, y : x + y, 0, SubSeq(lengths, 1, k))
        part(lengths, k) == SubSeq(rest, upto(lengths, k - 1) + 1, upto(lengths, k))
        shapes == {l \in (0 .. n) \X (0 .. n) \X (1 .. 2) \X (1 .. 2) \X (0 .. n) : upto(l, 5) <= n}
        cut(l) ==
            LET tag == SubSeq(rest, upto(l, 5) + 1, n)
            IN [FirstFormat(part(l, 2)) EXCEPT !.target = part(l, 1), !.quantity = part(l, 3),
                    !.reward = part(l, 4), !.anchor = part(l, 5),
                    !.tags = IF tag = << >> THEN << >> ELSE <<[name |-> << >>, value |-> tag]>>]
    IN {c \in {cut(l) : l \in shapes} : Decimal(c.quantity) /\ Decimal(c.reward)}
Claimed2(t) ==
    IF Legacy(t) THEN Cuts(t)
    ELSE {t, [t EXCEPT !.size = @ + 1], [t EXCEPT !.data = << >>], [t EXCEPT !.root = << >>, !.size = 0],
          [t EXCEPT !.tags = Append(@, [name |-> One, value |-> One])], [t EXCEPT !.target = One]}

Block(height, order, txs, jobs) == [height |-> height, order |-> order, txs |-> txs, jobs |-> jobs]
Whole == <<
    Block(Fork20 - 1, <<Two, One>>, One :> FirstFormat(<<1, 1>>) @@ Two :> FirstFormat(<<0>>), {<<One, Two>>}),
    Block(Fork24, <<Two, One>>, One :> FirstFormat(<<1, 1>>) @@ Two :> Later(<<1, 2, 1>>), {<<Two, One>>, <<One>>}),
    Block(Fork26, <<One, Two>>,
          One :> Denominated(<<1>>) @@ Two :> FirstFormat(<<1>>) @@ Three :> Later(<<1>>), {<<One, Two>>}),
    Block(Fork29 + 1, <<One, Two>>, One :> Keyless(<<1>>) @@ Two :> Later(<< >>), {<<One, Two>>})>>

\* Of such a block there are the header, one of another order, one that lacks a
\* transaction, one of another size and one without the root.
HeadersOf(b) ==
    LET true == {Metadata(id, b.txs[id]) : id \in ToSet(b.order)}
        header == [Plainly(b.height) EXCEPT
                      !.txs = b.order, !.block_size = BlockSize(true, b.height),
                      !.weave_size = 1 + BlockSize(true, b.height),
                      !.tx_root = MerkleRoot(LeavesOf(true, b.height))]
    IN <<header, [header EXCEPT !.txs = Reverse(@)], [header EXCEPT !.txs = Tail(@)],
         [header EXCEPT !.block_size = @ + 1], [header EXCEPT !.tx_root = << >>]>>

Cut == [k \in DOMAIN Whole |-> [id \in DOMAIN Whole[k].txs |-> Claimed2(Whole[k].txs[id])]]

MCProvable == VariedKeys \cup {<<0, k, 0, 1>> : k \in DOMAIN Whole}
MCProvableOf(key) ==
    LET b == Whole[IF key[1] = 0 THEN key[2] ELSE 1]
        header == IF key[1] = 0 THEN HeadersOf(b)[1] ELSE Varied(key)
    IN [name |-> key, header |-> header, entry |-> EntryOf(header),
        txs |-> IF key[1] = 0 THEN b.txs ELSE << >>, jobs |-> IF key[1] = 0 THEN b.jobs ELSE {},
        previous_size |-> IF key[1] = 0 THEN 1 ELSE 0]
MCHeadersFor(key) ==
    IF key[1] = 0 THEN ToSet(HeadersOf(Whole[key[2]])) ELSE {Varied(other) : other \in SameKind(key)}
MCTxsFor(key, id) == Cut[key[2]][id]
MCSources == <<"archive", "extra">>
MCPeers == <<"peer">>
=============================================================================
