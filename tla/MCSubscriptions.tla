-------------------------- MODULE MCSubscriptions --------------------------
(* Two tables, two receivers, a channel that holds one event; keys of one   *)
(* and of two columns around a limit of six bytes.                          *)
EXTENDS Subscriptions
CONSTANTS c1, c2, r1, r2
MCChannels == {c1, c2}
MCReceivers == {r1, r2}
Pk(t, n) == [type |-> t, size |-> n]
MCKeys == { <<Pk("Int", 1)>>, <<Pk("Text", 5)>>, <<Pk("Text", 6)>>, <<Pk("Null", 0)>>,
            <<Pk("Uuid", 2), Pk("Int", 2)>>, <<Pk("Int", 1), Pk("Int", 1)>> }
=============================================================================
