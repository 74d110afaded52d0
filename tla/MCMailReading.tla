---------------------------- MODULE MCMailReading ----------------------------
(* Four messages, one without a date, two of the same second, in two       *)
(* inboxes; three form a conversation, and the third is yet to be delivered. *)
EXTENDS MailReading

CONSTANTS box1, box2

M(d, bs, th, tx, at, n) ==
  [received |-> d, boxes |-> bs, thread |-> th, text |-> tx, parts |-> at, size |-> n]

MCRow == 1 .. 4
MCMessage ==
  [r \in MCRow |->
     CASE r = 1 -> M(2, {box1}, TRUE, TRUE, TRUE, 3)
       [] r = 2 -> M(None, {box1, box2}, TRUE, TRUE, FALSE, 2)
       [] r = 3 -> M(2, {box2}, FALSE, TRUE, TRUE, 2)
       [] r = 4 -> M(1, {box1}, TRUE, FALSE, FALSE, 1)]
MCStart == {MCRow \ {3}}
MCOdd == {{1}, MCRow}
MCBox == {box1, box2}
MCEdits == [k \in Kinds |-> IF k = "search" THEN 1 ELSE 2]
=============================================================================
