---------------------------- MODULE ReleaseStore ----------------------------
(***************************************************************************)
(* What the release tables promise to every reader of the knowledge base.  *)
(*                                                                         *)
(* A release is a content: which revision of each item it serves.  It is   *)
(* written once and can be served again at any later time, unchanged,      *)
(* however many releases were published meanwhile.  What is served is      *)
(* always the content of exactly one release.                              *)
(***************************************************************************)
EXTENDS Naturals, Sequences

CONSTANT Contents    \* what a release may serve

VARIABLES
    contents,   \* contents[n]: the content of the n-th release
    head,       \* the release being served, 0 before the first
    serving     \* what readers see

vars == <<contents, head, serving>>

Init ==
    /\ contents = <<>>
    /\ head = 0
    /\ serving \in Contents

Publish(c) ==
    /\ contents' = Append(contents, c)
    /\ head' = Len(contents) + 1
    /\ serving' = c

Activate(n) ==
    /\ head' = n
    /\ serving' = contents[n]
    /\ UNCHANGED contents

Next ==
    \/ \E c \in Contents : Publish(c)
    \/ \E n \in 1..Len(contents) : Activate(n)

Spec == Init /\ [][Next]_vars
=============================================================================
