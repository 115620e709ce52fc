------------------------------ MODULE PageStream ------------------------------
(***************************************************************************)
(* What the exchange promises to the operators on both of its ends: a      *)
(* stream.  Pages come out once each and in order, and the end of the      *)
(* stream comes after the last page.  A stream may break, because the task *)
(* that writes it is cancelled, because the reader closes early or because *)
(* the transport gives up; then what came out is still a prefix of what    *)
(* went in, and the end means nothing any more.                            *)
(***************************************************************************)
EXTENDS Naturals, Sequences

CONSTANT Page

VARIABLES sent,     \* the pages written
          got,      \* the pages read
          ended,    \* no more pages will be written
          done,     \* the reader saw the end
          broken

vars == <<sent, got, ended, done, broken>>

Init ==
    /\ sent = <<>>
    /\ got = <<>>
    /\ ended = FALSE
    /\ done = FALSE
    /\ broken = FALSE

\* Any number of pages is appended.
Write ==
    /\ ~ended
    /\ sent' \in Seq(Page)
    /\ Len(sent) <= Len(sent')
    /\ sent = SubSeq(sent', 1, Len(sent))
    /\ UNCHANGED <<got, ended, done, broken>>

EndOfStream ==
    /\ ended' = TRUE
    /\ UNCHANGED <<sent, got, done, broken>>

\* One response brings any number of the pages that are left.
Read ==
    /\ \E n \in Len(got) + 1 .. Len(sent) : got' = SubSeq(sent, 1, n)
    /\ UNCHANGED <<sent, ended, done, broken>>

Complete ==
    /\ ~done
    /\ broken \/ (ended /\ got = sent)
    /\ done' = TRUE
    /\ UNCHANGED <<sent, got, ended, broken>>

Break ==
    /\ broken' = TRUE
    /\ ended' \in {ended, TRUE}
    /\ UNCHANGED <<sent, got, done>>

Next ==
    \/ Write
    \/ EndOfStream
    \/ Read
    \/ Complete
    \/ Break

Spec == Init /\ [][Next]_vars

\* An unbroken stream delivers what it has.
Fairness == WF_vars(~broken /\ (Read \/ Complete))

FairSpec == Spec /\ Fairness
=============================================================================
