------------------------- MODULE MCPostingLifecycle -------------------------
(* Small instances of PostingLifecycle for TLC.                            *)
EXTENDS PostingLifecycle, TLC

CONSTANTS t1, t2, f1, f2

Offer(open, text, form) == [open |-> open, text |-> text, form |-> form]

(* One posting: listed in three wordings, two of them of the same meaning, *)
(* listed as closed, or not listed.                                        *)
AllFeeds ==
  {[p \in Postings |-> c] : c \in {Offer(TRUE, t1, f1), Offer(TRUE, t1, f2),
                                   Offer(TRUE, t2, f1), Offer(FALSE, t1, f1),
                                   NotListed}}

(* One posting that the source lists or does not list.                     *)
ListedOrNot ==
  {[p \in Postings |-> c] : c \in {Offer(TRUE, t1, f1), NotListed}}

(* Polls beyond FewPolls only without reparses, and of a source that has   *)
(* always listed the posting in one wording or not listed it.              *)
FewPolls == 3
Bounded ==
  \/ Len(served) <= FewPolls
  \/ /\ \A i \in DOMAIN served : served[i] \in ListedOrNot
     /\ \A i \in DOMAIN jobs : ~jobs[i].reprocess

MCSpec == Init /\ [][Next /\ Bounded']_vars

WorkerSymmetry == Permutations(Workers)
=============================================================================
