---------------------------- MODULE MCConversation ----------------------------
(* Conversations of three requests on two channels: one whose every response  *)
(* brings an opaque item; those whose provider reports usage three times, all *)
(* reports checked or but those of one request; and those with one item and   *)
(* three reports, so that a recovered request reports between others.         *)
EXTENDS Conversation, TLC

AllChecked == [opaque |-> {}, checked |-> Requests, sizes |-> {4, 5, 6}, reports |-> 3]
MCWorkloads ==
  {[AllChecked EXCEPT !.opaque = Requests, !.sizes = {4}, !.reports = 0], AllChecked}
  \cup {[AllChecked EXCEPT !.checked = Requests \ {r}] : r \in Requests}
  \cup {[AllChecked EXCEPT !.opaque = {r}, !.sizes = {5}] : r \in Requests}
Symmetric == Permutations(Requests)
=============================================================================
