--------------------------- MODULE MCEmailOutbox ---------------------------
(***************************************************************************)
(* Small instances of EmailOutbox.                                         *)
(***************************************************************************)
EXTENDS EmailOutbox, TLC

\* All messages go to one recipient.
OneRecipient == [m \in Msg |-> CHOOSE r \in Rcpt : TRUE]

\* The slow instance is about messages to addresses that stay as they are: the
\* activation of one is part of the instance of MCEmail.
SlowNext ==
    \/ \E m \in Msg : Enqueue(m) \/ LeaseExpires(m)
    \/ \E w \in Worker :
         Work(w) \/ Crash(w) \/ \E due, old \in SUBSET Msg : Purge(w, due, old)
    \/ \E h \in Hook : Serve(h) \/ \E e \in Msg \X Kind : Receive(h, e)
    \/ \E r \in Rcpt : Erase(r)

SlowSpec == Init /\ [][SlowNext]_vars /\ Fairness

Alike == Permutations(Msg) \cup Permutations(Worker)
=============================================================================
