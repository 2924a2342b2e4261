-------------------------- MODULE MCSessionPostgres --------------------------
(* One instance of the store for each question: which calls run is in the     *)
(* cfg, and the promise is checked as a property of the committed rows.       *)
EXTENDS SessionPostgres, FiniteSetsExt

\* What PostgresPromise leaves out, so that each part of the store gets a large
\* instance: it explores long chains (three tokens) with one name, at one
\* instant; time with two tokens; and what a rename writes with two tokens, at
\* one instant, and nothing that ends a session.
Written(k) == {table[k]} \cup {draft[c][k] : c \in Caller}

Drawn(k) == \E row \in Written(k) : row \notin {NoRow, Untouched}

Renaming ==
    \/ \E c \in Asked("rename") : TRUE
    \/ \E k \in Digest : \E row \in Written(k) :
            row \notin {NoRow, Untouched} /\ row.name # CHOOSE n \in Name : TRUE

Parts ==
    /\ clock = 0 \/ ~Drawn(Max(Token))
    /\ Renaming => clock = 0 /\ ~Drawn(Max(Token)) /\ Asked("logout") \cup Asked("end") = {}

\* Every call of the store answers, or throws: no two transactions wait for each
\* other for ever.
EveryCallAnswers == \A c \in Caller : calls[c] # Nothing ~> calls[c] = Nothing
=============================================================================
