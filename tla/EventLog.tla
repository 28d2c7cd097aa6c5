------------------------------- MODULE EventLog -------------------------------
(***************************************************************************)
(* What the timeline store promises its callers: a table of rows that only *)
(* grows.  A probe pass appears in it whole or not at all, other calls row *)
(* by row; a call succeeds only when all its rows are there, and is told   *)
(* of a conflict only when there is one.                                   *)
(***************************************************************************)
EXTENDS Sequences, Naturals

CONSTANTS None, Writers,
          Passes    \* the writers whose rows go in together

VARIABLES log,      \* [id -> content, or None]
          job,      \* the rows each writer was asked to record
          answer    \* what each writer was told, "none" so far
logVars == <<log, job, answer>>

LogInit ==
    /\ \A id \in DOMAIN log : log[id] = None
    /\ \A w \in Writers : answer[w] = "none"

InLog(row, l) == l[row.id] = row.content
Rows(w) == {job[w][k] : k \in DOMAIN job[w]}

\* Two contents for one id, one of them possibly in the log already.
Disputed(w) ==
    \E row \in Rows(w) :
        \/ log[row.id] \notin {None, row.content}
        \/ \E other \in Rows(w) : /\ other.id = row.id
                                  /\ other.content # row.content

AppendBy(w) ==
    \E rows \in IF w \in Passes THEN {Rows(w)} ELSE {{row} : row \in Rows(w)} :
        /\ answer[w] = "none"
        /\ \A row \in rows : row.valid /\ InLog(row, log')
        /\ \A id \in DOMAIN log :
              (log[id] # None \/ id \notin {row.id : row \in rows})
                => log'[id] = log[id]
        /\ DOMAIN log' = DOMAIN log
        /\ UNCHANGED <<job, answer>>

Answer(w) ==
    \E a \in {"ok", "conflict", "invalid", "error", "locked", "killed"} :
        /\ answer[w] = "none"
        /\ a = "ok" => \A row \in Rows(w) : InLog(row, log)
        /\ a = "conflict" => Disputed(w)
        /\ a = "invalid" => \E row \in Rows(w) : ~row.valid
        /\ answer' = [answer EXCEPT ![w] = a]
        /\ UNCHANGED <<log, job>>

LogNext == \E w \in Writers : AppendBy(w) \/ Answer(w)
LogSpec == LogInit /\ [][LogNext]_logVars
=============================================================================
