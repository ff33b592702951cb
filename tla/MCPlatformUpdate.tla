--------------------------- MODULE MCPlatformUpdate ---------------------------
(***************************************************************************)
(* Model-checking instances of PlatformUpdate.                             *)
(***************************************************************************)
EXTENDS PlatformUpdate, TLC, FiniteSets

Created(rows) == {r \in DOMAIN rows : rows[r] # "absent"}

\* The instance of the run: one update after another, a fault of the first one
\* included, or one update next to an ordinary operation or a config task.
\* Jobs are interchangeable, so one of them comes first.  What is left out are
\* creations and faults, and nothing else owes them.
FirstJob == CHOOSE j \in Jobs : TRUE
Focus ==
    /\ Created(status) # {} => FirstJob \in Created(status)
    /\ Created(task) = {} \/ (Created(status) \subseteq {FirstJob} /\ Cardinality(Created(task)) = 1)

MCNext ==
    /\ Next /\ Focus'
    /\ Created(status) = Jobs => faults' = faults

MCSpec == Init /\ [][MCNext]_vars /\ Fairness
=============================================================================
