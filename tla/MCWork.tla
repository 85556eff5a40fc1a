------------------------------- MODULE MCWork -------------------------------
(* The pool of worker processes and a pass of the translator share nothing:  *)
(* a behaviour is of one of them, and the other stays as it began.           *)
EXTENDS WorkerPool, Translator

\* The first and the last line have the same source.
Dialogue == <<"a", "b", "a">>

VARIABLE active \* the part the behaviour is of
workVars == <<vars, trVars, active>>

\* Of two workers that wait, which are alike, the first one gets the batch.
FirstFirst == crew[1].at = "receive" /\ crew[2].at = "receive" => crew'[2].at # "taken"

WorkInit ==
  /\ active \in {"pool", "translator"}
  /\ Init /\ TranslatorInit
  /\ active # "translator" => concurrency = 1 /\ ~revise /\ \A k \in Keys : cache[k] = NoText
  /\ concurrency = 2 => ~revise /\ \A k \in Keys : cache[k] = NoText

WorkNext ==
  \/ active = "pool" /\ Next /\ UNCHANGED <<trVars, active>>
  \/ active = "translator" /\ TranslatorNext /\ FirstFirst /\ UNCHANGED <<vars, active>>

\* Fairness and TranslatorFairness, for the one that is active.
WorkFairness ==
  /\ \A c \in Callers :
       /\ WF_vars(active = "pool" /\ Acquire(c)) /\ WF_vars(active = "pool" /\ Done(c))
       /\ WF_vars(active = "pool" /\ Release(c)) /\ WF_vars(active = "pool" /\ ReturnToken(c))
       /\ SF_vars(active = "pool" /\ TakeToken(c))
  /\ WF_trVars(active = "translator" /\ Plan) /\ WF_trVars(active = "translator" /\ RunReturns)
  /\ WF_trVars(active = "translator" /\ FeederStep)
  /\ \A w \in Workers : WF_trVars(active = "translator" /\ WorkerStep(w))

WorkSpec == WorkInit /\ [][WorkNext]_workVars /\ WorkFairness

\* Every variable has its type: tokens, processes and attempts stay within
\* their limits.
WorkTypeOK == TypeOK /\ TranslatorTypeOK
=============================================================================
