------------------------------ MODULE MCFiles ------------------------------
(***************************************************************************)
(* What the program keeps on disk: artifacts, published outputs, project   *)
(* directories, model directories, and what is used again from them.  The  *)
(* modules share no state, so a behaviour is of one of them, and the       *)
(* others stay as they began.                                              *)
(***************************************************************************)
EXTENDS ArtifactStore, Outputs, Projects, Models, Planner

VARIABLE active \* the part the behaviour is of

\* Overlapping runs keep one version, requests made one after the other two; or
\* the second of them keeps none.
Retained ==
  LET n == IF active = "serial" THEN 2 ELSE 1
      same == [r \in Runs |-> n]
  IN IF active \in {"store", "serial"} THEN {same, [same EXCEPT ![2] = 0]} ELSE {same}

\* Runs and keys are numbered in the order they come up, which loses nothing.
\* Requests made one after the other may be four and the crashes two, others
\* three and one; so they are with a run that keeps nothing, and when that one is
\* overlapped there is neither a crash nor a removal.
Numbered(keys) == \A r \in Runs : keys[r] <= 1 + Cardinality({keys[q] : q \in 1 .. r - 1})
InOrder ==
  /\ \A r \in Runs \ {1} : pc'[r] # "idle" => pc'[r - 1] # "idle"
  /\ active = "store" \/ retention[2] = 0 => pc'[4] = "idle" /\ crashes' <= 1
  /\ active = "store" /\ retention[2] = 0 => crashes' = 0 /\ remover' = "idle"

\* A name, and the same name as the render stage would qualify it.
TwoStages == <<"subtitle", "render">>
Names == {<<"srt">>, <<"render", "srt">>}

\* The weights in the middle, as the hub sorts them.
SortedFiles == <<"config", "weights", "vocabulary">>
Sizes == [config |-> 1, weights |-> 2, vocabulary |-> 1]

\* The text stages of the pipeline, as their Spec methods declare them.
TextStages == <<"segmentation", "translation", "polish", "subtitle">>
TextDepends == [segmentation |-> {}, translation |-> {"segmentation"},
                polish |-> {"translation"}, subtitle |-> {"translation"}]
TextOptionalDepends == [segmentation |-> {}, translation |-> {},
                        polish |-> {}, subtitle |-> {"polish"}]
TextHashed == [segmentation |-> {}, translation |-> {"translation"},
               polish |-> {"translation"}, subtitle |-> {}]
FewSelections == {[only |-> {}, from |-> 1, to |-> 4], [only |-> {"translation"}, from |-> 1, to |-> 4],
                  [only |-> {"subtitle"}, from |-> 1, to |-> 4]}

\* Two requests race for one medium, or two editors for one project.
FewRequests == creating'["p2"].at = "new" \/ updating'["e2"].at = "idle"

filesVars == <<vars, outputVars, projectVars, modelsVars, plannerVars, active>>

FilesInit ==
  /\ active \in {"store", "serial", "outputs", "projects", "models", "planner"}
  /\ Init /\ OutputsInit /\ ProjectsInit /\ ModelsInit /\ PlannerInit
  /\ serial = (active = "serial") /\ retention \in Retained
  /\ Numbered(key) /\ (active # "serial" => key[4] = 1)
  /\ active \notin {"store", "serial"} => \A r \in Runs : key[r] = 1
  /\ active # "projects" => \A m \in Media : place[m] = User
  /\ active # "models" => endpoint = "a"

FilesNext ==
  /\ UNCHANGED active
  /\ \/ /\ active \in {"store", "serial"} /\ Next /\ InOrder
        /\ UNCHANGED <<outputVars, projectVars, modelsVars, plannerVars>>
     \/ /\ active = "outputs" /\ OutputsNext
        /\ UNCHANGED <<vars, projectVars, modelsVars, plannerVars>>
     \/ /\ active = "projects" /\ ProjectsNext /\ FewRequests
        /\ UNCHANGED <<vars, outputVars, modelsVars, plannerVars>>
     \/ /\ active = "models" /\ ModelsNext
        /\ UNCHANGED <<vars, outputVars, projectVars, plannerVars>>
     \/ /\ active = "planner" /\ PlannerNext
        /\ UNCHANGED <<vars, outputVars, projectVars, modelsVars>>

FilesSpec == FilesInit /\ [][FilesNext]_filesVars

\* Every variable has its type; rows, claims and keys are consistent.
FilesTypeOK ==
  /\ TypeOK /\ OutputsTypeOK /\ ProjectsTypeOK /\ ModelsTypeOK /\ PlannerTypeOK
=============================================================================
