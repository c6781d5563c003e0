---------------------------- MODULE Startup_proofs ----------------------------
(***************************************************************************)
(* Proofs about Startup, for any number of processes, values and edits.    *)
(*                                                                         *)
(* What a start reads out of config.json does not depend on how far a      *)
(* start that writes the file has come: absent, cut off and written it     *)
(* stands for the defaults (Harmless).  That needs the two assumptions of  *)
(* the model: nobody else changes the file meanwhile, and a file that      *)
(* exists is not taken for one that does not.                              *)
(***************************************************************************)
EXTENDS Startup, TLAPS

\* A file that stands for the built-in settings.
Harmless(g) == g \in {Absent, Cut, Written(Defaults)}

\* Where every start since the last edit arrives.
Agreed == Override(Decoded(file), env)

IInv ==
  /\ TypeOK
  /\ \A p \in Creating : Harmless(file)
  /\ \A p \in fresh : proc[p].at \in Loading => proc[p].env = env
  /\ \A c \in used : c = Agreed

LEMMA HarmlessDefaults == ASSUME NEW g, Harmless(g) PROVE Decoded(g) = Defaults
<1>1. CASE g \in {Absent, Cut}
  BY <1>1 DEF Decoded, Absent, Cut
<1>2. CASE g = Written(Defaults)
  <2>1. g.kind = "text" /\ g.text = Defaults
    BY <1>2 DEF Written
  <2>2. \A f \in Fields : Defaults[f] = Default
    BY DEF Defaults
  <2>3. Decoded(g) = [f \in Fields |-> IF g.text[f] \in {Missing, Wrong} THEN Default ELSE g.text[f]]
    BY <2>1 DEF Decoded
  <2>4. [f \in Fields |-> IF g.text[f] \in {Missing, Wrong} THEN Default ELSE g.text[f]] = Defaults
    BY <2>1, <2>2 DEF Defaults
  <2> QED BY <2>3, <2>4
<1> QED BY <1>1, <1>2 DEF Harmless

-----------------------------------------------------------------------------
(* Types.                                                                  *)

FileType == {Absent, Cut} \cup {Written(t) : t \in [Fields -> Values \cup {Missing, Wrong}]}

LEMMA DecodedType == ASSUME NEW g \in FileType PROVE Decoded(g) \in Settings
<1>1. CASE g.kind # "text"
  BY <1>1 DEF Decoded, Settings, Defaults, Values
<1>2. CASE g.kind = "text"
  <2>1. g.text \in [Fields -> Values \cup {Missing, Wrong}]
    BY <1>2 DEF FileType, Absent, Cut, Written
  <2> QED BY <1>2, <2>1 DEF Decoded, Settings, Values
<1> QED BY <1>1, <1>2

LEMMA OverrideType ==
  ASSUME NEW cfg \in Settings, NEW e \in Environments PROVE Override(cfg, e) \in Settings
BY StartupAssumption DEF Override, Settings, Values

LEMMA DefaultsType == Defaults \in Settings /\ Written(Defaults) \in FileType
BY DEF Defaults, Settings, Values, FileType

\* The end of LoadConfig.
LEMMA LoadedType ==
  ASSUME TypeOK, NEW p \in Procs, proc[p].at \in Loading, NEW cfg \in Settings, Loaded(p, cfg)
  PROVE  /\ proc' \in [Procs -> {Down} \cup [at : Loading, env : Environments]
                                      \cup [at : Running, cfg : Settings]]
         /\ used' \subseteq Settings
<1>1. proc[p].env \in Environments
  BY DEF TypeOK, Down, Loading, Running
<1>2. Override(cfg, proc[p].env) \in Settings
  BY <1>1, OverrideType
<1> QED BY <1>2 DEF Loaded, Goto, Settle, TypeOK, Running

LEMMA TypeInductive == ASSUME TypeOK, [Next]_vars PROVE TypeOK'
<1> USE DEF FileType
<1>1. CASE EditFile
  BY <1>1, StartupAssumption DEF EditFile, Edited, TypeOK, Written, Values
<1>2. CASE EditEnv
  BY <1>2 DEF EditEnv, Edited, TypeOK
<1>3. ASSUME NEW p \in Procs, Launch(p) PROVE TypeOK'
  BY <1>3 DEF Launch, Goto, TypeOK, Loading
<1>4. ASSUME NEW p \in Procs, Kill(p) PROVE TypeOK'
  BY <1>4 DEF Kill, Goto, TypeOK
<1>5. ASSUME NEW p \in Procs, Open(p) PROVE TypeOK'
  <2>1. CASE Loaded(p, Decoded(file))
    <3>1. Decoded(file) \in Settings
      BY DecodedType DEF TypeOK
    <3> QED BY <1>5, <2>1, <3>1, LoadedType DEF Open, At, Loading, Kept, TypeOK
  <2>2. CASE Goto(p, [proc[p] EXCEPT !.at = "create"]) /\ UNCHANGED used
    <3>1. proc[p] \in [at : Loading, env : Environments]
      BY <1>5 DEF Open, At, TypeOK, Down, Running
    <3>2. [proc[p] EXCEPT !.at = "create"] \in [at : Loading, env : Environments]
      BY <3>1 DEF Loading
    <3> QED BY <1>5, <2>2, <3>2 DEF Open, Goto, Kept, TypeOK
  <2> QED BY <1>5, <2>1, <2>2 DEF Open
<1>6. ASSUME NEW p \in Procs, Create(p) PROVE TypeOK'
  <2>1. CASE Loaded(p, Defaults) /\ file' = file
    BY <1>6, <2>1, LoadedType, DefaultsType DEF Create, At, Loading, Kept, TypeOK
  <2>2. CASE Goto(p, [proc[p] EXCEPT !.at = "encode"]) /\ UNCHANGED used /\ file' = Cut
    <3>1. proc[p] \in [at : Loading, env : Environments]
      BY <1>6 DEF Create, At, TypeOK, Down, Running
    <3>2. [proc[p] EXCEPT !.at = "encode"] \in [at : Loading, env : Environments]
      BY <3>1 DEF Loading
    <3> QED BY <1>6, <2>2, <3>2 DEF Create, Goto, Kept, TypeOK
  <2> QED BY <1>6, <2>1, <2>2 DEF Create
<1>7. ASSUME NEW p \in Procs, Encode(p) PROVE TypeOK'
  <2>1. file' \in FileType
    BY <1>7, DefaultsType DEF Encode, TypeOK
  <2> QED BY <1>7, <2>1, LoadedType, DefaultsType DEF Encode, At, Loading, Kept, TypeOK
<1>8. ASSUME NEW p \in Procs, Prepare(p) \/ Clean(p) \/ Bind(p) PROVE TypeOK'
  <2>1. proc[p] \in [at : Running, cfg : Settings]
    BY <1>8 DEF Prepare, Clean, Bind, At, TypeOK, Down, Loading
  <2>2. \A a \in Running : [proc[p] EXCEPT !.at = a] \in [at : Running, cfg : Settings]
    BY <2>1
  <2>3. "clean" \in Running /\ "bind" \in Running /\ "serve" \in Running
    BY DEF Running
  <2>4. CASE Prepare(p)
    BY <2>2, <2>3, <2>4 DEF Prepare, Fatal, Goto, TypeOK
  <2>5. CASE Clean(p)
    BY <2>2, <2>3, <2>5 DEF Clean, Goto, TypeOK
  <2>6. CASE Bind(p)
    BY <2>2, <2>3, <2>6 DEF Bind, Fatal, Goto, TypeOK
  <2> QED BY <1>8, <2>4, <2>5, <2>6
<1>9. ASSUME NEW p \in Procs, UploadBegin(p) PROVE TypeOK'
  <2>1. proc[p] \in [at : Running, cfg : Settings]
    BY <1>9 DEF UploadBegin, Serving, At, TypeOK, Down, Loading
  <2>2. proc[p].cfg["dir"] \in Values
    BY <2>1 DEF Settings, Fields
  <2> QED BY <1>9, <2>2 DEF UploadBegin, TypeOK
<1>10. ASSUME NEW p \in Procs, UploadEnd(p) PROVE TypeOK'
  BY <1>10 DEF UploadEnd, TypeOK
<1>11. CASE UNCHANGED vars
  BY <1>11 DEF vars, TypeOK
<1> QED BY <1>1, <1>2, <1>3, <1>4, <1>5, <1>6, <1>7, <1>8, <1>9, <1>10, <1>11 DEF Next

LEMMA InitType == ASSUME Init PROVE TypeOK
BY StartupAssumption DEF Init, TypeOK

\* The variables keep their types.
THEOREM TypeCorrect == Spec => []TypeOK
<1>1. Init => TypeOK
  BY InitType
<1>2. TypeOK /\ [Next]_vars => TypeOK'
  BY TypeInductive
<1> QED BY <1>1, <1>2, PTL DEF Spec

-----------------------------------------------------------------------------
(* One start after the other comes to the same settings.                   *)

\* The end of LoadConfig in a process whose file stands for the settings cfg.
LEMMA LoadedAgrees ==
  ASSUME IInv, NEW p \in Procs, proc[p].at \in Loading, Loaded(p, Decoded(file)),
         Decoded(file') = Decoded(file), UNCHANGED <<env, fresh>>
  PROVE  /\ \A q \in fresh' : proc'[q].at \in Loading => proc'[q].env = env'
         /\ \A c \in used' : c = Agreed'
         /\ Creating' \subseteq Creating
<1> DEFINE c == Override(Decoded(file), proc[p].env)
<1>1. TypeOK
  BY DEF IInv
<1>2. /\ proc'[p] = [at |-> "prepare", cfg |-> c]
      /\ \A q \in Procs \ {p} : proc'[q] = proc[q]
      /\ used' = IF p \in fresh THEN used \cup {c} ELSE used
  BY <1>1 DEF Loaded, Goto, Settle, TypeOK
<1>3. \A q \in fresh' : proc'[q].at \in Loading => proc'[q].env = env'
  BY <1>1, <1>2 DEF IInv, Loading, TypeOK
<1>4. p \in fresh => c = Agreed
  BY DEF IInv, Agreed
<1>5. Agreed' = Agreed
  BY DEF Agreed
<1>6. \A d \in used' : d = Agreed'
  BY <1>2, <1>4, <1>5 DEF IInv
<1>7. Creating' \subseteq Creating
  BY <1>2 DEF Creating
<1> QED BY <1>3, <1>6, <1>7

\* A step that leaves file and environment alone, and lets no process into the
\* part of LoadConfig that writes.
LEMMA OthersAgree ==
  ASSUME IInv, TypeOK', UNCHANGED <<file, env, used>>, fresh' \subseteq fresh, NEW p \in Procs,
         \A q \in Procs \ {p} : proc'[q] = proc[q], proc'[p].at \notin Loading
  PROVE  IInv'
<1>1. Creating' \subseteq Creating
  BY DEF Creating, Loading
<1>2. \A q \in fresh' : proc'[q].at \in Loading => proc'[q].env = env'
  BY DEF IInv, TypeOK
<1>3. Agreed' = Agreed
  BY DEF Agreed
<1> QED BY <1>1, <1>2, <1>3 DEF IInv

LEMMA NextAgrees == ASSUME OperatorWaits, FileReadable, IInv, [Next]_vars PROVE IInv'
<1>1. TypeOK /\ TypeOK'
  BY TypeInductive DEF IInv
<1>2. CASE EditFile
  BY <1>1, <1>2 DEF EditFile, Edited, IInv, Creating
<1>3. CASE EditEnv
  BY <1>1, <1>3 DEF EditEnv, Edited, IInv, Creating
<1>4. ASSUME NEW p \in Procs, Launch(p) PROVE IInv'
  <2>1. /\ proc'[p] = [at |-> "open", env |-> env] /\ \A q \in Procs \ {p} : proc'[q] = proc[q]
        /\ fresh' = fresh \cup {p} /\ UNCHANGED <<file, env, used>>
    BY <1>1, <1>4 DEF Launch, Goto, TypeOK
  <2>2. Creating' \subseteq Creating
    BY <2>1 DEF Creating
  <2>3. \A q \in fresh' : proc'[q].at \in Loading => proc'[q].env = env'
    BY <1>1, <2>1 DEF IInv, TypeOK
  <2>4. Agreed' = Agreed
    BY <2>1 DEF Agreed
  <2> QED BY <1>1, <2>1, <2>2, <2>3, <2>4 DEF IInv
<1>5. ASSUME NEW p \in Procs, Kill(p) PROVE IInv'
  <2>1. proc'[p] = Down /\ \A q \in Procs \ {p} : proc'[q] = proc[q]
    BY <1>1, <1>5 DEF Kill, Goto, TypeOK
  <2>2. proc'[p].at \notin Loading
    BY <2>1 DEF Down, Loading
  <2> QED BY <1>1, <1>5, <2>1, <2>2, OthersAgree DEF Kill
<1>6. ASSUME NEW p \in Procs, Open(p) PROVE IInv'
  <2>1. CASE Loaded(p, Decoded(file))
    <3>1. proc[p].at \in Loading /\ UNCHANGED <<file, env, fresh>>
      BY <1>6 DEF Open, At, Loading, Kept
    <3>2. /\ \A q \in fresh' : proc'[q].at \in Loading => proc'[q].env = env'
          /\ \A c \in used' : c = Agreed'
          /\ Creating' \subseteq Creating
      BY <2>1, <3>1, LoadedAgrees
    <3> QED BY <1>1, <3>1, <3>2 DEF IInv
  <2>2. CASE file = Absent /\ Goto(p, [proc[p] EXCEPT !.at = "create"]) /\ UNCHANGED used
    <3>1. proc[p] \in [at : Loading, env : Environments] /\ UNCHANGED <<file, env, fresh>>
      BY <1>1, <1>6 DEF Open, At, TypeOK, Down, Running, Kept
    <3>2. /\ proc'[p].at = "create" /\ proc'[p].env = proc[p].env /\ proc[p].at \in Loading
          /\ \A q \in Procs \ {p} : proc'[q] = proc[q]
      BY <1>1, <2>2, <3>1 DEF Goto, TypeOK
    <3>3. Harmless(file)'
      BY <2>2, <3>1 DEF Harmless
    <3>4. \A q \in fresh' : proc'[q].at \in Loading => proc'[q].env = env'
      BY <1>1, <3>1, <3>2 DEF IInv, TypeOK
    <3>5. Agreed' = Agreed
      BY <3>1 DEF Agreed
    <3> QED BY <1>1, <2>2, <3>3, <3>4, <3>5 DEF IInv
  <2> QED BY <1>6, <2>1, <2>2 DEF Open
<1>7. ASSUME NEW p \in Procs, Create(p) PROVE IInv'
  <2>1. proc[p].at \in Loading /\ Harmless(file) /\ UNCHANGED <<env, fresh>>
    BY <1>7 DEF Create, At, Loading, Kept, IInv, Creating
  <2>2. Decoded(file) = Defaults /\ Decoded(Cut) = Defaults
    BY <2>1, HarmlessDefaults DEF Harmless
  <2>3. CASE Loaded(p, Defaults) /\ file' = file
    <3>1. /\ \A q \in fresh' : proc'[q].at \in Loading => proc'[q].env = env'
          /\ \A c \in used' : c = Agreed'
      BY <2>1, <2>2, <2>3, LoadedAgrees
    <3> QED BY <1>1, <2>1, <2>3, <3>1 DEF IInv
  <2>4. CASE Goto(p, [proc[p] EXCEPT !.at = "encode"]) /\ UNCHANGED used /\ file' = Cut
    <3>1. proc[p] \in [at : Loading, env : Environments]
      BY <1>1, <1>7 DEF Create, At, TypeOK, Down, Running
    <3>2. /\ proc'[p].env = proc[p].env /\ \A q \in Procs \ {p} : proc'[q] = proc[q]
      BY <1>1, <2>4, <3>1 DEF Goto, TypeOK
    <3>3. \A q \in fresh' : proc'[q].at \in Loading => proc'[q].env = env'
      BY <1>1, <2>1, <3>2 DEF IInv, TypeOK
    <3>4. Agreed' = Agreed
      BY <2>1, <2>2, <2>4 DEF Agreed
    <3> QED BY <1>1, <2>4, <3>3, <3>4 DEF IInv, Harmless
  <2> QED BY <1>7, <2>3, <2>4 DEF Create
<1>8. ASSUME NEW p \in Procs, Encode(p) PROVE IInv'
  <2>1. /\ proc[p].at \in Loading /\ Harmless(file) /\ UNCHANGED <<env, fresh>>
        /\ file' \in {file, Written(Defaults)} /\ Loaded(p, Defaults)
    BY <1>8 DEF Encode, At, Loading, Kept, IInv, Creating
  <2>2. Harmless(file')
    BY <2>1 DEF Harmless
  <2>3. Decoded(file) = Defaults /\ Decoded(file') = Defaults
    BY <2>1, <2>2, HarmlessDefaults
  <2>4. /\ \A q \in fresh' : proc'[q].at \in Loading => proc'[q].env = env'
        /\ \A c \in used' : c = Agreed'
    BY <2>1, <2>3, LoadedAgrees
  <2> QED BY <1>1, <2>2, <2>4 DEF IInv
<1>9. ASSUME NEW p \in Procs, Prepare(p) \/ Clean(p) \/ Bind(p) PROVE IInv'
  <2>1. proc[p] \in [at : Running, cfg : Settings]
    BY <1>1, <1>9 DEF Prepare, Clean, Bind, At, TypeOK, Down, Loading
  <2>2. \E r : Goto(p, r) /\ r.at \notin Loading
    BY <1>9, <2>1 DEF Prepare, Clean, Bind, Fatal, Down, Loading
  <2>3. \A q \in Procs \ {p} : proc'[q] = proc[q]
    BY <1>1, <2>2 DEF Goto, TypeOK
  <2>4. proc'[p].at \notin Loading
    BY <1>1, <2>2 DEF Goto, TypeOK
  <2>5. UNCHANGED <<file, env, used>> /\ fresh' \subseteq fresh
    BY <1>9 DEF Prepare, Clean, Bind, Fatal
  <2> QED BY <1>1, <2>3, <2>4, <2>5, OthersAgree
<1>10. CASE UNCHANGED <<file, env, proc, fresh, used>>
  BY <1>1, <1>10 DEF IInv, Creating, Agreed
<1>11. ASSUME NEW p \in Procs, UploadBegin(p) \/ UploadEnd(p) PROVE IInv'
  BY <1>10, <1>11 DEF UploadBegin, UploadEnd
<1> QED
  BY <1>2, <1>3, <1>4, <1>5, <1>6, <1>7, <1>8, <1>9, <1>10, <1>11 DEF Next, vars

LEMMA InitAgrees == ASSUME Init PROVE IInv
BY InitType DEF Init, IInv, Creating, Down

\* Starts without an edit between them come to the same settings, if nobody edits
\* while the file is written and a file that exists can be opened.
THEOREM SettingsAgree == ASSUME OperatorWaits, FileReadable PROVE Spec => []SameSettings
<1>1. Init => IInv
  BY InitAgrees
<1>2. IInv /\ [Next]_vars => IInv'
  BY NextAgrees
<1>3. IInv => SameSettings
  BY DEF IInv, SameSettings
<1> QED BY <1>1, <1>2, <1>3, PTL DEF Spec

\* Under the same assumptions no start changes a file of the operator.
THEOREM OperatorFileStays == ASSUME OperatorWaits, FileReadable PROVE Spec => OperatorFileKept
<1>1. Init => IInv
  BY InitAgrees
<1>2. IInv /\ [Next]_vars => IInv'
  BY NextAgrees
<1>3. ASSUME IInv, NEW p \in Procs, Create(p) \/ Encode(p), file.kind = "text"
      PROVE  file.text \in [Fields -> {Default}]
  <2>1. Harmless(file)
    BY <1>3 DEF IInv, Creating, Create, Encode, At
  <2>2. file = Written(Defaults)
    BY <1>3, <2>1 DEF Harmless, Absent, Cut
  <2> QED BY <2>2 DEF Written, Defaults
<1>4. IInv /\ [Next]_vars =>
        [\A p \in Procs : (Create(p) \/ Encode(p)) /\ file.kind = "text" =>
           file.text \in [Fields -> {Default}] \/ file' = file]_vars
  BY <1>3
<1> QED BY <1>1, <1>2, <1>4, PTL DEF Spec, OperatorFileKept

-----------------------------------------------------------------------------
(* The environment stays out of the file.                                  *)

\* What is in the file comes from the operator or is built in.
Public(g) == g.kind = "text" => g.text \in [Fields -> FileValues \cup {Default, Missing, Wrong}]

\* No value of the environment is ever in config.json; here nothing is assumed of
\* edits or of os.Open.
THEOREM EnvStaysOut == Spec => []EnvNeverPersisted
<1>1. Init => Public(file)
  BY DEF Init, Public, Absent
<1>2. Public(file) /\ [Next]_vars => Public(file)'
  <2> SUFFICES ASSUME Public(file), [Next]_vars PROVE Public(file)'
    OBVIOUS
  <2>1. Public(Absent) /\ Public(Cut) /\ Public(Written(Defaults))
    BY DEF Public, Absent, Cut, Written, Defaults
  <2>2. \A t \in FileTexts : Public(Written(t))
    BY StartupAssumption DEF Public, Written
  <2>3. \/ file' \in {file, Absent, Cut, Written(Defaults)}
        \/ \E t \in FileTexts : file' = Written(t)
    BY DEF Next, vars, EditFile, EditEnv, Launch, Kill, Open, Create, Encode, Prepare, Clean, Bind,
           UploadBegin, UploadEnd
  <2> QED BY <2>1, <2>2, <2>3
<1>3. Public(file) => EnvNeverPersisted
  BY StartupAssumption DEF Public, EnvNeverPersisted, Values
<1> QED BY <1>1, <1>2, <1>3, PTL DEF Spec

-----------------------------------------------------------------------------
(* Leftovers.                                                              *)

\* Once a process has cleaned its folder nothing it was launched with is there.
CleanedOf(p) == \A x \in stale[p] \cap parts : x[2] # proc[p].cfg["dir"]

LInv == TypeOK /\ \A p \in Procs : proc[p].at \in {"bind", "serve"} => CleanedOf(p)

\* A process that has not changed, when files that count as new are all that came.
LEMMA CleanedStays ==
  ASSUME LInv, NEW p \in Procs, proc'[p] = proc[p], stale'[p] \cap parts' \subseteq stale[p] \cap parts
  PROVE  proc'[p].at \in {"bind", "serve"} => CleanedOf(p)'
BY DEF LInv, CleanedOf

LEMMA NextCleaned == ASSUME LInv, [Next]_vars PROVE LInv'
<1>1. TypeOK /\ TypeOK'
  BY TypeInductive DEF LInv
<1>2. CASE UNCHANGED <<proc, parts, stale>>
  BY <1>1, <1>2, CleanedStays DEF LInv
<1>3. CASE EditFile \/ EditEnv
  BY <1>2, <1>3 DEF EditFile, EditEnv, Edited
<1>4. ASSUME NEW p \in Procs, Launch(p) \/ Kill(p) \/ Open(p) \/ Create(p) \/ Encode(p) \/ Prepare(p)
      PROVE  LInv'
  <2>1. parts' = parts /\ \A q \in Procs \ {p} : stale'[q] = stale[q]
    BY <1>1, <1>4 DEF Launch, Kill, Open, Create, Encode, Prepare, Fatal, Kept, TypeOK
  <2>2. proc[p].at \in {"open", "create", "encode"} /\ ~Kill(p) => proc[p] \in [at : Loading, env : Environments]
    BY <1>1 DEF TypeOK, Down, Running
  <2>3. proc[p].at = "prepare" => proc[p] \in [at : Running, cfg : Settings]
    BY <1>1 DEF TypeOK, Down, Loading
  <2>4. \E r : Goto(p, r) /\ r.at \notin {"bind", "serve"}
    BY <1>4, <2>2, <2>3 DEF Launch, Kill, Open, Create, Encode, Prepare, Fatal, Loaded, At, Down
  <2>5. proc'[p].at \notin {"bind", "serve"} /\ \A q \in Procs \ {p} : proc'[q] = proc[q]
    BY <1>1, <2>4 DEF Goto, TypeOK
  <2> QED BY <1>1, <2>1, <2>5, CleanedStays DEF LInv
<1>5. ASSUME NEW p \in Procs, Clean(p) PROVE LInv'
  <2>1. proc[p] \in [at : Running, cfg : Settings]
    BY <1>1, <1>5 DEF Clean, At, TypeOK, Down, Loading
  <2>2. /\ proc'[p].cfg = proc[p].cfg /\ \A q \in Procs \ {p} : proc'[q] = proc[q]
        /\ parts' = {x \in parts : x[2] # proc[p].cfg["dir"]} /\ stale' = stale
    BY <1>1, <1>5, <2>1 DEF Clean, Goto, TypeOK
  <2>3. CleanedOf(p)'
    BY <2>2 DEF CleanedOf
  <2> QED BY <1>1, <2>2, <2>3, CleanedStays DEF LInv
<1>6. ASSUME NEW p \in Procs, Bind(p) PROVE LInv'
  <2>1. proc[p] \in [at : Running, cfg : Settings] /\ proc[p].at = "bind"
    BY <1>1, <1>6 DEF Bind, At, TypeOK, Down, Loading
  <2>2. /\ \A q \in Procs \ {p} : proc'[q] = proc[q] /\ stale'[q] = stale[q]
        /\ parts' = parts
    BY <1>1, <1>6 DEF Bind, Fatal, Goto, TypeOK
  <2>3. \/ proc'[p] = Down
        \/ proc'[p].cfg = proc[p].cfg /\ stale' = stale
    BY <1>1, <1>6, <2>1 DEF Bind, Fatal, Goto, TypeOK
  <2>4. proc'[p].at \in {"bind", "serve"} => CleanedOf(p)'
    BY <2>1, <2>2, <2>3 DEF LInv, CleanedOf, Down
  <2> QED BY <1>1, <2>2, <2>4, CleanedStays DEF LInv
<1>7. ASSUME NEW p \in Procs, UploadBegin(p) \/ UploadEnd(p) PROVE LInv'
  <2>1. proc' = proc /\ \A q \in Procs : stale'[q] \cap parts' \subseteq stale[q] \cap parts
    BY <1>1, <1>7 DEF UploadBegin, UploadEnd, TypeOK
  <2> QED BY <1>1, <2>1, CleanedStays DEF LInv
<1> QED BY <1>2, <1>3, <1>4, <1>5, <1>6, <1>7 DEF Next, vars

\* No process serves while its folder holds a leftover it was launched with,
\* however many processes there are.
THEOREM LeftoversAreGone == Spec => []LeftoversGone
<1>1. Init => LInv
  BY InitType DEF Init, LInv, Down
<1>2. LInv /\ [Next]_vars => LInv'
  BY NextCleaned
<1>3. LInv => LeftoversGone
  BY DEF LInv, CleanedOf, LeftoversGone, Serving, At
<1> QED BY <1>1, <1>2, <1>3, PTL DEF Spec
=============================================================================
