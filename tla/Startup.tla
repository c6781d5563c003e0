------------------------------- MODULE Startup -------------------------------
(***************************************************************************)
(* How a server process comes up: LoadConfig (config.go) and the first     *)
(* half of main (main.go).  The settings are the built-in values,          *)
(* overridden by config.json, which the first start writes, overridden by  *)
(* the environment; then the database and the folders are opened, .part    *)
(* files removed, and the port taken.                                      *)
(*                                                                         *)
(* Processes may die between any two steps, and a second one may be        *)
(* started beside the first, since only the port, taken last, excludes it. *)
(* The operator edits file and environment; a process keeps the            *)
(* environment it was launched with.                                       *)
(*                                                                         *)
(* Of the settings the model has the two that processes compete for,       *)
(* server_addr and download_dir; all are treated alike.  Of an upload it   *)
(* has that it keeps a .part file in the download folder from its begin to *)
(* its end (CloudDrive has the rest).                                      *)
(***************************************************************************)
EXTENDS Naturals, FiniteSets

CONSTANTS
  Procs,          \* server processes
  FileValues,     \* values the operator writes into config.json
  EnvValues,      \* values the operator puts into the environment
  Default,        \* the built-in value of a setting
  FileTexts,      \* what the operator writes into config.json: field -> value
  Environments,   \* the environments the operator launches processes with
  MaxParts,       \* bound on the .part files there are at a time
  OperatorWaits,  \* TRUE: no edit while a start is writing config.json
  FileReadable    \* TRUE: os.Open of an existing config.json succeeds

Fields == {"addr", "dir"}
Values == FileValues \cup EnvValues \cup {Default}

Missing == "missing"  \* a field without a value
Wrong == "wrong"      \* a field with a value of another JSON type
Unset == "unset"      \* an environment variable that is not set, or empty

ASSUME StartupAssumption ==
  /\ FileValues \cap EnvValues = {} /\ Default \notin FileValues \cup EnvValues
  /\ {Missing, Wrong, Unset} \cap Values = {}
  /\ FileTexts \subseteq [Fields -> FileValues \cup {Default, Missing, Wrong}]
  /\ Environments \subseteq [Fields -> EnvValues \cup {Unset}]
  /\ MaxParts \in Nat
  /\ OperatorWaits \in BOOLEAN /\ FileReadable \in BOOLEAN

VARIABLES
  file,    \* config.json: absent, cut off, or its fields
  env,     \* the environment a process is launched with
  proc,    \* process -> where it is, its environment, its settings
  parts,   \* the .part files: who wrote them, and in which folder
  busy,    \* the processes with an upload under way
  fresh,   \* history: the processes launched since the last edit
  used,    \* history: the settings they came to
  stale    \* history: process -> the leftovers it was launched with

vars == <<file, env, proc, parts, busy, fresh, used, stale>>

Absent == [kind |-> "absent"]
Cut == [kind |-> "cut"]      \* empty or cut off, as a crash while writing leaves it
Written(t) == [kind |-> "text", text |-> t]

Settings == [Fields -> Values]
Defaults == [f \in Fields |-> Default]
Down == [at |-> "down"]
Loading == {"open", "create", "encode"}
Running == {"prepare", "clean", "bind", "serve"}

TypeOK ==
  /\ file \in {Absent, Cut} \cup {Written(t) : t \in [Fields -> Values \cup {Missing, Wrong}]}
  /\ env \in Environments
  /\ proc \in [Procs -> {Down} \cup [at : Loading, env : Environments]
                          \cup [at : Running, cfg : Settings]]
  /\ parts \subseteq Procs \X Values
  /\ busy \subseteq Procs
  /\ fresh \subseteq Procs
  /\ used \subseteq Settings
  /\ stale \in [Procs -> SUBSET (Procs \X Values)]

-----------------------------------------------------------------------------
At(p, stage) == proc[p].at = stage
Serving == {p \in Procs : At(p, "serve")}
Creating == {p \in Procs : proc[p].at \in {"create", "encode"}}

\* A file that does not parse leaves the settings empty (for a mutant).
DecodedEmpty(g) ==
  [f \in Fields |-> IF g.kind # "text" THEN Missing
                    ELSE IF g.text[f] \in {Missing, Wrong} THEN Default ELSE g.text[f]]

\* Where the file, as far as the decoder came, has a value of the right type; the
\* others keep what they had.  Syntax errors are found before any field is set.
Decoded(g) ==
  IF g.kind # "text" THEN Defaults
  ELSE [f \in Fields |-> IF g.text[f] \in {Missing, Wrong} THEN Default ELSE g.text[f]]

\* The environment overrides (config.go:75-110).
Override(cfg, e) == [f \in Fields |-> IF e[f] = Unset THEN cfg[f] ELSE e[f]]

Goto(p, r) == proc' = [proc EXCEPT ![p] = r]

\* What processes launched since the last edit come to is remembered.
Settle(p, cfg) ==
  used' = IF p \in fresh THEN used \cup {cfg} ELSE used

\* The end of LoadConfig.
Loaded(p, cfg) ==
  LET c == Override(cfg, proc[p].env)
  IN Goto(p, [at |-> "prepare", cfg |-> c]) /\ Settle(p, c)

Init ==
  /\ file = Absent
  /\ env \in Environments
  /\ proc = [p \in Procs |-> Down]
  /\ parts = {} /\ busy = {} /\ fresh = {} /\ used = {}
  /\ stale = [p \in Procs |-> {}]

-----------------------------------------------------------------------------
(* The operator.                                                           *)

Edited == fresh' = {} /\ used' = {} /\ UNCHANGED <<proc, parts, busy, stale>>

EditFile ==
  /\ OperatorWaits => Creating = {}
  /\ \/ file' = Absent
     \/ \E t \in FileTexts : file' = Written(t)
  /\ UNCHANGED env
  /\ Edited

EditEnv ==
  /\ env' \in Environments
  /\ UNCHANGED file
  /\ Edited

\* A process is started, by the operator or by the service manager.
Launch(p) ==
  /\ At(p, "down")
  /\ Goto(p, [at |-> "open", env |-> env])
  /\ fresh' = fresh \cup {p}
  /\ stale' = [stale EXCEPT ![p] = {x \in parts : x[1] \notin busy}]
  /\ UNCHANGED <<file, env, parts, busy, used>>

\* It ends, wherever it is; what it was writing stays.
Kill(p) ==
  /\ ~At(p, "down")
  /\ Goto(p, Down)
  /\ busy' = busy \ {p}
  /\ fresh' = fresh \ {p}
  /\ stale' = [stale EXCEPT ![p] = {}]
  /\ UNCHANGED <<file, env, parts, used>>

-----------------------------------------------------------------------------
(* LoadConfig.                                                             *)

Kept == UNCHANGED <<env, parts, busy, fresh, stale>>

\* A file that does not parse is written anew (for a mutant).
OpenRepair(p) ==
  /\ At(p, "open")
  /\ IF file.kind = "text" /\ \A f \in Fields : file.text[f] # Wrong
     THEN Loaded(p, Decoded(file))
     ELSE Goto(p, [proc[p] EXCEPT !.at = "create"]) /\ UNCHANGED used
  /\ UNCHANGED file
  /\ Kept

\* os.Open and the decoder.  Every error of os.Open counts as `not found'.
Open(p) ==
  /\ At(p, "open")
  /\ \/ file # Absent /\ Loaded(p, Decoded(file))
     \/ /\ file = Absent \/ ~FileReadable
        /\ Goto(p, [proc[p] EXCEPT !.at = "create"])
        /\ UNCHANGED used
  /\ UNCHANGED file
  /\ Kept

\* os.Create: truncates what is there by now; or fails.
Create(p) ==
  /\ At(p, "create")
  /\ \/ file' = Cut /\ Goto(p, [proc[p] EXCEPT !.at = "encode"]) /\ UNCHANGED used
     \/ file' = file /\ Loaded(p, Defaults)
  /\ Kept

\* The environment written with the defaults (for a mutant).
EncodeOverridden(p) ==
  /\ At(p, "encode")
  /\ file' \in {file, Written(Override(Defaults, proc[p].env))}
  /\ Loaded(p, Defaults)
  /\ Kept

\* enc.Encode: the defaults; an error is not looked at.
Encode(p) ==
  /\ At(p, "encode")
  /\ file' \in {file, Written(Defaults)}
  /\ Loaded(p, Defaults)
  /\ Kept

-----------------------------------------------------------------------------
(* main.                                                                   *)

Fatal(p) == Goto(p, Down) /\ fresh' = fresh \ {p} /\ stale' = [stale EXCEPT ![p] = {}]

\* NewDB and os.MkdirAll: either may be fatal.
Prepare(p) ==
  /\ At(p, "prepare")
  /\ \/ Goto(p, [proc[p] EXCEPT !.at = "clean"]) /\ UNCHANGED <<fresh, stale>>
     \/ Fatal(p)
  /\ UNCHANGED <<file, env, parts, busy, used>>

\* The cleanup of the folder the program was built with (for a mutant).
CleanDefault(p) ==
  /\ At(p, "clean")
  /\ parts' = {x \in parts : x[2] # Default}
  /\ Goto(p, [proc[p] EXCEPT !.at = "bind"])
  /\ UNCHANGED <<file, env, busy, fresh, used, stale>>

\* cleanupPartialUploads, with the settings in force.
Clean(p) ==
  /\ At(p, "clean")
  /\ parts' = {x \in parts : x[2] # proc[p].cfg["dir"]}
  /\ Goto(p, [proc[p] EXCEPT !.at = "bind"])
  /\ UNCHANGED <<file, env, busy, fresh, used, stale>>

\* http.ListenAndServe: fatal when the address is taken.
Bind(p) ==
  /\ At(p, "bind")
  /\ IF \E q \in Serving : proc[q].cfg["addr"] = proc[p].cfg["addr"]
     THEN Fatal(p)
     ELSE Goto(p, [proc[p] EXCEPT !.at = "serve"]) /\ UNCHANGED <<fresh, stale>>
  /\ UNCHANGED <<file, env, parts, busy, used>>

\* An upload: the .part file is there from the begin ...
UploadBegin(p) ==
  /\ p \in Serving \ busy
  /\ Cardinality(parts) < MaxParts       \* bound of the model
  /\ LET x == <<p, proc[p].cfg["dir"]>>
     IN parts' = parts \cup {x} /\ stale' = [q \in Procs |-> stale[q] \ {x}]
  /\ busy' = busy \cup {p}
  /\ UNCHANGED <<file, env, proc, fresh, used>>

\* ... to the end, when it is renamed or, on an error, removed.
UploadEnd(p) ==
  /\ p \in busy
  /\ parts' = parts \ {<<p, proc[p].cfg["dir"]>>}
  /\ busy' = busy \ {p}
  /\ UNCHANGED <<file, env, proc, fresh, used, stale>>

Next ==
  \/ EditFile \/ EditEnv
  \/ \E p \in Procs :
       \/ Launch(p) \/ Kill(p)
       \/ Open(p) \/ Create(p) \/ Encode(p)
       \/ Prepare(p) \/ Clean(p) \/ Bind(p)
       \/ UploadBegin(p) \/ UploadEnd(p)

Spec == Init /\ [][Next]_vars

-----------------------------------------------------------------------------
\* A value from the environment is never written into config.json, where it would
\* outlive the environment (config.go:60-73).
EnvNeverPersisted ==
  file.kind = "text" => \A f \in Fields : file.text[f] \notin EnvValues

\* As long as nobody edits file or environment every start comes to the same
\* settings, whether it found config.json, wrote it, failed to write it, met a
\* second start that was writing it, or follows one that died while writing it
\* (config.go:54).
SameSettings == \A c, d \in used : c = d

\* A start never changes a config.json with settings of the operator.
OperatorFileKept ==
  [][\A p \in Procs : (Create(p) \/ Encode(p)) /\ file.kind = "text" =>
       file.text \in [Fields -> {Default}] \/ file' = file]_vars

\* What an earlier process left of its uploads when a process was launched is gone
\* from that process's folder when it serves (main.go:29), wherever the settings
\* come from and whoever else runs.
LeftoversGone ==
  \A p \in Serving : \A x \in stale[p] \cap parts : x[2] # proc[p].cfg["dir"]

\* main.go:29 calls what the cleanup removes left by interrupted uploads.
CleanSparesUploads ==
  [][\A p \in Procs : Clean(p) => \A x \in parts \ parts' : x[1] \notin busy]_vars

\* config.go:57: a file that fails to parse leaves the defaults.
BrokenMeansDefaults ==
  [][\A p \in Procs : Open(p) /\ file.kind = "text" /\ Wrong \in {file.text[f] : f \in Fields} =>
       proc'[p].cfg = Override(Defaults, proc[p].env)]_vars
=============================================================================
