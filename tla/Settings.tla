------------------------------ MODULE Settings ------------------------------
(***************************************************************************)
(* How a process comes by its settings: ~/.sqnr/config (config.rs), the    *)
(* process-wide envelope version and its environment variable (client.rs), *)
(* the flags of the sqnr command (main.rs) and the path of the identity    *)
(* they lead to (main.rs, identity.rs).  A process is a run of sqnr, which *)
(* loads the config and carries out one command, or another program that   *)
(* uses the library to load, set and dial.  The operator edits the config  *)
(* between and during their runs.                                          *)
(*                                                                         *)
(* Writing an identity is one step here; IdentityFile has its details.     *)
(***************************************************************************)
EXTENDS Naturals

CONSTANTS
  Procs,       \* processes
  Paths,       \* paths an identity may be kept at
  Default,     \* ~/.sqnr/identity
  Keys,        \* public keys of identities
  Versions,    \* envelope versions; 0 is reserved and means unset
  SquicOwn,    \* the version squic emits by default
  Files,       \* config files the operator writes
  None         \* absent: no flag, no setting, no file

Optional(S) == S \cup {None}
\* The fields of Config that decide something here, and no setting at all.
Configs == [identity : Optional(Paths), version : Optional(Versions)]
Empty   == [identity |-> None, version |-> None]

ASSUME SettingsAssumption ==
  /\ Default \in Paths
  /\ 0 \in Versions /\ SquicOwn \in Versions \ {0}
  \* A file that is not sound cannot be read or parsed, or has a field that
  \* Config denies; what it means to say is still there for the reader.
  /\ Files \subseteq [config : Configs, sound : BOOLEAN]
  /\ None \notin Paths \cup Versions \cup Keys

VARIABLES
  file,      \* ~/.sqnr/config
  env,       \* SQEX_ENVELOPE_VERSION of each process; None if it is no u8
  at,        \* "new", "ready" once the config is loaded, or "over"
  cfg,       \* the Config in the process's hands
  envelope,  \* ENVELOPE_VERSION
  ids,       \* ids[x]: the identity at path x
  \* history
  loaded,    \* the file each process loaded last
  plain,     \* it loaded once and set nothing
  named      \* the identities keygen announced, with what chose their path

hist == <<loaded, plain, named>>
vars == <<file, env, at, cfg, envelope, ids, hist>>

Init ==
  /\ file = None
  /\ env      \in [Procs -> Optional(Versions)]
  /\ at       = [p \in Procs |-> "new"]
  /\ cfg      = [p \in Procs |-> Empty]
  /\ envelope = [p \in Procs |-> 0]
  /\ ids      = [x \in Paths |-> None]
  /\ loaded   = [p \in Procs |-> None]
  /\ plain    = [p \in Procs |-> TRUE]
  /\ named    = {}

-----------------------------------------------------------------------------
(* Configuration and envelope version *)

\* from_file, and unwrap_or_default: any failure gives an empty Config.
FromFile(f) == IF f.sound THEN f.config ELSE Empty

\* Mutant of Apply: what the config does not name is set to squic's own.
ApplyOwn(p, c) ==
  envelope' = [envelope EXCEPT ![p] = IF c.version # None THEN c.version ELSE SquicOwn]

\* Mutant of Apply: what the config says is stored, a None too.
ApplyRaw(p, c) == envelope' = [envelope EXCEPT ![p] = c.version]

\* apply_transport: only a version that is there is stored.
Apply(p, c) ==
  envelope' = IF c.version = None THEN envelope ELSE [envelope EXCEPT ![p] = c.version]

\* Config::load; a program may call it again.
Load(p) ==
  /\ at[p] # "over"
  /\ LET c == IF file = None THEN Empty ELSE FromFile(file)
     IN  /\ cfg' = [cfg EXCEPT ![p] = c]
         /\ Apply(p, c)
  /\ at'     = [at EXCEPT ![p] = "ready"]
  /\ loaded' = [loaded EXCEPT ![p] = file]
  /\ plain'  = [plain EXCEPT ![p] = @ /\ at[p] = "new"]
  /\ UNCHANGED <<file, env, ids, named>>

\* set_envelope_version
SetEnvelope(p, v) ==
  /\ at[p] = "ready"
  /\ envelope' = [envelope EXCEPT ![p] = v]
  /\ plain'    = [plain EXCEPT ![p] = FALSE]
  /\ UNCHANGED <<file, env, at, cfg, ids, loaded, named>>

\* envelope_version: an explicit one, or that of the environment, or None
EnvelopeVersion(p) ==
  IF envelope[p] # 0 THEN envelope[p]
  ELSE IF env[p] # 0 THEN env[p] ELSE None

\* dial puts it into the squic config, or leaves squic's own.
Emits(p) == IF EnvelopeVersion(p) = None THEN SquicOwn ELSE EnvelopeVersion(p)

-----------------------------------------------------------------------------
(* The sqnr command *)

\* identity_path: the flag, the config, or the default
IdentityPath(p, identity) ==
  IF identity # None THEN identity
  ELSE IF cfg[p].identity # None THEN cfg[p].identity ELSE Default

Over(p) == at' = [at EXCEPT ![p] = "over"]
\* Mutant of KeygenPath: --identity is not looked at.
KeygenPathBare(p, f, identity) == IF f # None THEN f ELSE IdentityPath(p, None)

\* keygen writes to --file, or where the other commands look.
KeygenPath(p, f, identity) == IF f # None THEN f ELSE IdentityPath(p, identity)

\* keygen: refused if the file exists
Keygen(p, f, identity) ==
  LET x == KeygenPath(p, f, identity)
  IN  /\ at[p] = "ready" /\ Over(p)
      /\ IF ids[x] # None
           THEN UNCHANGED <<ids, named>>
           ELSE \E key \in Keys \ {ids[y] : y \in Paths} :
                  /\ ids' = [ids EXCEPT ![x] = key]
                  /\ named' = named \cup {[flag |-> IF f # None THEN f ELSE identity,
                                           file |-> loaded[p], path |-> x, key |-> key]}
      /\ UNCHANGED <<file, env, cfg, envelope, loaded, plain>>

\* What pubkey prints of a file identity; None is its error.
Pubkey(p, identity) == ids[IdentityPath(p, identity)]

\* The process ends and its name stands for a new one.
Restart(p) ==
  /\ at[p] # "new"
  /\ at'       = [at EXCEPT ![p] = "new"]
  /\ cfg'      = [cfg EXCEPT ![p] = Empty]
  /\ envelope' = [envelope EXCEPT ![p] = 0]
  /\ loaded'   = [loaded EXCEPT ![p] = None]
  /\ plain'    = [plain EXCEPT ![p] = TRUE]
  /\ UNCHANGED <<file, env, ids, named>>

\* The operator writes another config, or removes it.
Edit ==
  /\ file' \in Optional(Files)
  /\ UNCHANGED <<env, at, cfg, envelope, ids, hist>>

Next ==
  \/ Edit
  \/ \E p \in Procs :
       \/ Load(p) \/ Restart(p)
       \/ \E v \in Versions : SetEnvelope(p, v)
       \/ \E f, identity \in Optional(Paths) : Keygen(p, f, identity)

Spec == Init /\ [][Next]_vars

-----------------------------------------------------------------------------
(* Properties *)

\* Every variable has its type.
TypeOK ==
  /\ file     \in Optional(Files)
  /\ env      \in [Procs -> Optional(Versions)]
  /\ at       \in [Procs -> {"new", "ready", "over"}]
  /\ cfg      \in [Procs -> Configs]
  /\ envelope \in [Procs -> Versions]
  /\ ids      \in [Paths -> Optional(Keys)]
  /\ loaded   \in [Procs -> Optional(Files)]
  /\ plain    \in [Procs -> BOOLEAN]

\* keygen and pubkey mean the same identity: what keygen announced, pubkey
\* prints under the same flag, or without one under the same config, whatever
\* was edited and run in between ("Command-line flags always win").
PubkeyFindsKeygen ==
  \A m \in named, p \in Procs :
    at[p] = "ready" /\ (m.flag # None \/ loaded[p] = m.file) => Pubkey(p, m.flag) = m.key

\* config.rs: a version that is not named "leaves squic's own default in
\* place" and "SQEX_ENVELOPE_VERSION still applies".  A process that loaded
\* its config once and set nothing itself emits the version of that config,
\* or of its environment, or squic's own; 0 names none anywhere.
EnvelopeAsConfigured ==
  \A p \in Procs : at[p] = "ready" /\ plain[p] =>
    LET asked == <<cfg[p].version, env[p], SquicOwn>>
        first == CHOOSE i \in 1..3 : /\ asked[i] \notin {None, 0}
                                     /\ \A j \in 1..(i - 1) : asked[j] \in {None, 0}
    IN  Emits(p) = asked[first]

\* config.rs: "Load ~/.sqnr/config, or an empty config if it does not exist".
\* A command without flags acts on the identity that an existing config names.
ConfigHonoured ==
  \A m \in named :
    (m.flag = None /\ m.file # None /\ m.file.config.identity # None)
      => m.path = m.file.config.identity
=============================================================================
