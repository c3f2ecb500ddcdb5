--------------------------- MODULE SettingsProofs ---------------------------
(***************************************************************************)
(* Proofs about Settings, for any number of processes, paths, versions and *)
(* config files.                                                           *)
(***************************************************************************)
EXTENDS Settings, TLAPS

-----------------------------------------------------------------------------
(* The inductive invariant *)

\* What loading file f gives, and the path it leads a command without flags to.
Loads(f) == IF f = None THEN Empty ELSE FromFile(f)
PathIn(c) == IF c.identity # None THEN c.identity ELSE Default

\* What process p knows: the config of the file it loaded, and, unless it
\* loaded again or set a version itself, an envelope version that is what this
\* config says, or still unset.
ProcOK(p) ==
  /\ at[p] = "new" => envelope[p] = 0
  /\ at[p] # "new" => cfg[p] = Loads(loaded[p])
  /\ at[p] # "new" /\ plain[p] =>
       envelope[p] = IF cfg[p].version = None THEN 0 ELSE cfg[p].version

ProcInv == \A p \in Procs : ProcOK(p)

\* An announced identity is still where it was written, which is where its
\* flag or its config leads.
Announcements == [flag : Optional(Paths), file : Optional(Files), path : Paths, key : Keys]
Kept(m) ==
  /\ m \in Announcements
  /\ ids[m.path] = m.key
  /\ m.path = IF m.flag # None THEN m.flag ELSE PathIn(Loads(m.file))

NamedInv == \A m \in named : Kept(m)

SettingsInv == TypeOK /\ ProcInv /\ NamedInv
-----------------------------------------------------------------------------
(* The operators of the model *)

\* A loaded config is a Config, and the path it leads to is a path.
LEMMA LoadsConfig ==
  ASSUME SettingsAssumption
  PROVE  /\ \A f \in Optional(Files) : Loads(f) \in Configs
         /\ \A c \in Configs : PathIn(c) \in Paths
BY DEF SettingsAssumption, Loads, FromFile, Configs, Empty, Optional, PathIn

\* The path of a command is that of its flag, or of the config.
LEMMA PathTaken ==
  ASSUME SettingsAssumption, TypeOK, NEW p \in Procs, NEW f \in Optional(Paths),
         NEW i \in Optional(Paths)
  PROVE  /\ IdentityPath(p, i) = IF i # None THEN i ELSE PathIn(cfg[p])
         /\ KeygenPath(p, f, i) = LET g == IF f # None THEN f ELSE i
                                  IN  IF g # None THEN g ELSE PathIn(cfg[p])
         /\ KeygenPath(p, f, i) \in Paths
<1>1. IdentityPath(p, i) = IF i # None THEN i ELSE PathIn(cfg[p])
  BY DEF IdentityPath, PathIn
<1>2. KeygenPath(p, f, i) = LET g == IF f # None THEN f ELSE i
                            IN  IF g # None THEN g ELSE PathIn(cfg[p])
  BY <1>1 DEF KeygenPath
<1>3. PathIn(cfg[p]) \in Paths
  BY LoadsConfig DEF TypeOK
<1> QED
  BY <1>1, <1>2, <1>3 DEF Optional
-----------------------------------------------------------------------------
(* Every step preserves the invariant *)

\* At first nothing is loaded and nothing announced.
LEMMA SettingsInit == SettingsAssumption /\ Init => SettingsInv
BY DEF SettingsAssumption, Init, SettingsInv, TypeOK, ProcInv, ProcOK, NamedInv,
       Configs, Empty, Optional

\* Config::load with apply_transport leaves what the file says.
LEMMA LoadStep ==
  ASSUME SettingsAssumption, SettingsInv, NEW p \in Procs, Load(p)
  PROVE  SettingsInv'
<1> DEFINE c == Loads(file)
<1>1. /\ at[p] # "over" /\ cfg' = [cfg EXCEPT ![p] = c]
      /\ envelope' = IF c.version = None THEN envelope ELSE [envelope EXCEPT ![p] = c.version]
      /\ at' = [at EXCEPT ![p] = "ready"] /\ loaded' = [loaded EXCEPT ![p] = file]
      /\ plain' = [plain EXCEPT ![p] = plain[p] /\ at[p] = "new"]
      /\ UNCHANGED <<file, env, ids, named>>
  BY DEF Load, Apply, Loads
<1>2. c \in Configs
  BY LoadsConfig DEF SettingsInv, TypeOK
<1>3. c.version = None \/ c.version \in Versions
  BY <1>2 DEF Configs, Optional
<1> HIDE DEF c
<1>4. TypeOK'
  BY <1>1, <1>2, <1>3 DEF SettingsInv, TypeOK
<1>5. ASSUME NEW q \in Procs
      PROVE  ProcOK(q)'
  <2>1. ProcOK(q)
    BY DEF SettingsInv, ProcInv
  <2>2. CASE q = p
    <3>1. at'[p] = "ready" /\ cfg'[p] = c /\ loaded'[p] = file
      BY <1>1 DEF SettingsInv, TypeOK
    <3>2. plain'[p] = (plain[p] /\ at[p] = "new")
      BY <1>1 DEF SettingsInv, TypeOK
    <3>3. envelope'[p] = IF c.version = None THEN envelope[p] ELSE c.version
      BY <1>1 DEF SettingsInv, TypeOK
    <3> QED
      BY <2>1, <2>2, <3>1, <3>2, <3>3 DEF ProcOK, Loads, c
  <2>3. CASE q # p
    BY <1>1, <2>1, <2>3 DEF SettingsInv, TypeOK, ProcOK, Loads
  <2> QED
    BY <2>2, <2>3
<1>6. NamedInv'
  BY <1>1 DEF SettingsInv, NamedInv, Kept, Loads
<1> QED
  BY <1>4, <1>5, <1>6 DEF SettingsInv, ProcInv

\* keygen announces what it has put where its flag or config leads.
LEMMA KeygenStep ==
  ASSUME SettingsAssumption, SettingsInv, NEW p \in Procs, NEW f \in Optional(Paths),
         NEW i \in Optional(Paths), Keygen(p, f, i)
  PROVE  SettingsInv'
<1> DEFINE x == KeygenPath(p, f, i)
           g == IF f # None THEN f ELSE i
<1>1. /\ x \in Paths /\ g \in Optional(Paths)
      /\ x = IF g # None THEN g ELSE PathIn(Loads(loaded[p]))
      /\ at[p] = "ready" /\ at' = [at EXCEPT ![p] = "over"]
      /\ UNCHANGED <<file, env, cfg, envelope, loaded, plain>>
  BY PathTaken DEF SettingsInv, ProcInv, ProcOK, Keygen, Over
<1>2. \/ UNCHANGED <<ids, named>>
      \/ /\ ids[x] = None
         /\ \E key \in Keys :
              /\ ids' = [ids EXCEPT ![x] = key]
              /\ named' = named \cup {[flag |-> g, file |-> loaded[p], path |-> x, key |-> key]}
  BY DEF Keygen
<1> HIDE DEF x, g
<1>3. ProcInv' /\ at' \in [Procs -> {"new", "ready", "over"}]
  BY <1>1 DEF SettingsInv, TypeOK, ProcInv, ProcOK, Loads
<1>4. CASE UNCHANGED <<ids, named>>
  BY <1>1, <1>3, <1>4 DEF SettingsInv, TypeOK, NamedInv, Kept, Loads
<1>5. ASSUME NEW key \in Keys, ids[x] = None, ids' = [ids EXCEPT ![x] = key],
             named' = named \cup {[flag |-> g, file |-> loaded[p], path |-> x, key |-> key]}
      PROVE  SettingsInv'
  <2>1. TypeOK'
    BY <1>1, <1>3, <1>5 DEF SettingsInv, TypeOK, Optional
  <2>2. ASSUME NEW m \in named
        PROVE  Kept(m)'
    <3>1. Kept(m) /\ m.path \in Paths /\ ids[m.path] \in Keys
      BY DEF SettingsInv, NamedInv, Kept, Announcements
    <3>2. m.path # x
      BY <1>5, <3>1 DEF SettingsAssumption
    <3>3. ids'[m.path] = ids[m.path]
      BY <1>5, <3>1, <3>2 DEF SettingsInv, TypeOK
    <3> QED
      BY <3>1, <3>3 DEF Kept, Loads
  <2>3. ASSUME NEW m, m = [flag |-> g, file |-> loaded[p], path |-> x, key |-> key]
        PROVE  Kept(m)'
    <3>1. m \in Announcements
      BY <1>1, <2>3 DEF SettingsInv, TypeOK, Announcements
    <3>2. ids'[m.path] = m.key
      BY <1>1, <1>5, <2>3 DEF SettingsInv, TypeOK
    <3>3. m.path = IF m.flag # None THEN m.flag ELSE PathIn(Loads(m.file))
      BY <1>1, <2>3
    <3> QED
      BY <3>1, <3>2, <3>3 DEF Kept, Loads
  <2>4. NamedInv'
    BY <1>5, <2>2, <2>3 DEF NamedInv
  <2> QED
    BY <1>3, <2>1, <2>4 DEF SettingsInv
<1> QED
  BY <1>2, <1>4, <1>5

\* Every step keeps what processes know and what was announced.
LEMMA SettingsStep ==
  ASSUME SettingsAssumption, SettingsInv, [Next]_vars
  PROVE  SettingsInv'
<1>1. ASSUME NEW p \in Procs, NEW v \in Versions, SetEnvelope(p, v)
      PROVE  SettingsInv'
  <2>1. TypeOK' /\ ProcInv'
    BY <1>1 DEF SetEnvelope, SettingsInv, TypeOK, ProcInv, ProcOK, Loads
  <2>2. NamedInv'
    BY <1>1 DEF SetEnvelope, SettingsInv, NamedInv, Kept, Loads
  <2> QED
    BY <2>1, <2>2 DEF SettingsInv
<1>2. ASSUME NEW p \in Procs, Restart(p)
      PROVE  SettingsInv'
  <2>1. TypeOK'
    BY <1>2 DEF Restart, SettingsInv, TypeOK, SettingsAssumption, Configs, Empty, Optional
  <2>2. ProcInv'
    BY <1>2 DEF Restart, SettingsInv, TypeOK, ProcInv, ProcOK, Loads
  <2>3. NamedInv'
    BY <1>2 DEF Restart, SettingsInv, NamedInv, Kept, Loads
  <2> QED
    BY <2>1, <2>2, <2>3 DEF SettingsInv
<1>3. CASE Edit \/ UNCHANGED vars
  <2>1. TypeOK' /\ ProcInv'
    BY <1>3 DEF Edit, SettingsInv, TypeOK, ProcInv, ProcOK, Loads, hist, vars
  <2>2. NamedInv'
    BY <1>3 DEF Edit, SettingsInv, NamedInv, Kept, Loads, hist, vars
  <2> QED
    BY <2>1, <2>2 DEF SettingsInv
<1> QED
  BY <1>1, <1>2, <1>3, LoadStep, KeygenStep DEF Next

\* What a process knows comes from the file it loaded, and an announced
\* identity stays where its flag or config leads (config.rs, main.rs).
THEOREM SettingsInvariance == Spec => []SettingsInv
<1>1. Init => SettingsInv
  BY SettingsInit, SettingsAssumption
<1>2. SettingsInv /\ [Next]_vars => SettingsInv'
  BY SettingsStep, SettingsAssumption
<1> QED
  BY <1>1, <1>2, PTL DEF Spec

-----------------------------------------------------------------------------
(* The properties *)

\* Every variable of config.rs, client.rs and main.rs keeps its type.
THEOREM SettingsTypeCorrect == Spec => []TypeOK
BY SettingsInvariance, PTL DEF SettingsInv

\* main.rs: what keygen announced is what pubkey prints under the same flag or
\* the same config, whatever is edited, loaded and generated in between.
THEOREM PubkeyAgrees == Spec => []PubkeyFindsKeygen
<1>1. ASSUME SettingsInv
      PROVE  PubkeyFindsKeygen
  <2>1. SUFFICES ASSUME NEW m \in named, NEW p \in Procs, at[p] = "ready",
                        m.flag # None \/ loaded[p] = m.file
                 PROVE  Pubkey(p, m.flag) = m.key
    BY DEF PubkeyFindsKeygen
  <2>2. Kept(m) /\ m.flag \in Optional(Paths)
    BY <1>1 DEF SettingsInv, NamedInv, Kept, Announcements
  <2>3. cfg[p] = Loads(loaded[p])
    BY <1>1, <2>1 DEF SettingsInv, ProcInv, ProcOK
  <2>4. IdentityPath(p, m.flag) = IF m.flag # None THEN m.flag ELSE PathIn(cfg[p])
    BY <1>1, <2>2, PathTaken, SettingsAssumption DEF SettingsInv
  <2>5. IdentityPath(p, m.flag) = m.path
    BY <2>1, <2>2, <2>3, <2>4 DEF Kept
  <2> QED
    BY <2>2, <2>5 DEF Pubkey, Kept
<1> QED
  BY <1>1, SettingsInvariance, PTL

\* config.rs, apply_transport and client.rs, envelope_version: a process that
\* loaded its config once and set nothing emits the first version named by the
\* config, its environment and squic; 0 names none.
THEOREM EnvelopeChosen == Spec => []EnvelopeAsConfigured
<1>1. ASSUME SettingsInv
      PROVE  EnvelopeAsConfigured
  <2>1. SUFFICES ASSUME NEW p \in Procs, at[p] = "ready", plain[p]
                 PROVE  LET asked == <<cfg[p].version, env[p], SquicOwn>>
                            first == CHOOSE i \in 1..3 :
                                       /\ asked[i] \notin {None, 0}
                                       /\ \A j \in 1..(i - 1) : asked[j] \in {None, 0}
                        IN  Emits(p) = asked[first]
    BY DEF EnvelopeAsConfigured
  <2> DEFINE asked == <<cfg[p].version, env[p], SquicOwn>>
             First(i) == /\ asked[i] \notin {None, 0}
                         /\ \A j \in 1..(i - 1) : asked[j] \in {None, 0}
             first == CHOOSE i \in 1..3 : First(i)
  <2>2. envelope[p] = IF cfg[p].version = None THEN 0 ELSE cfg[p].version
    BY <1>1, <2>1 DEF SettingsInv, ProcInv, ProcOK
  <2>3. SquicOwn \notin {None, 0} /\ 0 # None
    BY SettingsAssumption DEF SettingsAssumption
  <2>4. Emits(p) = IF cfg[p].version \notin {None, 0} THEN cfg[p].version
                   ELSE IF env[p] \notin {None, 0} THEN env[p] ELSE SquicOwn
    BY <2>2, <2>3 DEF Emits, EnvelopeVersion
  <2>5. \E i \in 1..3 : First(i)
    <3>1. CASE cfg[p].version \notin {None, 0}
      <4>1. First(1)
        BY <3>1
      <4> QED
        BY <4>1
    <3>2. CASE cfg[p].version \in {None, 0} /\ env[p] \notin {None, 0}
      <4>1. First(2)
        BY <3>2
      <4> QED
        BY <4>1
    <3>3. CASE cfg[p].version \in {None, 0} /\ env[p] \in {None, 0}
      <4>1. First(3)
        BY <2>3, <3>3
      <4> QED
        BY <4>1
    <3> QED
      BY <3>1, <3>2, <3>3
  <2>6. first \in 1..3 /\ First(first)
    BY <2>5
  <2> HIDE DEF first
  <2>7. Emits(p) = asked[first]
    BY <2>4, <2>6
  <2> QED
    BY <2>7 DEF first
<1> QED
  BY <1>1, SettingsInvariance, PTL
=============================================================================
