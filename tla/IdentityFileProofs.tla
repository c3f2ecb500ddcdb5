------------------------- MODULE IdentityFileProofs -------------------------
(***************************************************************************)
(* Proofs about IdentityFile: what load makes of a file that any number of *)
(* keygen processes may have cut or overwritten, and that an identity is   *)
(* kept unless two of them have been past the check at once.               *)
(***************************************************************************)
EXTENDS IdentityFile, TLAPS

-----------------------------------------------------------------------------
(* The inductive invariants *)

\* A seed in the file, like a key in hand, is one that was generated, and the
\* file that a process has opened is there.
MadeInv ==
  /\ file # Absent /\ file.data \in SeedLines => file.data.key \in made
  /\ \A p \in Procs : Working(p) => key[p] \in made
  /\ \A p \in Procs : pc[p] \in {"writing", "chmod", "report"} => file # Absent

LoadInv == TypeOK /\ MadeInv

\* What the file holds while process p is at work on it.
Underway(p) ==
  /\ Working(p) => reported = {}
  /\ pc[p] = "write" => file = Absent
  /\ pc[p] = "writing" => file = Empty("default")
  /\ pc[p] = "chmod" => \E m \in Modes : file = Content(key[p], seal[p], m)
  /\ pc[p] = "report" => file = Content(key[p], seal[p], "0600")

\* The file holds what was announced, exactly as it was written.
Intact ==
  /\ \A r \in reported : file = Content(r.key, r.seal, "0600")
  /\ \A p \in Procs : Underway(p)

\* No two processes are between the check for the path and the end of keygen.
OneAtWork == \A p, q \in Procs : Working(p) /\ Working(q) => p = q

KeptInv == ~ raced => OneAtWork /\ Intact

-----------------------------------------------------------------------------
(* The operators of the model *)

\* What write_file hands to fs::write is a file, and one that load opens with
\* its passphrase; a truncated one is a file that does not load.
LEMMA WholeFile ==
  ASSUME IdentityAssumption, NEW k \in Keys, NEW s \in Seals, NEW m \in Modes
  PROVE  /\ Empty(m) \in Files /\ Content(k, s, m) \in Files
         /\ Load(Content(k, s, m), s) = k /\ ReadPublic(Content(k, s, m)) = k
         /\ IsEncrypted(Content(k, s, m)) <=> s # Plain
<1>1. Empty(m) \in Files
  BY DEF Empty, Files, Headers, DataLines, PublicLines
<1>2. Content(k, s, m) \in Files
  BY DEF Content, Files, Headers, DataLines, PublicLines, SeedLines
<1>3. k \notin {Garbage, Missing} /\ [key |-> k, seal |-> s] \notin {Garbage, Missing}
  BY DEF IdentityAssumption, SeedLines
<1>4. Readable(Content(k, s, m))
  <2>1. Content(k, s, m) # Absent
    BY <1>2 DEF IdentityAssumption
  <2> QED
    BY <1>3, <2>1 DEF Readable, Content
<1>5. Opens(Content(k, s, m), s)
  BY <1>3 DEF Opens, Content
<1> QED
  BY <1>1, <1>2, <1>3, <1>4, <1>5 DEF Load, ReadPublic, IsEncrypted, Content

\* Nothing loads without a file, or from one just truncated.
LEMMA NothingLoads ==
  ASSUME NEW s
  PROVE  Load(Absent, s) = None /\ \A m : Load(Empty(m), s) = None
BY DEF Load, Readable, Empty

\* The mode of a file is nothing to load.
LEMMA ModeIrrelevant ==
  ASSUME IdentityAssumption, NEW f \in Files, NEW m \in Modes, NEW s
  PROVE  Load([f EXCEPT !.mode = m], s) = Load(f, s)
<1>1. [f EXCEPT !.mode = m] \in Files
  BY DEF Files
<1>2. f # Absent /\ [f EXCEPT !.mode = m] # Absent
  BY <1>1 DEF IdentityAssumption
<1> QED
  BY <1>2 DEF Files, Load, Readable, Opens

\* A write that stops leaves a file whose seed line, if it is a generated one, is
\* the new one or what was there before.
LEMMA CutFile ==
  ASSUME IdentityAssumption, NEW new \in Files, NEW old \in Files, NEW f \in Cut(new, old)
  PROVE  f \in Files /\ (f.data \in SeedLines => f.data \in {new.data, old.data})
<1>1. CASE f \in {old, [old EXCEPT !.header = "none"]}
  BY <1>1 DEF Files, Headers
<1>2. Rest(old.data) \cup {Garbage} \cup Blended(new, old)
        \subseteq {old.data, BlendLine, Garbage, Missing}
  BY DEF Rest, Blended
<1>3. Rest(old.public) \cup {Garbage, Stray} \subseteq PublicLines
  BY DEF Rest, Files, PublicLines
<1>4. ASSUME f \in [header : {new.header},
                    data : Rest(old.data) \cup {Garbage} \cup Blended(new, old),
                    public : Rest(old.public), mode : {new.mode}]
      PROVE  f \in Files /\ (f.data \in SeedLines => f.data \in {new.data, old.data})
  <2>1. f.data \in {old.data, BlendLine, Garbage, Missing} /\ f.public \in PublicLines
    BY <1>2, <1>3, <1>4
  <2>2. f \in Files
    BY <1>4, <2>1 DEF Files, DataLines
  <2>3. {BlendLine, Garbage, Missing} \cap SeedLines = {}
    BY DEF IdentityAssumption, BlendLine, SeedLines
  <2> QED
    BY <2>1, <2>2, <2>3
<1>5. ASSUME f \in [header : {new.header}, data : {new.data},
                    public : Rest(old.public) \cup {Garbage, Stray}, mode : {new.mode}]
      PROVE  f \in Files /\ (f.data \in SeedLines => f.data \in {new.data, old.data})
  BY <1>3, <1>5 DEF Files
<1> QED
  BY <1>1, <1>4, <1>5 DEF Cut

-----------------------------------------------------------------------------
(* A signer that loads: any number of processes *)

\* At first there is no file and no key.
LEMMA LoadInit == IdentityAssumption /\ Init => LoadInv
BY DEF IdentityAssumption, Init, LoadInv, TypeOK, MadeInv, Working, Seals

\* A process that writes has a key, made and of its own, and an open file.
LEMMA Writer ==
  ASSUME IdentityAssumption, LoadInv, NEW p \in Procs, Working(p)
  PROVE  /\ key[p] \in Keys /\ key[p] \in made /\ seal[p] \in Seals
         /\ pc[p] # "write" => file \in Files /\ file.mode \in Modes
         /\ pc[p] \in {"write", "writing", "chmod", "report"}
<1>1. key[p] \in Keys /\ key[p] \in made /\ seal[p] \in Seals
  BY DEF LoadInv, TypeOK, MadeInv, Working
<1>2. pc[p] \in {"write", "writing", "chmod", "report"}
  BY DEF LoadInv, TypeOK, Working
<1>3. pc[p] # "write" => file \in Files
  BY <1>2 DEF LoadInv, TypeOK, MadeInv
<1> QED
  BY <1>1, <1>2, <1>3 DEF Files

\* Every step of keygen, its failures and its crashes keeps types and keys.
LEMMA LoadStep ==
  ASSUME IdentityAssumption, LoadInv, [Next]_vars
  PROVE  LoadInv'
<1> USE DEF LoadInv
<1>1. ASSUME NEW p \in Procs, NEW s \in Seals, Keygen(p, s)
      PROVE  LoadInv'
  <2>1. TypeOK'
    BY <1>1 DEF Keygen, TypeOK, Working
  <2>2. MadeInv'
    BY <1>1 DEF Keygen, TypeOK, MadeInv, Working
  <2> QED
    BY <2>1, <2>2
<1>2. ASSUME NEW p \in Procs, Check(p)
      PROVE  LoadInv'
  <2>1. TypeOK'
    BY <1>2 DEF Check, Exit, Races, Working, TypeOK, IdentityAssumption
  <2>2. MadeInv'
    BY <1>2 DEF Check, Exit, TypeOK, MadeInv, Working
  <2> QED
    BY <2>1, <2>2
<1>3. ASSUME NEW p \in Procs, Truncate(p)
      PROVE  LoadInv'
  <2>1. PICK m \in Modes : file' = Empty(m)
    BY <1>3 DEF Truncate, TypeOK, Files, Modes
  <2>2. file' \in Files /\ file'.data = Missing
    BY <2>1 DEF Empty, Files, Headers, DataLines, PublicLines
  <2>3. file' # Absent /\ file'.data \notin SeedLines
    BY <2>2 DEF IdentityAssumption
  <2>4. TypeOK'
    BY <1>3, <2>2 DEF Truncate, TypeOK, Working
  <2>5. MadeInv'
    BY <1>3, <2>3 DEF Truncate, TypeOK, MadeInv, Working
  <2> QED
    BY <2>4, <2>5
<1>4. ASSUME NEW p \in Procs, Write(p)
      PROVE  LoadInv'
  <2>1. Working(p) /\ pc[p] # "write"
    BY <1>4 DEF Write, Working
  <2>2. file' \in Files /\ file'.data.key = key[p] /\ key[p] \in made
    BY <1>4, <2>1, Writer, WholeFile DEF Write, Content
  <2>3. file' # Absent
    BY <2>2 DEF IdentityAssumption
  <2>4. TypeOK'
    BY <1>4, <2>2 DEF Write, TypeOK, Working
  <2>5. MadeInv'
    BY <1>4, <2>2, <2>3 DEF Write, TypeOK, MadeInv, Working
  <2> QED
    BY <2>4, <2>5
<1>5. ASSUME NEW p \in Procs, WriteStops(p)
      PROVE  LoadInv'
  <2> DEFINE new == Content(key[p], seal[p], file.mode)
  <2>1. Working(p) /\ pc[p] = "writing" /\ file # Absent
    BY <1>5 DEF WriteStops, Working, MadeInv
  <2>2. new \in Files /\ file \in Files /\ key[p] \in made
    BY <2>1, Writer, WholeFile
  <2>3. new.data.key = key[p]
    BY DEF Content
  <2>4. file' \in Cut(new, file) /\ UNCHANGED <<seal, made, reported, raced>>
        /\ pc' = [pc EXCEPT ![p] = "idle"] /\ key' = [key EXCEPT ![p] = None]
    BY <1>5 DEF WriteStops, Exit
  <2> HIDE DEF new
  <2>5. file' \in Files /\ (file'.data \in SeedLines => file'.data \in {new.data, file.data})
    BY <2>2, <2>4, CutFile
  <2>6. file' # Absent
    BY <2>5 DEF IdentityAssumption
  <2>7. file'.data \in SeedLines => file'.data.key \in made
    BY <2>1, <2>2, <2>3, <2>5 DEF MadeInv
  <2>8. TypeOK'
    BY <2>4, <2>5 DEF TypeOK, Working
  <2>9. MadeInv'
    BY <2>4, <2>6, <2>7 DEF TypeOK, MadeInv, Working
  <2> QED
    BY <2>8, <2>9
<1>6. ASSUME NEW p \in Procs, Chmod(p)
      PROVE  LoadInv'
  <2>1. Working(p) /\ pc[p] = "chmod" /\ file # Absent
    BY <1>6 DEF Chmod, Working, MadeInv
  <2>2. file' \in Files /\ file'.data = file.data
    BY <1>6, <2>1 DEF Chmod, TypeOK, Files, Modes
  <2>3. file' # Absent
    BY <2>2 DEF IdentityAssumption
  <2>4. TypeOK'
    BY <1>6, <2>2 DEF Chmod, TypeOK, Working
  <2>5. MadeInv'
    BY <1>6, <2>1, <2>2, <2>3 DEF Chmod, TypeOK, MadeInv, Working
  <2> QED
    BY <2>4, <2>5
<1>7. ASSUME NEW p \in Procs, Report(p) \/ Fail(p)
      PROVE  LoadInv'
  <2>1. /\ pc' = [pc EXCEPT ![p] = "idle"] /\ key' = [key EXCEPT ![p] = None]
        /\ UNCHANGED <<file, seal, made, raced>>
        /\ \/ UNCHANGED reported
           \/ reported' = reported \cup {[key |-> key[p], seal |-> seal[p]]} /\ Working(p)
    BY <1>7 DEF Report, Fail, Exit, Working
  <2>2. reported' \subseteq SeedLines
    BY <2>1, Writer DEF TypeOK, SeedLines
  <2>3. TypeOK'
    BY <2>1, <2>2 DEF TypeOK, Working
  <2>4. MadeInv'
    BY <2>1 DEF TypeOK, MadeInv, Working
  <2> QED
    BY <2>3, <2>4
<1>8. CASE Remove
  <2>1. TypeOK'
    BY <1>8 DEF Remove, TypeOK, Working
  <2>2. MadeInv'
    BY <1>8 DEF Remove, MadeInv, Working
  <2> QED
    BY <2>1, <2>2
<1>9. CASE UNCHANGED vars
  BY <1>9 DEF vars, TypeOK, MadeInv, Working
<1> QED
  BY <1>1, <1>2, <1>3, <1>4, <1>5, <1>6, <1>7, <1>8, <1>9 DEF Next

\* Types hold and every key in the file was generated, whatever processes do.
THEOREM LoadInvariance == Spec => []LoadInv
<1>1. Init => LoadInv
  BY LoadInit, IdentityAssumption
<1>2. LoadInv /\ [Next]_vars => LoadInv'
  BY LoadStep, IdentityAssumption
<1> QED
  BY <1>1, <1>2, PTL DEF Spec

\* generate and write_file keep the type of every variable, and a process holds
\* a key exactly from the check of the path to its end.
THEOREM IdentityTypeCorrect == Spec => []TypeOK
BY LoadInvariance, PTL DEF LoadInv

\* identity.rs, load: however many processes wrote, crashed in the middle and
\* overwrote each other, a signer that load returns is over a key that keygen
\* once generated: a seed that two of them run together is caught by its public
\* key, which no public line shows.
THEOREM TamperGuard == Spec => []LoadIsGenerated
<1>1. ASSUME LoadInv
      PROVE  LoadIsGenerated
  <2>1. SUFFICES ASSUME NEW s \in Seals, Load(file, s) # None
                 PROVE  Load(file, s) \in made
    BY DEF LoadIsGenerated
  <2>2. /\ file # Absent /\ file.public = file.data.key /\ Load(file, s) = file.data.key
        /\ file.data \notin {Garbage, Missing}
    BY <2>1 DEF Load, Readable, Opens
  <2>3. file.data \in SeedLines \cup {BlendLine} /\ file.public \in PublicLines
    BY <1>1, <2>2 DEF LoadInv, TypeOK, Files, DataLines
  <2>4. file.public # Blend
    BY <2>3, IdentityAssumption DEF IdentityAssumption, PublicLines
  <2>5. file.data \in SeedLines
    BY <2>2, <2>3, <2>4 DEF BlendLine
  <2> QED
    BY <1>1, <2>2, <2>5 DEF LoadInv, MadeInv
<1> QED
  BY <1>1, LoadInvariance, PTL

-----------------------------------------------------------------------------
(* An identity that stays, unless two processes race *)

\* The process at work, if any, is the only one.
LEMMA IntactStep ==
  ASSUME IdentityAssumption, LoadInv, Intact, OneAtWork, OneAtWork', [Next]_vars
  PROVE  Intact'
<1>1. \A r \in reported : r.key \in Keys /\ r.seal \in Seals /\ file \in Files /\ file # Absent
  BY WholeFile DEF LoadInv, TypeOK, SeedLines, Intact, Modes, IdentityAssumption
<1>2. ASSUME NEW p \in Procs, NEW s \in Seals, Keygen(p, s)
      PROVE  Intact'
  BY <1>2 DEF Keygen, LoadInv, TypeOK, Intact, Underway, Working
<1>3. ASSUME NEW p \in Procs, Check(p)
      PROVE  Intact'
  <2>1. CASE file # Absent
    BY <1>3, <2>1 DEF Check, Exit, LoadInv, TypeOK, Intact, Underway, Working
  <2>2. CASE file = Absent
    <3>1. /\ pc' = [pc EXCEPT ![p] = "write"] /\ pc'[p] = "write"
          /\ UNCHANGED <<file, seal, reported>>
      BY <1>3, <2>2 DEF Check, LoadInv, TypeOK
    <3>2. reported = {}
      BY <1>1, <2>2
    <3>3. \A q \in Procs : Working(q)' => q = p
      BY <3>1 DEF OneAtWork, Working
    <3>4. \A q \in Procs : Underway(q)'
      BY <2>2, <3>1, <3>2, <3>3 DEF Underway, Working
    <3> QED
      BY <3>1, <3>2, <3>4 DEF Intact
  <2> QED
    BY <2>1, <2>2
<1>4. ASSUME NEW p \in Procs, Working(p), \A q \in Procs \ {p} : pc'[q] = pc[q]
      PROVE  reported = {} /\ \A q \in Procs \ {p} : Underway(q)' \/ reported' # {}
  <2>1. reported = {}
    BY <1>4 DEF Intact, Underway
  <2>2. \A q \in Procs \ {p} : ~ Working(q)
    BY <1>4 DEF OneAtWork
  <2> QED
    BY <1>4, <2>1, <2>2 DEF Underway, Working
<1>5. ASSUME NEW p \in Procs, Truncate(p)
      PROVE  Intact'
  <2>1. Working(p) /\ file = Absent
    BY <1>5 DEF Truncate, Working, Intact, Underway
  <2>2. /\ file' = Empty("default") /\ pc'[p] = "writing" /\ reported' = reported
        /\ \A q \in Procs \ {p} : pc'[q] = pc[q]
    BY <1>5, <2>1 DEF Truncate, LoadInv, TypeOK
  <2> QED
    BY <1>4, <2>1, <2>2 DEF Intact, Underway, Working
<1>6. ASSUME NEW p \in Procs, Write(p)
      PROVE  Intact'
  <2>1. Working(p) /\ file.mode \in Modes
    BY <1>6, Writer DEF Write, Working
  <2>2. /\ file' = Content(key[p], seal[p], file.mode) /\ pc'[p] = "chmod"
        /\ UNCHANGED <<reported, key, seal>> /\ \A q \in Procs \ {p} : pc'[q] = pc[q]
    BY <1>6 DEF Write, LoadInv, TypeOK
  <2>3. Underway(p)'
    BY <1>4, <2>1, <2>2 DEF Underway
  <2> QED
    BY <1>4, <2>1, <2>2, <2>3 DEF Intact
<1>7. ASSUME NEW p \in Procs, Chmod(p)
      PROVE  Intact'
  <2>1. Working(p) /\ \E m \in Modes : file = Content(key[p], seal[p], m)
    BY <1>7 DEF Chmod, Working, Intact, Underway
  <2>2. /\ file' = [file EXCEPT !.mode = "0600"] /\ pc'[p] = "report"
        /\ UNCHANGED <<reported, key, seal>> /\ \A q \in Procs \ {p} : pc'[q] = pc[q]
    BY <1>7 DEF Chmod, LoadInv, TypeOK
  <2>3. file' = Content(key[p], seal[p], "0600")
    BY <2>1, <2>2 DEF Content
  <2> QED
    BY <1>4, <2>1, <2>2, <2>3 DEF Intact, Underway, Working
<1>8. ASSUME NEW p \in Procs, Report(p)
      PROVE  Intact'
  <2>1. Working(p) /\ file = Content(key[p], seal[p], "0600") /\ reported = {}
    BY <1>8 DEF Report, Working, Intact, Underway
  <2>2. /\ reported' = {[key |-> key[p], seal |-> seal[p]]} /\ file' = file
        /\ pc'[p] = "idle" /\ \A q \in Procs \ {p} : pc'[q] = pc[q]
    BY <1>8, <2>1 DEF Report, Exit, LoadInv, TypeOK
  <2>3. \A q \in Procs : ~ Working(q)'
    BY <2>1, <2>2 DEF OneAtWork, Working
  <2>4. \A r \in reported' : file' = Content(r.key, r.seal, "0600")
    BY <2>1, <2>2
  <2> QED
    BY <2>3, <2>4 DEF Intact, Underway, Working
<1>9. ASSUME NEW p \in Procs, WriteStops(p) \/ Fail(p)
       PROVE  Intact'
  <2>1. pc'[p] = "idle" /\ reported' = reported /\ \A q \in Procs \ {p} : pc'[q] = pc[q]
    BY <1>9 DEF WriteStops, Fail, Exit, LoadInv, TypeOK
  <2>2. CASE Working(p)
    BY <1>4, <2>1, <2>2 DEF Intact, Underway, Working
  <2>3. CASE ~ Working(p)
    <3>1. Fail(p)
      BY <1>9, <2>3 DEF WriteStops, Working
    <3> QED
      BY <3>1 DEF Fail, Exit, LoadInv, TypeOK, Intact, Underway, Working
  <2> QED
    BY <2>2, <2>3
<1>10. CASE Remove
  BY <1>10 DEF Remove, Intact, Underway, Working
<1>11. CASE UNCHANGED vars
  BY <1>11 DEF vars, Intact, Underway, Working
<1> QED
  BY <1>2, <1>3, <1>5, <1>6, <1>7, <1>8, <1>9, <1>10, <1>11 DEF Next

\* Without a race the check lets one process through at a time.
LEMMA AloneStep ==
  ASSUME LoadInv, KeptInv, ~ raced', ~ raced, [Next]_vars
  PROVE  OneAtWork'
<1> USE DEF LoadInv, TypeOK, KeptInv, OneAtWork, Working
<1>1. ASSUME NEW p \in Procs, Check(p)
      PROVE  OneAtWork'
  <2>1. CASE file # Absent
    BY <1>1, <2>1 DEF Check, Exit
  <2>2. CASE file = Absent
    <3>1. \A q \in Procs \ {p} : ~ Working(q)
      BY <1>1, <2>2 DEF Check, Races
    <3>2. \A q \in Procs \ {p} : pc'[q] = pc[q]
      BY <1>1, <2>2 DEF Check
    <3> QED
      BY <3>1, <3>2
  <2> QED
    BY <2>1, <2>2
<1>2. ASSUME NEW p \in Procs, NEW s \in Seals, Keygen(p, s)
      PROVE  OneAtWork'
  BY <1>2 DEF Keygen
<1>3. ASSUME NEW p \in Procs, Truncate(p) \/ Write(p) \/ Chmod(p)
      PROVE  OneAtWork'
  BY <1>3 DEF Truncate, Write, Chmod
<1>4. ASSUME NEW p \in Procs, WriteStops(p) \/ Report(p) \/ Fail(p)
      PROVE  OneAtWork'
  BY <1>4 DEF WriteStops, Report, Fail, Exit
<1>5. CASE Remove
  BY <1>5 DEF Remove
<1>6. CASE UNCHANGED vars
  BY <1>6 DEF vars
<1> QED
  BY <1>1, <1>2, <1>3, <1>4, <1>5, <1>6 DEF Next

\* Once the operator has removed what a race left, all is as in the beginning.
LEMMA RaceEnds ==
  ASSUME raced, ~ raced', [Next]_vars
  PROVE  OneAtWork' /\ Intact'
<1>1. Remove
  BY DEF Next, vars, Keygen, Check, Races, Truncate, Write, WriteStops, Chmod, Report, Fail
<1> QED
  BY <1>1 DEF Remove, OneAtWork, Intact, Underway, Working

\* The file holds what the process at work has done so far, or what the last
\* one announced.
THEOREM KeptInvariance == Spec => []KeptInv
<1>1. Init => KeptInv
  BY DEF Init, KeptInv, OneAtWork, Intact, Underway, Working
<1>2. ASSUME LoadInv, KeptInv, [Next]_vars
      PROVE  KeptInv'
  <2>1. CASE raced'
    BY <2>1 DEF KeptInv
  <2>2. CASE ~ raced' /\ raced
    BY <1>2, <2>2, RaceEnds DEF KeptInv
  <2>3. CASE ~ raced' /\ ~ raced
    BY <1>2, <2>3, AloneStep, IntactStep, IdentityAssumption DEF KeptInv
  <2> QED
    BY <2>1, <2>2, <2>3
<1> QED
  BY <1>1, <1>2, LoadInvariance, PTL DEF Spec

\* main.rs, keygen: an identity it announced stays, loads with its passphrase
\* and is shown by `sqnr pubkey`, through every later run, failure and crash of
\* any number of processes, unless two of them were between the check and the
\* end at once (which can lose it).
THEOREM AnnouncedStays == Spec => []KeptUnlessRaced
<1>1. LoadInv /\ KeptInv => KeptUnlessRaced
  <2>1. SUFFICES ASSUME LoadInv, KeptInv, ~ raced, NEW r \in reported
                 PROVE  /\ Load(file, r.seal) = r.key
                        /\ ReadPublic(file) = r.key
                        /\ IsEncrypted(file) <=> r.seal # Plain
                        /\ file.mode = "0600"
    BY DEF KeptUnlessRaced, ReportedIsKept
  <2>2. r.key \in Keys /\ r.seal \in Seals /\ file = Content(r.key, r.seal, "0600")
    BY <2>1 DEF LoadInv, TypeOK, SeedLines, KeptInv, Intact
  <2> QED
    BY <2>2, WholeFile, IdentityAssumption DEF Modes, Content
<1> QED
  BY <1>1, LoadInvariance, KeptInvariance, PTL

\* identity.rs, "already exists; refusing to overwrite": with the same exception,
\* no step changes an identity that loads, announced or not.
THEOREM RefusesToOverwrite == Spec => NeverOverwritten
<1>1. ASSUME LoadInv, KeptInv, [Next]_vars
      PROVE  [raced \/ Refuses]_vars
  <2> SUFFICES ASSUME ~ raced PROVE Refuses
    OBVIOUS
  <2>1. CASE UNCHANGED file
    BY <2>1 DEF Refuses
  <2>2. ASSUME NEW p \in Procs, Truncate(p)
        PROVE  Refuses
    <3>1. file = Absent
      BY <1>1, <2>2 DEF Truncate, KeptInv, Intact, Underway
    <3> QED
      BY <3>1, NothingLoads DEF Refuses
  <2>3. ASSUME NEW p \in Procs, Write(p) \/ WriteStops(p)
        PROVE  Refuses
    <3>1. file = Empty("default")
      BY <1>1, <2>3 DEF Write, WriteStops, KeptInv, Intact, Underway
    <3> QED
      BY <3>1, NothingLoads DEF Refuses
  <2>4. ASSUME NEW p \in Procs, Chmod(p)
        PROVE  Refuses
    <3>1. file \in Files
      BY <1>1, <2>4, Writer, IdentityAssumption DEF Chmod, Working
    <3>2. \A s \in Seals : Load(file', s) = Load(file, s)
      BY <2>4, <3>1, ModeIrrelevant, IdentityAssumption DEF Chmod, Modes
    <3> QED
      BY <3>2 DEF Refuses
  <2>5. CASE Remove
    BY <2>5 DEF Remove, Refuses
  <2>6. \/ UNCHANGED file \/ Remove
        \/ \E p \in Procs : Truncate(p) \/ Write(p) \/ WriteStops(p) \/ Chmod(p)
    BY <1>1 DEF Next, Keygen, Check, Report, Fail, vars
  <2> QED
    BY <2>1, <2>2, <2>3, <2>4, <2>5, <2>6
<1> QED
  BY <1>1, LoadInvariance, KeptInvariance, PTL DEF Spec, NeverOverwritten
=============================================================================
