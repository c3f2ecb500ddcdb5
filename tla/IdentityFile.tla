---------------------------- MODULE IdentityFile ----------------------------
(***************************************************************************)
(* The software identity of crates/sqnr/src/identity.rs and the `keygen`   *)
(* command of main.rs that creates it: one path, processes that generate   *)
(* an identity there, and what is_encrypted, read_public and load make of  *)
(* the file at any moment.                                                 *)
(*                                                                         *)
(* generate checks that the path does not exist, makes and seals a key,    *)
(* and hands three lines to fs::write, which truncates the file and then   *)
(* writes it from the start; the mode is set last.  A process can fail or  *)
(* die between any two of these steps and in the middle of the write, so a *)
(* file may end anywhere, or hold the start of one identity and the rest   *)
(* of another.                                                             *)
(***************************************************************************)
CONSTANTS
  Procs,      \* processes running `sqnr keygen` on the path
  Keys,       \* keys OsRng may produce; each is produced once
  Passes,     \* passphrases of 8 characters or more
  Plain,      \* --plaintext, or no passphrase given to load
  Stray,      \* the key a public line cut short may decode to
  Blend,      \* the key of the seed two bare seed lines run together may decode to
  Garbage,    \* a line that does not decode
  Missing,    \* no such line
  Absent,     \* no file at the path
  None        \* no key yet

Seals == Passes \cup {Plain}

\* The three lines of a file, and its mode.
Headers    == {"enc", "plain", "none"}
SeedLines  == [key : Keys, seal : Seals]
BlendLine  == [key |-> Blend, seal |-> Plain]
DataLines  == SeedLines \cup {BlendLine, Garbage, Missing}
PublicLines == Keys \cup {Stray, Garbage, Missing}
Modes      == {"default", "0600"}
Files == [header : Headers, data : DataLines, public : PublicLines, mode : Modes]

ASSUME IdentityAssumption ==
  /\ Plain \notin Passes
  /\ {Stray, Blend, Garbage, Missing, None} \cap Keys = {}
  /\ Stray \notin {Garbage, Missing, None} /\ Blend \notin {Stray, Garbage, Missing, None}
  /\ {Garbage, Missing} \cap (SeedLines \cup {BlendLine}) = {}
  /\ Garbage # Missing
  /\ Absent \notin Files

VARIABLES
  file,      \* the file at the path: its three lines and its mode
  pc,        \* where each process is in generate
  key,       \* the key it generated
  seal,      \* how it seals the seed
  made,      \* keys generated so far
  reported,  \* the identities keygen has announced and nobody has removed
  raced      \* history: two processes have been past the check at once

vars == <<file, pc, key, seal, made, reported, raced>>

-----------------------------------------------------------------------------
(* Writing and reading the three lines *)

\* A file just created or truncated.
Empty(mode) == [header |-> "none", data |-> Missing, public |-> Missing, mode |-> mode]

\* write_file's content for key k under seal s, over a file of mode m.
Content(k, s, m) ==
  [header |-> IF s = Plain THEN "plain" ELSE "enc",
   data   |-> [key |-> k, seal |-> s],
   public |-> k,
   mode   |-> m]

\* What is left of a line that another write stopped short of or ran into.
Rest(line) == IF line = Missing THEN {Missing} ELSE {line, Garbage, Missing}

\* The start of a bare seed and the rest of another: base58 has no checksum, so
\* 32 bytes may come of it, a seed nobody made.  A sealed one is longer.
Blended(new, old) ==
  {line \in {BlendLine} : /\ new.header = "plain" /\ old.data # Missing
                         /\ old.data # Garbage => old.data.seal = Plain}

\* What the file may hold when the write of `new` over `old` stops early: in
\* the header, in the data, or in the public key, whose base58 can be short of
\* a character and still decode to 32 bytes.
Cut(new, old) ==
  LET With(data, public) ==
        [header : {new.header}, data : data, public : public, mode : {new.mode}]
  IN  {old, [old EXCEPT !.header = "none"]}
        \cup With(Rest(old.data) \cup {Garbage} \cup Blended(new, old), Rest(old.public))
        \cup With({new.data}, Rest(old.public) \cup {Garbage, Stray})

\* read_lines succeeds.
Readable(f) ==
  /\ f # Absent
  /\ f.header # "none"
  /\ f.data # Missing
  /\ f.public # Missing

IsEncrypted(f) == Readable(f) /\ f.header = "enc"

\* read_public, or None for an error.
ReadPublic(f) ==
  IF Readable(f) /\ f.public # Garbage THEN f.public ELSE None

\* decrypt_seed and decode_plaintext: the seed line opens with pass (the AEAD
\* rejects any other), and its length tells a sealed one from a bare one.
Opens(f, pass) ==
  /\ f.data # Garbage
  /\ \/ f.header = "plain" /\ f.data.seal = Plain
     \/ f.header = "enc" /\ f.data.seal # Plain /\ f.data.seal = pass

\* Mutant of Load: the stored public key is not compared with the seed's.
LoadUnguarded(f, pass) ==
  IF Readable(f) /\ Opens(f, pass) THEN f.data.key ELSE None

\* load: the key of the signer it returns, or None for an error.
Load(f, pass) ==
  IF Readable(f) /\ Opens(f, pass) /\ f.public = f.data.key THEN f.data.key ELSE None

-----------------------------------------------------------------------------
(* keygen *)

Init ==
  /\ file     = Absent
  /\ pc       = [p \in Procs |-> "idle"]
  /\ key      = [p \in Procs |-> None]
  /\ seal     = [p \in Procs |-> Plain]
  /\ made     = {}
  /\ reported = {}
  /\ raced    = FALSE

\* From the check of the path to the end of keygen.
Working(p) == pc[p] \notin {"idle", "check"}

\* The check found no file while another process was past it.
Races(p) == raced' = (raced \/ \E q \in Procs \ {p} : Working(q))

\* Mutant of Exit: the key outlives the run that made it.
ExitHolding(p) ==
  /\ pc' = [pc EXCEPT ![p] = "idle"]
  /\ UNCHANGED key

\* The process ends: with an error, killed, or done.
Exit(p) ==
  /\ pc'  = [pc EXCEPT ![p] = "idle"]
  /\ key' = [key EXCEPT ![p] = None]

\* keygen, up to the call of generate.  A passphrase that is too short or is
\* not confirmed ends it here, with nothing changed.
Keygen(p, s) ==
  /\ pc[p] = "idle"
  /\ pc'   = [pc EXCEPT ![p] = "check"]
  /\ seal' = [seal EXCEPT ![p] = s]
  /\ UNCHANGED <<file, key, made, reported, raced>>

\* Mutant of Check: the path is not looked at.
CheckNothing(p) ==
  /\ pc[p] = "check"
  /\ \E k \in Keys \ made :
       /\ key'  = [key EXCEPT ![p] = k]
       /\ made' = made \cup {k}
  /\ pc' = [pc EXCEPT ![p] = "write"]
  /\ Races(p)
  /\ UNCHANGED <<file, seal, reported>>

\* path.exists(), and if it does not, the new key and its sealed seed, which
\* takes argon2 a while.
Check(p) ==
  /\ pc[p] = "check"
  /\ IF file # Absent
     THEN Exit(p) /\ UNCHANGED <<made, raced>>
     ELSE /\ \E k \in Keys \ made :
               /\ key'  = [key EXCEPT ![p] = k]
               /\ made' = made \cup {k}
          /\ pc' = [pc EXCEPT ![p] = "write"]
          /\ Races(p)
  /\ UNCHANGED <<file, seal, reported>>

\* fs::write opens the path, creating it or truncating what is there now.
Truncate(p) ==
  /\ pc[p] = "write"
  /\ file' = Empty(IF file = Absent THEN "default" ELSE file.mode)
  /\ pc'   = [pc EXCEPT ![p] = "writing"]
  /\ UNCHANGED <<key, seal, made, reported, raced>>

\* The three lines go out, from the start of the file.
Write(p) ==
  /\ pc[p] = "writing"
  /\ file' = Content(key[p], seal[p], file.mode)
  /\ pc'   = [pc EXCEPT ![p] = "chmod"]
  /\ UNCHANGED <<key, seal, made, reported, raced>>

\* The write stops early, by an error that generate returns or a crash.
WriteStops(p) ==
  /\ pc[p] = "writing"
  /\ file' \in Cut(Content(key[p], seal[p], file.mode), file)
  /\ Exit(p)
  /\ UNCHANGED <<seal, made, reported, raced>>

\* Mutant of Chmod: the mode is left as the umask made it.
ChmodForgotten(p) ==
  /\ pc[p] = "chmod"
  /\ pc' = [pc EXCEPT ![p] = "report"]
  /\ UNCHANGED <<file, key, seal, made, reported, raced>>

\* fs::set_permissions.
Chmod(p) ==
  /\ pc[p] = "chmod"
  /\ file' = [file EXCEPT !.mode = "0600"]
  /\ pc'   = [pc EXCEPT ![p] = "report"]
  /\ UNCHANGED <<key, seal, made, reported, raced>>

\* generate returns Ok and keygen prints the public key.
Report(p) ==
  /\ pc[p] = "report"
  /\ reported' = reported \cup {[key |-> key[p], seal |-> seal[p]]}
  /\ Exit(p)
  /\ UNCHANGED <<file, seal, made, raced>>

\* A step fails (the open, the chmod) or the process dies between two steps.
Fail(p) ==
  /\ pc[p] # "idle"
  /\ Exit(p)
  /\ UNCHANGED <<file, seal, made, reported, raced>>

\* The operator removes the file, or moves it away; not under a write.
Remove ==
  /\ file # Absent
  /\ \A p \in Procs : pc[p] \in {"idle", "check"}
  /\ file'     = Absent
  /\ reported' = {}
  /\ raced'    = FALSE
  /\ UNCHANGED <<pc, key, seal, made>>

Next ==
  \/ \E p \in Procs :
       \/ \E s \in Seals : Keygen(p, s)
       \/ Check(p) \/ Truncate(p) \/ Write(p) \/ WriteStops(p)
       \/ Chmod(p) \/ Report(p) \/ Fail(p)
  \/ Remove

Spec == Init /\ [][Next]_vars

-----------------------------------------------------------------------------
(* Properties *)

\* Every variable has its type; a process holds a key exactly while it has
\* one to write.
TypeOK ==
  /\ file \in Files \cup {Absent}
  /\ pc \in [Procs -> {"idle", "check", "write", "writing", "chmod", "report"}]
  /\ key \in [Procs -> Keys \cup {None}]
  /\ seal \in [Procs -> Seals]
  /\ made \subseteq Keys
  /\ reported \subseteq SeedLines
  /\ raced \in BOOLEAN
  /\ \A p \in Procs : Working(p) <=> key[p] # None

\* An identity that keygen announced is the one in the file until the operator
\* removes it, whatever later runs of keygen do: it loads with its passphrase,
\* `sqnr pubkey` shows its key, is_encrypted says whether to ask for the
\* passphrase, and the mode is 0600.
ReportedIsKept ==
  \A r \in reported :
    /\ Load(file, r.seal) = r.key
    /\ ReadPublic(file) = r.key
    /\ IsEncrypted(file) <=> r.seal # Plain
    /\ file.mode = "0600"

\* The same, unless two processes have been past the check at once since the
\* path was last free: runs that only follow each other, or start when another
\* has ended, failed or crashed, take no announced identity away.
KeptUnlessRaced == raced \/ ReportedIsKept

\* identity.rs, load: "The stored public key is checked against the decoded
\* key as a tamper guard".  Whatever crashes and concurrent runs of keygen left
\* in the file, two seeds run together included, a signer that load returns
\* is over a key that keygen generated.
LoadIsGenerated == \A s \in Seals : Load(file, s) \in made \cup {None}

\* "already exists; refusing to overwrite": unless two processes have raced, no
\* step changes an identity that loads, announced or not, except its removal.
Refuses ==
  \A s \in Seals :
    Load(file, s) # None /\ file' # Absent => Load(file', s) = Load(file, s)

NeverOverwritten == [][raced \/ Refuses]_vars
=============================================================================
