# sqnr: a verification project

`sqnr` is the operator's side of an authority protocol: a client library and a
command line that sign batches of administrative operations with an Ed25519 key
(in a file, or on a YubiKey) and submit them to a server over HTTP/3. This
directory holds TLA+ models of its parts, the TLC configurations that check them
on small instances, and TLAPS proofs of what matters most for every instance.
Paths below are relative to the repository (`crates/...`).

## 1. Inventory

| Part | State | Operations | Meets |
| --- | --- | --- | --- |
| Authority flow, `sqnr/src/flow.rs`, `signer.rs` | none between runs, apart from `Backend::public`, fixed when the Backend is built | `sign_and_submit`; `Backend::software`, `yubikey`, `sign` | client, card thread, server |
| Signed transactions, `sqnr-core/src/tx.rs`, `error.rs` | none | `encode`, `decode`, `signing_bytes`, `create`, `verify` | both ends of the wire |
| Card thread, `sqnr/src/card.rs` | channel, PC/SC connection, the request in hand; on the card: slot, PW1 | `pubkey`, `unlock`, `sign`, `provision`; `card_loop` | callers (mpsc + oneshot), other processes (shared card) |
| Identity file, `sqnr/src/identity.rs` | one file: three lines and a mode | `generate`, `load`, `read_public`, `is_encrypted` | other processes on the same path |
| Command line, `sqnr/src/main.rs` | none | `keygen`, `pubkey`, `provision` | identity file, card thread, configuration |
| Configuration, `sqnr/src/config.rs`, and envelope version (`client.rs`) | `~/.sqnr/config`, a process-wide atomic | `Config::load`, `apply_transport`, `set_envelope_version` | client |
| HTTP/3 client, `sqnr/src/client.rs` | connection, driver task, handles | `connect`, `get`, `post`, `stream`, `requests`, `datagrams` | flow, server |
| Keys, `sqnr-core/src/key.rs` | none | base58 and hex conversions | everything |
| Installer and CI, `install.sh`, `.github/` | none of the protocol | download, check, copy | - |

What is hard here, and hard to test: answers lost after the server acted, and the
retry that follows; a body that arrives late, twice or at the wrong server; a card
that is removed, reset, swapped or provisioned between reading its key and using
it; several processes on one card; errors recognised by their text; futures
dropped while their request is queued; a write that stops half way; two writers on
one path; a length that wraps; a body that was cut or altered; a response cut off in
the middle; a call that is never answered; handles dropped in any order; a config
that is edited or broken while programs run. `PROJECT.json` lists them as hazards, each at its line.

What makes each part correct:

- flow: a server applies only what an operator was shown, once, under an
  administrator's signature; Ok means applied; each signature has its own
  challenge; every run returns.
- card thread: no request is lost or run twice; the PIN is asked for once per
  session; a dead connection is let go; the thread ends with its handles.
- identity file: an announced identity stays; what `load` accepts
  was generated; success is announced only for a file of mode 0600.
- codec: decode gives back what was encoded or nothing, and accepts one
  representation of a transaction only, whatever the lengths say.
- client: an answer is the server's whole reply; a call is sent once; a parked call
  holds up nobody; the connection lives exactly as long as somebody can use it.
- configuration: flags before config before defaults, for every program alike; what
  `keygen` made, `pubkey` finds.

## 2. Modules

`Authority` is the abstract specification: transactions are approved, a key grants
an approved transaction, and a server executes a grant addressed to it at most
once and only for one of its administrators. It knows no nonces, connections,
retries or failures.

`AdminFlow` is the flow. Each client has a program counter through
`sign_and_submit`: `new` (no Backend), `idle`, `get` (challenge requested), `got`
(response on its way), `signing` (transaction shown to `on_review`, signature
awaited), `posted`, `answered`. The early returns are the error branches of
`Start` (empty batch), `ReceiveChallenge` (status or length), `SignFails`,
`ReceiveResult` and `LoseConnection` (any await of a request). The server is
outside the repository. It is modelled from what `tx.rs` and `flow.rs` ask of it:
single-use nonces, a list of administrators, `decode`, `verify`, and a batch
applied in one step. SHA-256 and Ed25519 are ideal: a digest stands for what was
hashed, and a signature is made only by the holder of the key. `LateDelivery` lets
the network deliver any captured signature to any server at any time with any
transaction and admin field around it. `ChangeCard` puts another key into the slot
under a Backend that has read the old one. The history variables are `reviewed`,
`wire` and the `via` field of a body.

`CardThread` is `card.rs`. An instance is one `Card::spawn`; callers hold clones of
its handle. The thread's places are `recv`, `open`, `begin` (`card.transaction()`),
`handle`, and the two later steps of `provision_auth`. The card is external: PW1 is
a flag of the card, cleared when the applet is selected (as `open()` does and as
the comment on `card_loop` says), by a reset and by a wrong PIN. A call on the card
ends well, is refused, or fails in transport with a text that `is_comm_failure`
knows or does not; a failing call may have taken effect. `entitled`, `wasted` and
`overwrote` are history variables.

`IdentityFile` is `identity.rs` with the `keygen` command. The file is three lines
and a mode; a line may be missing or fail to decode. Base58 has no checksum, so a
public line cut short may decode to a key nobody made (`Stray`: 43 of 44 characters
are often still 32 bytes), and two bare seeds that ran together may decode to a seed
nobody made (`Blend`). That the public key of such a seed is in no public line is
what is assumed of Ed25519. `fs::write` is two steps, truncate and write, and the write may stop
anywhere, over whatever another process has put there. `raced` is a history variable:
two processes have been past the check at once since the path was last free.

`TxCodec` is the wire form. A byte is a number below `Base`, a u32 is `Width` of
them, big-endian, so the unchecked `as u32` of `encode` wraps at `U32Range`.
`Encode` and `EncodeSigned` are operators; `decode` is a sequence of steps, one per
call of the `Reader`, over a buffer that is the encoding of some transaction (then
`sent` remembers which) or comes from elsewhere. `Accepts` says when the next read
succeeds; any other read ends in `malformed`. Strings must avoid `NotText`, which
stands for bytes that are not UTF-8. `CodecAssumption` has what the code's constants
satisfy: the longest body within the bounds (`BodySize`, under 13 MB) is shorter
than what a u32 can count.

`Exchange` is what a caller may count on: a call is seen by the server at most once,
an answer is the whole of its one reply, and a call may fail at any time. It is what
`AdminFlow` takes for granted of its GET and POST.

`ClientConn` is one connection of `client.rs` and implements `Exchange`. `conn` goes
through the two steps of `dial`; `handle` holds clones of `Client` and `Requests`;
`at[c]` is where the future of call c waits (`opening`: `send_request`; `sending`:
`send_data` and `finish`; `head`: `recv_response`; `body` and `next`: `recv_data`;
`reading`: `read_datagram`; `held`: a `Stream` between calls of `next`). `from[c]` is
the handle the future borrows: `get` and `post` of a `Client` exclusively, the others
not. h3 closes a connection when its last `SendRequest` is dropped: those of the
handles and the clones that `request` and `stream` work on. The server and the
network reset streams, stop, and lose the connection at any time; what has arrived
may still be read after that, or not.

`Settings` is how a process comes by its settings: `Config::load` with
`apply_transport`, `set_envelope_version` and `envelope_version`, `identity_path` and
the paths of `keygen` and `pubkey`. A config file is missing, sound or broken; a
broken one keeps what it means to say, so that a property can compare. `Emits` and
`Pubkey` are what a dial would emit and `pubkey` would print in the present state.

`MCAdminFlow`, `MCCardThread`, `MCIdentityFile`, `MCTxCodec`, `MCClientConn` and
`MCSettings` give the constants their values.
`AdminFlowProofs`, `CardThreadProofs`, `ClientConnProofs`, `SettingsProofs`,
`IdentityFileProofs` and `TxCodecProofs` hold the theorems about the module they are
named after, with their inductive invariants; `TxRoundTripProofs` continues
`TxCodecProofs` with what relates a decoded transaction to an encoded one, and
`Iteration` has the lemmas about functions defined by recursion that both use. Operators whose comment starts with "Mutant
of" are plausible errors, one for each property: with the mutant in place of the
original, TLC finds the property violated.

## 3. Runs

| Run | Shows |
| --- | --- |
| `flow_concurrent` | Two clients (card, software), two servers, two nonces per server, one run each: `AppliedWasApproved`, `SignatureAppliedOnce`, `OkMeansApplied`, and the refinement of `Authority`. |
| `flow_retry` | One client, two runs plus crashes, three nonces, batches that are empty, fine and too large: `OkMeansApplied`, `FreshNoncePerSignature`, and the liveness property `RunsReturn`. |
| `card_session` | One thread, two clones, three requests, three disturbances: `RequestConserved`, `PinVerifiedOnce`, `DeadConnectionShed`, `ProvisionAtMostOnce`. |
| `card_shared` | Two processes on one card, two requests, two disturbances: the safety properties that hold there, and `EveryRequestAnswered` and `ThreadReturns` under fairness. |
| `card_pin` | A violation: with two instances `PinVerifiedOnce` fails. |
| `identity` | Two processes that run `keygen` after one another and at once, with failures and crashes at every step, four keys: `KeptUnlessRaced`, `NeverOverwritten`, and, seeds run together included, `LoadIsGenerated`. |
| `identity_kept` | A violation: two at a time, `ReportedIsKept` fails. |
| `codec` | Batches of up to three operations with fields below, at and above each bound, ten batches with one length or count that wraps, two that collide, and every cut, one-byte change, insertion and deletion of the encodings of one- and two-operation batches: `DecodedIsSent`, `SignatureFitsOne`, `Canonical`, `AcceptedIsShort`. |
| `client` | A parked request beside a stream, a parked stream beside a request, a datagram reader beside a request, two handle names: `OkIsComplete`, `StreamMeansReceived`, `FailureIsExternal`, the refinement of `Exchange`, and under fairness `NobodyHangs` and `LastHandleCloses`. |
| `client_requests` | A violation: with a `Requests` left, `RequestsHoldNothing` fails under the same fairness. |
| `settings` | Two processes, two paths, three versions, four states of the config file, any environment: `PubkeyFindsKeygen`, `EnvelopeAsConfigured`. |
| `settings_broken` | A violation: `ConfigHonoured` fails on a config that does not parse. |

Bounds. Two clients and two servers are the least with which a body can be
misdirected and two runs can compete for a nonce; two runs of one client are a
first attempt and its retry, and the third nonce leaves room for a challenge that
expires unused. Three card requests are unlock, a disturbance of the session and
the request that notices it; two keys tell the old slot from the new one. Four
keys let `keygen` succeed or fail four times on one path. The codec's lengths wrap at
36, above the 30 bytes of the longest accepted body, as 2^32 is above the code's 13
MB; its bounds are two operations, one detail line, strings of one byte and payloads
of two. One chunk tells a whole body from a cut one. The config files name each path
and each kind of version, one of them broken. Symmetry is used only
where the permuted values are merely compared, and only in runs without temporal
properties. Deadlock checking is off for the card, whose runs end when every handle is
dropped and the bounds are used up, for the codec, which ends with its outcome, and
for the client, which makes a fixed number of calls.

Fairness. Weak fairness of the flow's own steps is the async runtime polling a
ready task, plus a card call that returns (an absent touch times out on the card).
Weak fairness of the server's answer is an assumption about the server and QUIC:
the client sets a handshake timeout and keep-alive but no request timeout, so
against a server that accepts a request and never answers, `RunsReturn` does not
hold. `LoseConnection`, `Crash`, `ChangeCard`, retries, `Remove` and the like are
never fair. For the card thread, weak fairness of the thread is the operating
system scheduling it, and calls on the card and on the PC/SC service returning, with
an error if not with a result, also while another process has the card. For the
client it is tokio polling the futures and the driver task, a server that answers
the calls not in `Parked`, and QUIC's idle timeout ending a connection whose server
is dead, as the keep-alives then stay unanswered. Nothing is assumed of a live
server that parks a call: `NobodyHangs` says that it holds its own caller only.

### The four violations

`card_pin`: `card.rs` keeps the connection in shared mode so that other instances
can reach the card, and says that the PIN is therefore verified once, because the
applet is selected again only after a reset. But `open()` selects it too, and every
instance opens on its first request: instance 1 unlocks, instance 2 asks for its
public key, and instance 1's next signature is refused although nothing was reset
and nothing failed.

`identity_kept`: `generate` checks `path.exists()` and writes much later (argon2
runs in between) with `fs::write`, which truncates. Two concurrent runs both pass
the check; the second replaces the identity the first has announced, although the
message and the test `refuses_overwrite` say it is refused. Without such a race the
same property holds (`KeptUnlessRaced` in `identity`).

`settings_broken`: the comment on `Config::load` says "or an empty config if it does
not exist"; `from_file(&path).unwrap_or_default()` also gives the empty config for a
file that exists and cannot be read or parsed, or has one unknown field. `keygen`
without `--identity` then creates a second identity at the default path, and
`pubkey` prints it, without a word about the config.

`client_requests`: the comment on `Client::requests` says that the handle "does
**not** keep the connection open: when the `Client` is dropped the connection goes".
It holds a clone of the `SendRequest`, and the driver task, which owns the connection,
waits until h3 is idle, that is until the last `SendRequest` is dropped. So a
`Requests` alone keeps the connection open and usable, as the comment on `Client`
says of "any handle". The run rests on h3 as the model has it, and on
`client.rs` for who holds a sender.

### Other observations

- `load` refuses a file whose public line was cut (`LoadIsGenerated`); `read_public`
  does not notice. 43 of the 44 characters of that line mostly decode, so after a write
  that stopped there `sqnr pubkey` prints a key that no seed signs for. The code makes
  no check there that a property could state.
- `encode` is not injective outside the decode bounds: `MCTxCodec` exhibits two
  batches, one with a summary that wraps to length zero, with one encoding
  (`WrappedCollides`). `DecodedIsSent` shows why this is harmless to the reader, and
  `SignatureFitsOne` why it is to a signature: whatever wraps is longer than anything
  `decode` accepts (`AcceptedIsShort`), because `finish` refuses trailing bytes and
  every field is bounded. Raising the bounds towards 4 GiB, or dropping `finish`,
  would end that.
- A `Stream` holds no `SendRequest`: when the last handle is dropped, an open stream
  ends with an error (`FailureIsExternal` excepts it) instead of keeping the connection
  (`LastHandleCloses`, whose mutant `SendingStream` lets a `Stream` keep a sender).
- A second `Config::load` whose config names no version leaves the first one's in
  force, as `apply_transport` only ever stores. `EnvelopeAsConfigured` is therefore
  about processes that load once, which is how the setting is documented.

## 4. Proofs

Every theorem is about `Spec` of its module, for every value of the constants that
satisfies the module's named assumption. No property is inductive by itself: each
proof has an inductive invariant, which TLC checked on the instances of the runs
before it was proved (put it in the INVARIANTS line of the cfg to repeat that).

| Module | Theorem | States |
| --- | --- | --- |
| `AdminFlowProofs` | `TypeCorrect` | `Spec => []TypeOK` |
| | `AppliedApproved` | `Spec => []AppliedWasApproved` |
| | `AppliedOnce` | `Spec => []SignatureAppliedOnce` |
| | `OkApplied` | `Spec => []OkMeansApplied` |
| | `ChallengeSignedOnce` | `Spec => []FreshNoncePerSignature` |
| | `Refinement` | `Spec => ImplementsAuthority` |
| `CardThreadProofs` | `CardTypeCorrect` | `Spec => []TypeOK` |
| | `NoRequestLost` | `Spec => []RequestConserved` |
| | `ProvisionOnce` | `Spec => []ProvisionAtMostOnce` |
| | `DeadIsShed` | `Spec => []DeadConnectionShed` |
| | `PinLastsAlone` | `Alone => (Spec => []PinVerifiedOnce)` |
| `ClientConnProofs` | `ClientTypeCorrect` | `Spec => []TypeOK` |
| | `OkComplete` | `Spec => []OkIsComplete` |
| | `StreamReceived` | `Spec => []StreamMeansReceived` |
| | `NoSelfInflictedFailure` | `Spec => []FailureIsExternal` |
| | `ClientRefinement` | `Spec => ImplementsExchange` |
| `SettingsProofs` | `SettingsTypeCorrect` | `Spec => []TypeOK` |
| | `PubkeyAgrees` | `Spec => []PubkeyFindsKeygen` |
| | `EnvelopeChosen` | `Spec => []EnvelopeAsConfigured` |
| `IdentityFileProofs` | `IdentityTypeCorrect` | `Spec => []TypeOK` |
| | `TamperGuard` | `Spec => []LoadIsGenerated` |
| | `AnnouncedStays` | `Spec => []KeptUnlessRaced` |
| | `RefusesToOverwrite` | `Spec => NeverOverwritten` |
| `TxCodecProofs` | `CodecTypeCorrect` | `Spec => []TypeOK` |
| | `AcceptedShort` | `Spec => []AcceptedIsShort` |
| | `OneRepresentation` | `Spec => []Canonical` |
| `TxRoundTripProofs` | `DecodedSent` | `Spec => []DecodedIsSent` |
| | `SignatureFits` | `Spec => []SignatureFitsOne` |
| | `DecodedTyped` | `Spec => []ReturnsTransaction` |

**Authority flow.** `IInv` adds what the steps rely on. `ClientOK`: at `signing` the
transaction is one that was reviewed; at `posted` the body is on the wire and
addressed to the run's server; an "ok" verdict means that the body is in that
server's log. `WireInv`: every signature on the wire is over the reviewed transaction
it travels with. `LogInv`: a nonce is outstanding or spent, never both; every entry's
nonce is spent and no two entries share one; every entry verifies for its server and
admin, and its signature is on the wire. The heart of the argument is `LogInvApply`:
a body whose signature is on the wire and verifies carries exactly the transaction
that was signed (`SigningBytesInjective`), and its nonce was outstanding, so no
earlier entry has it. The same two facts give the refinement: `Apply` is `Execute` of
a grant not executed before. `FreshInv` adds that a server's challenge in a client's hands is
in nobody else's and under no signature; nonces known to a server only grow
(`KnownGrows`), so a new challenge differs from every one handed out before. The
assumption on the primitives is the model's: encoding, digest and signature are
injective. For the encoding this is justified by `SignatureFits` of the codec (no two
batches, one of which `decode` accepts, have the same bytes to sign); for SHA-256 and
Ed25519 it stays an assumption.

**Card thread.** Every step sends a request, takes one, settles one or leaves them
where they are. `RequestInv` keeps the account: numbers are not reused, no two places
hold one request, an awaited one is queued or in hand under its caller's name, and
one still to be settled has generated no key. A transport failure between
`SetAttributes` and `GenerateKey`, a reconnection and an abandoned caller all settle
a request, which is why none is lost and none generates twice. `ShedInv`: a request is
wasted only on a dead connection, and then the thread's next `transaction()` drops it.
`PinInv` needs `Alone` (one instance): an unlock then lasts with its connection,
because only a connection that is opened anew selects the applet; `card_pin` shows
that the hypothesis cannot be dropped.

**Client.** `CallInv` says how far the server can be with a call when its future waits
at each await: nothing exists before `send_request`, nothing is answered before it is
sent, and Ok comes after the end of the body. `Turn` says what a step is in the eyes
of `Exchange`, so the refinement is one lemma per step and one that puts a turn of one
call among calls that stay unseen. For `FailureIsExternal`, `FailureInv` says that a
future in flight borrows a handle that cannot be dropped under it (`Holds`; only a
`Stream` in `next` borrows none), and that a call that failed was reset, or found the
connection lost, or is a `Stream` that found it closed (`Excused`). A connection that is closed and not
lost has no sender left (`ClosedWithoutSender`), hence no handle, hence no such future.

**Settings.** `ProcInv`: the config of a process is what the file it loaded says, and
its envelope version is that config's unless it set one itself. `NamedInv`: an
announced identity is where its flag or its config leads.

**Identity file.** `LoadInv` holds for any number of processes: a seed in the file that
is some key's seed was generated, and a file that is open is there. Any other seed
that a torn write leaves is refused by the check of the public line in `load`, hence
`TamperGuard`; without that check (the mutant `LoadUnguarded`) it would not hold. For
`AnnouncedStays` and `RefusesToOverwrite`, `KeptInv` says that short of a race one
process at most is past the check (`OneAtWork`), and what the file holds at each of its
steps (`Intact`). The history variable `raced` tells when the check has let through a
second process, until the operator removes the file; `identity_kept` shows the loss.

**Codec.** `HeldInv` types what the decoder holds. `SizeInv` bounds `pos` at each read
by what the fields read so far may add up to, `CanonInv` says that the bytes read so
far are the encoding of what is held, with counts that include the entries still to
come. Both rest on what the operators compute for every input: `BeOfNumber` (a u32
read and written again is the same bytes), `FlattenAppend` (a field more in a batch is
its bytes more at the end), and what `take`, `u32`, `bytes` and `string` consume.
`Canonical` is thus proved for every buffer, not only for the altered encodings of
`MCTxCodec`. The recursive functions in `Be`, `Number` and `FlattenSeq` are reasoned
about through `Iteration`: a function that gives each index a value from the one before
exists and is unique. Its induction is by least counterexample (a non-empty set of
naturals has a least element), which needs no induction theorem with an operator
parameter.

`DecodedSent` is about the buffers that are an encoding. `RoundTripInv` says that the
Reader `Tracks` the transaction: what it holds is what the transaction has in the same
place, as long as no length of that transaction wraps (`Countable`), and that it
refuses only a transaction beyond the bounds. A step keeps it because each field is
where `encode` put it (`FieldAhead`, from the prefixes of a flattened sequence) and a
length below `U32Range` is read as what was written (`NumberOfBe`). Both ways to lose
`Countable` are then closed: a transaction within the bounds is countable, as
`BodySize < U32Range` (`BoundsCountable`), and so is one whose encoding was accepted,
as that is no longer than `BodySize` and contains every field (`BodyCountable`). The
assumption on the constants is needed there and nowhere else; the code's own constants
satisfy it with a factor of more than 300 to spare.

`SignatureFits` compares two transactions without a Reader. `SameBatch`: countable
batches with the same bytes to sign are the same batch. Its induction follows the
operations (`SameOperation`) and their lines: where two encodings agree so far, the
next length and then the next field agree. An accepted transaction is countable, and
a batch with the same bytes is as short, hence countable too. It needs that what
`decode` returns is a transaction at all, `DecodedTyped`, whose invariant `ArraysInv`
adds the lengths of the fixed fields to `HeldInv`.

Only model-checked: liveness (`RunsReturn`, `EveryRequestAnswered`, `ThreadReturns`,
`NobodyHangs`, `LastHandleCloses`), which is out of the prover's reach. Every safety
invariant of the passing runs is stated by a theorem, `PinVerifiedOnce` under the
hypothesis named above.

## 5. Not modelled

Base58, hex and the OpenPGP fingerprint (pure conversions; their failures are the
undecodable lines of `IdentityFile` and a refusal in `CardThread`), prompts, argument
parsing and the wording of messages, the refusal of `provision` without `--yubikey`
(one guard, with a test of its own), creating `~/.sqnr`, the sending of a datagram
(it leaves no state on this side) and the size of the path, the installer and CI.
Secrets in memory (zeroizing) and the strength of the ciphers are outside TLA+.

## 6. Plan

`AdminFlow` over `CardThread`: the flow's `Sign` as a request to the thread, so that
the refusal of a re-locked card and the abandoned request meet the retry.
