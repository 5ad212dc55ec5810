# Cold Snap: TLA+ models, checks and proofs

Cold Snap is a FROST signing device: firmware on a microcontroller with a keypad, one
screen and internal flash, attached by USB to an application that coordinates key
generation, signing and recovery. This directory holds TLA+ modules of the parts of it
whose correctness depends on order, interruption and interleaving, the TLC
configurations that check them, and proofs checked by TLAPS.

Paths below are relative to the repository. `core` is `vendor/frostsnap/frostsnap_core/src`,
`embedded` is `vendor/frostsnap/frostsnap_embedded/src`.

## 1. Inventory

| Part | State it keeps | Operations | Talks to | What is hard | What makes it correct |
|---|---|---|---|---|---|
| A/B flash slot (`embedded/ab_write.rs`, `partition.rs`) | two sectors, each an index word and a body | `read`, `try_write` | flash below; nonce slots and share store above | a refusal or power cut at any of six flash operations; the tie rule; the last index | a read is never stale; a write is one step to its caller; the outcome says what is readable |
| Nonce slots (`core/device_nonces.rs`, `embedded/nonce_slots.rs`) | one A/B slot per stream: index, seed, last session's shares; LRU counter in RAM | open streams, sign, reboot | signing handlers of `core/device.rs` | share vs. write order, cached shares, eviction, unreadable slots | no nonce signs for two sessions; a share leaves only after its nonces are behind the index |
| Signing round (`core/coordinator.rs`, `coord_nonces.rs`, `nonce_stream.rs`, `device.rs`) | nonce cache, active sessions, requests sent, shares received; device prompt and slots | open streams, start, request, share, cancel | two channels per device | repeated requests, late or stale messages, unplugging, other hosts | active sessions never share nonces; a finished session has every share; it finishes |
| Key generation (`core/coordinator.rs`, `core/device/keygen.rs`, `firmware/src/lib.rs`, `store.rs`) | pending keygens by phase; device phases, staged share, share record, names | begin, certify, check, ack, finalize, cancel, preview and set name | two channels per device, flash | ack vs. persist, answers out of phase, Cancel between steps, lost Finalize | a key is confirmed by every member; a stored share is of a finished key |
| Consent and event loop (`firmware/src/main.rs`, `lib.rs`) | parked prompt and page, running flow, screen, grants, pages seen | request, page, digit, flow keys, Cancel, refusal | core messages in, answers out | three variables that must agree about one screen | a digit confirms what was read; words are shown only after their own consent |
| Share store (`firmware/src/store.rs`) | one record on flash, staged mutations in RAM | stage, persist, load | A/B slot below, session above | a second share next to one that was refused; a refused write that leaves the record unreadable | nothing is said of a share that is not stored |
| Restoration, device (`core/device/restoration.rs`, `firmware/src/lib.rs`) | typed and saved backups, the shares of the signer, its prompt | load, save, request, consolidate, cancel, power cut | share store, consent | consolidation vs. persist; answers after a Cancel | a share that is held is stored or staged |
| Restoration, coordinator (`core/coordinator/restoration.rs`, `keys.rs`) | known keys and recorded shares, restorations, pending and requested consolidations | start, add, save, recover, finish, delete | two channels per device | answers for a restoration or key that is gone; shares arriving twice or of another key | every share it counts on was stored |
| Word entry (`firmware/src/wordentry.rs`) | stage, share index, words, cursor, prefix, letters and their page | a key | consent, display | letters kept next to the prefix; going back and in again | every word can be typed; no accepted word is lost |
| Quiz (`firmware/src/quiz.rs`) | drawn order, question, options | a key | consent, entropy | a share that holds a word twice | a pass is as many different right answers |
| Keypad (`hal/src/keypad.rs`) | counts of a window of scans | scan, verdict | event loop | shuffled rows, bounces, contacts made up by others | a reported key was held |
| Wire framing (`hal/src/comms.rs`), USB (`hal/src/usb.rs`) | link state, reassembly buffer; endpoints | poll, unlink; configuration, reset | everything above | cut and joined frames, desync, a coordinator that dies | what is delivered was sent; the link comes up again |
| Outbox, announcement (`firmware/src/lib.rs`, `main.rs`) | encoded frames, the reply owed | push, drain, announce | framing | an answer of several frames that fits in part | an answer is read from its beginning, without gaps |
| Upgrade (`firmware/src/upgrade.rs`, `hal/src/psram.rs`) | stager state, staged bytes, carry | admit, feed, verify | PSRAM, wire | odd packet sizes, a second offer, bytes after the end | the last ack means the announced image is staged |
| Flash driver (`hal/src/flash.rs`) | SR, CR, the operation the array works on | erase, program | A/B slots, identity | errors latched, a busy timeout with a late completion | operations never overlap; one failure does not wedge it |
| Identity (`hal/src/identity.rs`) | one record, written once | load or create | flash driver, boot | power cut at the first write, decay | never a second key, never half a key |
| Panic handler, reset counters (`hal/src/panic.rs`) | backup registers, re-entry depth | bump, clear, act | boot, event loop | cleared too early, entered again | a reset loop ends in DFU |
| Drawing, heap, callgate, transactions, derivation, macros | see `PROJECT.json` | | | pure output, pure computation or hardware | |

How they meet: the event loop polls USB, hands frames to the session (`lib.rs`), which
calls the vendored signer (`core`), persists what the signer staged, and queues answers;
a message that needs a human becomes a prompt, which `main.rs` parks until its digit is
pressed. The signer and the store both sit on A/B slots.

`PROJECT.json` lists every component with its status and every hazard with its line and
the property that would catch it; a hazard without one says why.

## 2. Modules

```
AbFormat  (what a pair of copies holds, and what one try_write may leave)
  |-- AbSlot        try_write one flash operation at a time   => implements AbRegister
  |-- NonceSlots    the device's nonce slots over AbFormat    => implements NonceBook
  '-- Keygen        key generation, share record over AbFormat
NonceSegments (the arithmetic of a cached stream)
  '-- Signing       coordinator, devices, channels            => implements NonceBook
Consent             screen, prompts, flows, grants
Keypad, WordEntry, Quiz
  '-- Glass         what a window of the pad means to an entry or a quiz
Framing (the Link) -- Wire (endpoints, port)
  |-- DeviceLink    the session loop and its coordinator
  |-- Upgrade       the upgrade listener and its driver
  '-- Comms         both on one wire, chosen at boot
FlashDriver -- Identity -- Boot    driver, key record, bring-up and panics
ShareHolder         the shares of a device
  '-- Restoration   a coordinator that restores keys from several of them
*Proofs             theorems and proofs about the module they are named after
                    (DeviceProofs: about Boot and about Comms)
MC*                 instances for TLC
```

### AbFormat, AbSlot, AbRegister
A copy is `Erased`, `Partial(i)` (index word programmed, body not decodable) or
`Whole(i, v)`. `Current`, `AbRead`, `FirstCopy`, `NextIndex` are
`current_slot_and_index`, `read` and the head of `try_write`; an erased sector's index
reads as `EmptyIndex` (u32::MAX), and slot 0 wins ties as in the code. In `AbSlot` one
action is one flash operation (`erase`, `index`, `body`, for each copy); `Refused` stops
at any of them and leaves that copy as it was or as it would be; `PowerCut` stops without
an outcome. `AbFormat!WriteResults(slots, v)` is the same write as one step: every pair it
may leave with the outcome its caller sees. `NonceSlots` and `Keygen` use it, and
`AbSlot`'s property `WritesAreAtomicToTheCaller` (with its proof) says that the
operation-level write implements `AbRegister`, whose one action is such a step.
Abstracted: bytes and bincode; a body is decodable only once complete.

### NonceSlots
`flash` is the A/B pair of each slot; `last_used` the LRU counter in RAM. A nonce is the
pair of the seed the slot was initialised with and its index: the ratchet material stored
beside the index is a function of both. `OpenNonceStreams` accepts the message and
`ServeExisting`/`ServeNew` serve one stream each (the code's loop: existing streams first,
then new ones, no more than there are slots), so that a fault falls between two streams of
one message. `RequestSign` is the check and the prompt, `SignAck` the whole
`sign_guaranteeing_nonces_destroyed`: replay from the cache or derive, advance, write, read
back, and only then emit. `Reboot` loses RAM. Ghosts: `emitted` (which nonce signed for
which session) and `offer` (the segment last sent).

### NonceBook
What a device promises of its nonces, with neither flash nor coordinator in it: a page for
each seed still kept (how far its stream is used and for which session last), the seeds ever
drawn, and the shares that have left. Pages are given up and begun (`Turn`), move past the nonces they are signed
with (`Sign`, with the shares or without), and give the same shares out again (`Release`).
`NonceSlots` maps each slot that reads to a page (`Pages`), so a write that stops half-way
is a page that turned, moved or stayed; `Signing` maps the slots of all its devices, a seed
being the device and its number (`PagesOf`). Both have the property `NoncesAreBooked`: what
`Signing` takes of a device whose flash works is no more than `NonceSlots` keeps to when it
does not. Whoever keeps the book signs no two sessions with one nonce (`BooksForbidReuse`),
so `nonce_slots` checks the book and `signing` that nothing is reused.

### NonceSegments, Signing
`NonceSegments` holds `delete_up_to`, `signing_req_sub_segment` and `_extend` of
`nonce_stream.rs`. `Signing` is the coordinator's cache and sessions, each device's slots
and prompt, and both channels. The device's flash always works here, since `NonceSlots`
covers its faults; which stream a full device gives up is left open.
`CancelAll` is `delete_key`, which closes every session of the key: `Consumed` deletes, of
each stream, what the closed sessions had sent. `Unplug` empties both channels and the
prompt. `UseElsewhere` is another coordinator that makes the device give up a stream.
`LateShare` is the `.expect` at `coordinator.rs:877`: the model records a panic, and the
process comes back with the state its mutations rebuild.

### Keygen
`kg` and `got` are the coordinator's `KeyGenState` by phase with the devices that have
answered; `dev` is each device: tmp keygens, parked prompt, shares in RAM, staged
mutations, share record (an `AbFormat` pair), previewed and stored name. `Run` is
`Session::run`: perform the action, persist what is staged, commit the name, then queue
the sends. A write has every result `WriteResults` allows when `FlashFaults` is on.
`Dropped` is the path of `recv_device_message` that has taken the entry out of the map
before finding that the answer does not fit.

### Consent
`parked` is the prompt waiting in `main.rs` with its page, `flow` is `glass` (which flow a
key goes to), `shown` the frame on the panel, and `reveal`, `entry`, `check`,
`recordPending`, `seenPages` the grants of the session in `lib.rs`. One action per message
or key. Ghosts: `read` and `looked` (pages that were on the panel), `agreed`, `sent`.
What a word, a question or a typed letter is does not matter to it.

### Keypad, WordEntry, Quiz, Glass
`Keypad` follows the pad contact by contact. A finger closes and opens contacts between
any two readings; `ReadRow` reads one row that this scan has not read yet, and what it
sees is what the matrix joins to that row (`Low`: the columns reachable through closed
contacts, the fingers' own and the ones they make up). `Push` is `Debounce::push`, and
`Verdict` is decided over a full window. The ghosts `touched` and `held` say what a finger really held.
`WordEntry` has one action per branch of `index_key` and `word_key`; words are sequences
of letters and `WithPrefix` and `NextLetters` are the two lookups of the vendored word
list. Whether a complete share has the right checksum is a choice. `Quiz` draws an order
(`draw_order` always puts the last word in it) and three options per question. `Glass`
composes them: a prompt reads the pad; an entry and a quiz take the keys it may report,
each in the way of `entry_step` and `check_step`; two contacts, or no pad, take the secret off the glass.
Which flow may begin when is `Consent`'s.

### Framing, Wire, DeviceLink, Upgrade, Comms
A byte is its place in a frame, `<<f, i>>`, so that a decoder can be told what it
would find at any cut. `Poll` is `Link::poll` with `drain`: the gate that scans for the
magic pattern, whole frames in order, the rest held, or a desync that unlinks; bytes
that begin no frame may be misread in any way a decoder could. `Wire` is the endpoints
(packets of any length up to `PacketSize`; writes that are lost before configuration and
cut short while nobody reads) and the coordinator's port, which may close in the middle
of a frame. In `DeviceLink` one `Iteration` is one turn of the loop of `main.rs`: poll,
hand over, collect answers, announce on the edge, write. `Upgrade` is the stager, byte by
byte through its carry, with the driver of `hostcheck`: it offers an image once every
reply is drained, and another one over the same link only after a refusal that came in
place of a later ack (`staging_leg`; step "refused"). A driver whose stream goes unanswered
before that gives up for good ("failed"), until the port is opened again. `Comms` boots
into one or the other.

### FlashDriver, Identity, Boot
`FlashDriver` is a call as the registers see it: `Begin` (unlock), `Prologue` (clear SR),
`Settle` (BSY), `Start`, `WaitDone`, with `SpinOut` the timeout that gives the call up
while the array works on, and `Complete`, `FailOp` the array. `Identity` is
`load_or_create` over it: classify, draw, erase, body, commit word, read back. `Boot` adds
bring-up, the loop's stores and its first packet, the panic handler one register at a
time, resets and power cuts, and a record that loses a doubleword while the device is off.
`AbSlot` keeps the simpler flash whose operations end with their call; late completion
is followed here.

### ShareHolder, Restoration
`ShareHolder` is every device: what its flash records, what the signer holds in RAM, what
is staged, the backups typed in and saved, the prompt. `Run` is `Session::run` again, here
with what a refused save leaves. `Restoration` is the coordinator over it: an answer stays
in `fromDevice` until the application acts on it or ignores it, in any order. A share is
its key and its index; `Recovered` says when shares determine a key.

## 3. Runs

| Run | Instance | What it asks |
|---|---|---|
| `ab_slot` | 3 values, indexes to 4 | reads are never stale; the write is one step to its caller |
| `nonce_slots` | 2 slots, 3 streams, 2 sessions of 1 and 2 items, faults anywhere, 3 seeds | the slots implement `NonceBook`, so no nonce signs for two sessions; none is offered after it signed; a stream is not stored twice |
| `signing` | 1 device, 2 streams, 2 sessions of 1 and 2 items, 2 messages per channel, 1 unplug, cancel of one or all | cache, sessions, slots and shares stay consistent; no nonce signs for two sessions |
| `signing_devices` | 2 devices, 1 session, 1 unplug each, declines, cancel, another host | a finished session is unanimous, and an open one finishes |
| `signing_late_share` | the smallest instance | an assertion of the coordinator fails (see 6) |
| `keygen` | 2 devices, one keygen of both and one of the first alone, faults, names, cancel, 1 unplug each | what is kept, stored, said and named follows consent |
| `keygen_completes` | 3 devices, no faults | a keygen ends with all shares on flash |
| `consent` | 2 reveals, an entry, a quiz and a plain prompt of 2 pages, backups of 2 pages | digits follow pages, recorded backups were seen, secrets are attended, grants consented, Cancel ends typing |
| `comms` | packets of 4 bytes, a buffer of 4, an answer of three frames whose second is over it, a frame over it, 5 offers, 1 restart | what is delivered was sent, answers have no gaps, acks carry the verdict, the link comes up, an image is staged |
| `device` | records of 3 doublewords, 2 faults, 1 decay, threshold 2, 3 resets | one identity for ever, a cut first write can be repeated, panics add up, the driver is not wedged |
| `restoration` | 2 devices, 2 keys, 1 restoration, threshold 2, 1 refused save, 1 power cut, 2 messages on the way | shares held are stored or staged, shares counted on were stored, consolidations are of known keys |
| `glass` | a 2 by 2 pad with windows of 3 scans; 6 words, 2 letters a page, shares of 3 words; a quiz of 3 positions over 4 words of which two are equal | no key is made up, a held key is reported, every word can be typed and none is lost, a pass is earned |

Why these bounds are enough. *A/B slot*: the code looks only at which index is larger, so
four writes after the first give every order of the two copies, every interruption of a
rewrite and of a rewrite after an interruption, and `EmptyIndex` small makes the limit
happen. *Nonces*: reuse needs two sessions on one seed; the second session takes two
nonces so that ranges overlap by part; two slots let a stream live behind an unreadable
one, a third stream makes eviction happen, and the third seed lets a stream come back
after it was given up. *Signing*: a panic or reuse needs at most two sessions and one
device, since devices share no state but the session; the two-device run has what does
involve several devices. *Keygen*: the two keygens overlap in one device, which is what
lets a share, a name or an answer of one reach the other and an older share return; three
devices make each phase collective where completion is asked. *Consent*: two pages tell
the last page from the one before it; two reveals are needed for the pages of one to count
for another, and each kind of flow is there to cover each other kind.
*Comms*: a packet is shorter than two frames and longer than one, so that packets cut
frames and join them; the buffer holds the longest legal frame and no more; the offers
are one right image, and one that is wrong in each thing that is checked (its bytes, its
alignment, its declared length, its format); one restart is a coordinator that dies in
the middle of a frame or a bus reset. *Device*: two doublewords of body and the commit
word are the shortest record with a cut inside the body and one before the commit; two
faults let one operation fail or hang and the next one meet what it left; three resets
are a threshold of panics and a power cut. *Restoration*: one device holds the recorded
share of a known key and the other a share of another key, and the paper backup that is
missing; this is the least in which a share can be counted for the wrong key, and in
which a cut or a refusal falls between saying and storing. *Glass*: two rows and two
columns are the least matrix in which three contacts make up a fourth, and three scans
the code's window; the word list has a word that begins another (as ACT and ACTION), a
prefix that only one word continues, and more letters than fit a page; the share repeats a word.

The bounds on counters are `MaxSeeds`, `MaxServed`, `MaxInFlight`, `MaxResets`,
`MaxRestarts`, `Unread`, `MaxFaults`, `MaxRots`, `MaxCuts` (and `MaxNonce`, `CounterMax`
and `MaxIndex`, which are real ends made small). `CHECK_DEADLOCK FALSE` is given where the
system may rest: nobody has to ask for anything more.

## 4. Fairness

* `Signing!FairSpec`: a message in a channel is eventually handled, since both sides poll
  in a loop. The application asks again for a share it does not have, as it does when a
  device is connected again, and a user who is asked again and again confirms at last;
  both are strongly fair, because a pulled cable (`MaxResets` times), a declined prompt or
  another session's prompt can disable them in between. Nothing is assumed of Cancel,
  Decline or the other host: `Completes` holds with them, up to a session that is
  cancelled or whose nonces a device has given up.
* `Keygen!FairSpec`: messages are handled and the user confirms. The completion run pulls
  no cable: nothing in the code resumes a keygen whose device lost its RAM (see 6).
* `Consent!FairSpec`: only `EndGone` is fair. The loop of `main.rs` runs whether or not a
  key is pressed; no fairness is assumed of the human.
* `Comms!Fairness`: the session loop and the listener read their endpoint for as long as
  they run; the coordinator repeats its magic bytes, reads what comes and writes the
  chunks it is allowed to. Nothing makes a port open, an offer be made or a cable stay.
* `Boot!Spec`: the processor goes on (`Boot`, `Handle`, `Driver`), the array finishes an
  operation it works on unless it fails, and the loop stores again and again. Packets,
  panics and power cuts are not fair.
* `Glass!Fairness`: while a prompt waits, `ask` reads the pad again. Nothing is assumed of
  fingers: `HeldIsReported` speaks of a key that is in the end held and no other.

## 5. Proofs

Everything here holds for every value of the constants that satisfies the named
assumptions, and rests on no unproved statement.

* `AbSlotProofs` begins with lemmas about pairs of copies (`ReadAfterWrite`: a write that
  completes is what is read, and one that stops leaves a pair that reads as the old value,
  the new one or nothing), on which `NonceSlotsProofs` and `KeygenProofs` rest. Its
  theorems are `WritesAreTyped`, `ReadsAreNeverStale`, `TiesAgree`, `CommitsAreRead`,
  `IndexIsMonotone`, and the refinement `ImplementsRegister`. The inductive invariant says,
  for each operation in progress, which of the two copies is still the one that `before`
  held and that the copy being written has the index of the job; without it a tie could
  hide an older value.
* `NonceSlotsProofs`: `NoncesSignOnce`, the properties it rests on, `OffersStayUnspent` and
  `StreamsNeverDouble`. That no nonce signs twice is not inductive. `IInv` adds that a
  slot reads as an index past every nonce of its seed that has signed (`SpentIsBehind`),
  that shares kept in a slot are of the session whose shares its nonces have signed
  (`CacheIsOneSession`), that no two slots read as one seed (`SeedsAreDistinct`), and that
  a seed is new when it is drawn (`SeedsWereDrawn`). It speaks only of what slots read
  as, never of both copies: by `ReadAfterWrite`, a write leaves a slot
  that reads as before, as the value written, or as nothing, and the read-back in
  `SignAck` decides between them before a share leaves.

  `SlotsKeepTheBook` is the refinement of `NonceBook`, from the same invariant. A write reads
  as before or as nothing (`ForgettingTurns`), as a new slot (`InitialisingTurns`: its seed
  was never drawn, its page stands at the start), or as a signed one (`SigningSigns`: past
  nonces at or ahead of the old index). That exactly one page changes needs seeds that are
  distinct. Shares leave by `Sign` with that write, or, from the cache, by `Release`.
  `BooksForbidReuse` says what the book is for, from its own steps alone: what a seed has
  spent is behind its page, and what its page last signed is of one session (`BookInv`).
* `SigningProofs`: `NoncesSignOneSession`, `SessionsAreDisjoint`, `FinishedWasSigned`, with
  other hosts, unplugged devices and every order of messages allowed. A device trusts the
  index it is asked for, so the invariant is about its slots alone: seeds of slots differ,
  and every nonce that has signed is behind the slot of its seed, if there still is one.
  To carry it through a replay, what a slot caches must have been signed over the nonces
  its session was assigned (`CachedIsSigned`); to carry a share to the coordinator, every
  share on the wire must have been signed (`WireInv`); and the books of a session under way
  need its stream to stay known while segments are extended and deleted
  (`AssignedAreKnown`). What goes on the wire is described by sets (`Requests`, `Answers`)
  that only grow, so that a step has to speak only of the message it adds.

  `ConsumptionNeverFails`, `LostSharesAreReplayed` and `CachedNoncesAreGenuine` are false
  as soon as a device gives up a stream, so they have the hypothesis `OneHost`: no other
  host, and a slot for every stream, the instance `signing` runs. (`NoneIsNothing` says
  that `None` is no segment, no slot and no signing state, which the logic of untyped values leaves open.)
  None of the three is inductive. `HostInv` says of each stream what its messages under
  way will still do. An entry of the cache starts where it likes and reaches from the
  slot's index to at most a batch past it, with the slot's seed (`CacheFollows`); every
  segment in an answer is one batch from an index the slot has had, ends no earlier than
  the cache, and the answers of one channel come with growing indexes (`AnswersFollow`),
  so that each extends the cache without a gap; a claim under way that asks for nothing
  cannot be out of date by more than the slot has moved (`ClaimsFollow`); nonces assigned
  are in the cache and never past its end (`AssignedAreCached`); and behind a request for
  an open session none is asked of the same stream (`AskedInOrder`), which is what keeps
  its cached shares in the slot.

  `DevicesKeepTheBook` is the refinement of `NonceBook`, with other hosts allowed. A device
  changes its slots or signs in three steps only. `RecvOpen` begins them with fresh seeds
  (`OpeningTurns`), `UseElsewhere` loses them (`LosingTurns`), and a confirmed request
  (`SignsOnce`) is either over shares that were signed already, which leaves the book as it is
  (`CachedIsSigned`), or moves one page (`SigningSigns`). The one addition to `IInv` is that a
  session selects at least one nonce on each device (`NoncesAreSelected`), so that a signed
  page does move; a page stays the same while sessions start since they keep what they
  selected (`PageStays`).
* `KeygenProofs`: `FinishedKeysAreConfirmed`, `NoShareOfAnUnfinishedKey`,
  `ResetBringsTheNewestShare`, `NamesNeedApproval` and the action property
  `SavedBeforeSaid`, with overlapping keygens, answers out of phase, faults at every write and
  unplugged devices. An ack on the wire is of a keygen its device's user agreed to, a
  Finalize on the wire of a finished key (`WireInv`: channels are sequences over `Requests`
  and `Answers`, which only grow); a device (`Sound`) waits for a Finalize only after that
  agreement, has shares of finished keys alone in RAM, staged and on flash, and, while
  something is staged, staged the newest. A save that is refused keeps what is staged, so
  the flash may be behind the RAM only then; `ReadAfterWrite` gives what it reads as.
* `ConsentProofs`: `OneQuestion`, `SecretsStayAttended`, `GrantsNeedConsent`,
  `DigitsFollowPages`, `RecordedBackupsWereSeen`. The strengthening: the
  parked page and all pages before it were read; a grant is of an agreed ceremony of its
  kind; pages in `seenPages` were on the panel under the grant that is open now, and the
  question "did you write it down" exists only for a backup whose pages were all seen.
* `DeviceProofs`, of `Boot`: `ArrayIsNeverOverrun`, `PanicsLeadToDfu`, `OneIdentityForever` and
  `CutWritesAreWrittenAgain`. A second identity needs a boot that finds the record vacant.
  `OneIdentity`, carried by `Calm`, says that once a secret was returned, the record is that secret's body and commit word but for at most
  one decayed doubleword, that no operation under way or still to come touches its page,
  and that a call under way for the identity belongs to a secret that was not returned
  yet; `classify` then never answers "vacant", since one doubleword cannot be both the
  commit word and a part of the body. It needs `MaxRots <= 1`: two decays do make a
  record vacant. `CutWritesAreWrittenAgain` (`TornBodyIsVacant`) has no such hypothesis,
  since it speaks of records that have not decayed. `TornInv` follows the three writes
  operation by operation: `AtWork(n)` says that n operations of the write are done, that
  the record is what they make it (`Holds`), and that an operation that ended otherwise has
  left an error latched, so that no next one starts; the commit word is therefore started
  on a whole body only. An operation that was given up may still complete, so `SafeOp` says
  of any operation in the array that wherever it ends, a commit word stands on a whole body.

  Of `Comms`: `DeliveryInOrder`, `NoGapIsHeard` and `AcksAreTheVerdict`. What `Poll` hands over is a recursion
  over bytes; it is written as a recursive function, so that it exists is a lemma
  (`DrainingExists`), and what holds of the bytes behind a place carries over to the place
  before it (`DrainedFromTakes`), in steps of one byte (`UpTo`). The upshot is
  `Takes`: whatever the bytes are, the frames handed over begin at growing places
  of the buffer, what is held is its end, behind all of them. So it is enough that the
  *first* bytes of messages stand on the wire in the order of `asked`, behind those that were
  delivered (`InTurn`): a message that was cut is one that stands there for ever less. A
  message that is handed over was sent, even when what followed it was misread. Answers
  are `Unbroken` (a first part first, no part without the one before it) where they are
  made, queued and heard; what is on the way to the coordinator need not begin with a first part, for the port may
  have been lost in the middle of an answer, but then nothing reads it before the magic
  reply (`NoGaps`).

  `AcksAreTheVerdict` (`AcksCarryTheVerdict`) has to know of every byte that may be left
  somewhere when an image is offered. `StagerInv` says it for each step of the driver.
  *Between* two conversations the bytes that come may be anything cut anywhere, but when
  the driver is linked, or a reply that would link it is on its way, the device is not
  streaming and only bytes of the magic pattern are coming (`AtRest`). *An offer* and the
  order to enter are then read in their order or not at all: what is coming is the rest of
  the two (`ToOffer`, `ToEnter`), or stands behind a cut magic frame and will unlink the
  device (`Doomed`), or is not listened to (`Deaf`). *Chunks* are either not heard, and
  nothing answers (`Unheard`), or taken: bytes received and bytes coming make up the bytes
  sent, and acks counted and acks under way are those the device owes for what it has
  received, the last one only to a verified image (`Taking`). A port that is lost at any
  of these cuts what is on the wire and leaves `Between` (`CutIsBetween`).
* `RestorationProofs`: `RefusedSavesAreKept`, `SharesCountedOnWereStored`,
  `NoConsolidationOfUnknownKeys`. What the coordinator counts on is traced back through
  every place a claim about a share may wait: `HolderInv` (a share held is on flash, was,
  or is staged; what flash has it had; an answer under way that speaks of a stored share is
  of one that was stored), `CollectedAreBacked` (the same for shares collected in a
  restoration), `SavesAreBackups`, `BooksAreBacked`.
* `GlassProofs`: `NoKeyIsMadeUp`, `WordsAreTypable`, `NoWordIsLost`, `PassesAreEarned`.
  *Pad*: a column that reads low without a finger on it in that row does so next to a
  column with one (`GhostsHaveCompany`), so what a scan saw without a finger it did not
  see alone (`SeenOrSeveral`); a window without a scan of several contacts then counts a
  key in every scan only if it was held in every one of them (`CountedWereHeld`). The proof is
  for every matrix and every window. *Entry*: `EntryInv` says that in the word stage the
  letters are those that follow the prefix, some word begins with it, and the page is
  one there is; that an unpicked letter is on a page below `Pages` is arithmetic
  (`LetterIsOnAPage`). *Quiz*: answers are the first questions of the order,
  each with the one right option; the order is injective.

The inductive invariants `HostInv` of `Signing`, `IInv` of `Keygen`, `TornInv` of `Boot`
and `LinkInv` of `Comms` (with two restarts) were checked by TLC on the instances of the
runs before they were proved, and so was `NoncesAreBooked` of `Signing` (984,241 states); `UpgradeInv` of `Comms` with two restarts and a buffer of
eight bytes (76,266 states), since some of what may be left in the buffer is longer than
the four of the run.

Only model-checked: all liveness (`Completes`,
`KeygenCompletes`, `CancelEndsTyping`, `LinkComesUp`, `UpgradeCompletes`, `NotWedged`,
`HeldIsReported`: out of the prover's reach, as is ENABLED). Proved without a run that lists them:
`WritesAreTyped`, `TypeCorrect` of `NonceSlots` and `Consent`, `TiesAgree`, `CommitsAreRead`, `IndexIsMonotone`,
`SpentNoncesAreBehind`, `CachesAreOneSession`, `SeedsStayDistinct`, `NoncesSignOnce`,
`BooksForbidReuse`, `DevicesKeepTheBook`, `OneQuestion` and `ArrayIsNeverOverrun`.

## 6. What the models say about the code

One run shows it directly. `signing_late_share`: a repeated request confirmed twice makes
the coordinator take a finished session with `.expect("inavariant")`
(`core/coordinator.rs:877`).

The following were met with the same models and have no run of their own; each line says
how to see it.

* *The announcement precedes the magic reply.* `main.rs:2534` says "Announce on the LINK
  EDGE, after the magic reply", but `Link::poll` consumes the first magic without handing
  it over, so on the edge no reply is owed yet and `Announce` is the first thing written
  (`main.rs:2552`). A coordinator that discards what precedes the reply
  (`frostsnap_comms/src/lib.rs:620`) does not see it, and it is not repeated while the
  link stays up. See it: `AnnouncesAreHeard` as an INVARIANT of `Comms.cfg`. The
  stub the harness runs in place of `main.rs` writes `MAGIC_REPLY` in front of the
  announcement (`firmware/examples/stub.rs:1886`), so its runs do not show it.
* *A consumed stream that shrank.* A stream that restarts at 0 after another host used the
  device replaces nonces of an active session; closing it fails the debug assertion of
  `delete_up_to` (a release build moves the segment to an index the device has not sent).
  See it: `ConsumptionIsDefined` as the only INVARIANT of `Signing.cfg` with `OtherHosts = TRUE`,
  `Sessions = {s1, s2, s3}`, `Items <- OneEach`, `Batch = 1` and `MaxInFlight = 1`.
* *NotCommitted.* Its comment says the previous value is readable; a refusal after the
  index word leaves the torn copy the newest. See it: `NotCommittedKeepsPrevious` as an
  INVARIANT of `AbSlot.cfg`.
* *A share is staged at Finalize, not at the ack*, so the coordinator can finish a key of
  which a device has no share. See it: `FinishedSharesExist` as an INVARIANT of `Keygen.cfg` with
  `Devices = {a}`, `Keygens = {k1}`, `Members <- Everyone`, `MaxResets = 1` and the faults, names and Cancel
  switched off.
* *A prompt parked before a Cancel* can still be confirmed, and its backup reported as
  recorded. See it: `CancelledAcksNothing` as a PROPERTY of `Consent.cfg` with
  `Ceremonies = {r1}` and `BackupPages = 3`.
* *A key that is held is pressed again and again.* Nothing waits for a release: the next
  window reports it as a new `Down`. "One keypress, as the byte `keypad::Event::Down`
  reports" (`wordentry.rs:332`, `quiz.rs:328`) and "a 67-page transaction is 67 human
  presses" (`main.rs:2348`) take it for one; a press longer than a window may type a
  letter twice, turn several pages, or answer the question after the one that was read.
  `HeldIsReported` states what the code does.
* *Acks do not say which image they are for.* A driver that gives up on a first chunk
  nobody answered, and offers again over the same link, leaves bytes of that chunk in the
  device's reassembly buffer; what they begin may unlink the device in the middle of the
  next conversation, and an ack may then be counted for the wrong offer. `hostcheck` stops
  there, and `AcksCarryTheVerdict` depends on it. See it: `AcksCarryTheVerdict` as the only
  INVARIANT of `Comms.cfg` with `FrameLimit = 8`, `MaxRestarts = 3`, and a `GiveUp` that
  ends in "refused" whatever was acked.
* Read rather than run: a restoration that is cancelled while a save is under way leaves
  `tmp_waiting_save` behind, and the late `PhysicalSaved` makes a mutation that fails its
  debug assertion (`core/coordinator/restoration.rs:858`); after a consolidation the
  device still lists the replaced share until it boots; `finish_restoring` records one of
  two shares of one device; `delete_share` leaves a consolidation pending; the comment at
  `hal/src/comms.rs:457` says a bus reset must unlink, which `main.rs` does not do; a lost
  first chunk of an upgrade stalls the stream rather than ending in `Refuse::Digest` as
  `upgrade.rs:728` has it; a device that is past the panic threshold never clears its counter
  again, however healthy its loop.

## 7. Assumptions

* Cryptography is ideal: certificates, signatures and hashes are who made them and over
  what. Seeds are fresh. Channels of `Signing`, `Keygen` and `Restoration` are reliable and
  ordered until the cable is pulled; `DeviceLink` is where bytes are cut and lost.
* In `AbSlot` the flash performs an operation, reports a refusal, or loses power;
  `FlashDriver` has the operation that completes after it was given up.
* `Signing` draws from a finite set of stream ids, as the code does (32 random bytes).
* One coordinator process; its own persistence (an application database) is external, and
  so is its choice of what to act on and when, except that it acts on one answer at a time.
* A port is opened again only after the bytes in flight were read, and the driver of an
  upgrade drains the replies that are pending, as `hostcheck` does. The frames that driver
  sends fit the reassembly buffer (a few dozen bytes of 4,096). No byte of the magic
  pattern is a variant tag. PSRAM is reliable once its self-test passed.
* A paper backup with the right image has the right checksum; the threshold a restoration
  is told is right or missing, and is one for all keys. The list of held shares is
  answered share by share.
* The quiz has three different words to draw from: a share has two and the list more. A
  draw that gives up is a quiz that does not begin.

## 8. Not modelled

* *Callgate*, *heap, allocator, singletons*, *reset vector and clocks*: hardware setup and
  the board's bootloader, whose code is not here.
* *Display and screens*: pure output; `Consent` keeps which screen is shown, the layout of
  a page is not a property of order.
* *Entropy*: that it fails closed is in `Boot`; whether its bits are random is statistics.
* *USB control requests and endpoint registers*: `Wire` takes what `poll` and `write` hand
  over. The control machine answers a host and keeps no state that the rest reads but
  whether it is configured.
* *Transactions, derivation, encodings, checksums, polynomials*: pure computation, an
  assumption of the models.
* *Helper macros, log adapters, host checks*: no protocol state; of `hostcheck` only the
  driver of an upgrade is used.

What would come next: the control endpoint of the USB device, and the late completion of `FlashDriver` under `AbSlot`.
