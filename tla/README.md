# KernelNetworkDebugger in TLA+

TLA+ models of the kernel driver and of the usermode app of KernelNetworkDebugger
(`knetdbg`), the TLC configurations that check them on small instances, and TLAPS
proofs of what must hold for every size and every number of CPUs. `PROJECT.json`
holds the machine-readable index: components, runs, mutants, the line map,
findings, hazards and theorems. Paths below are relative to `src/`.

## 1. The system

A WFP callout driver watches TCP flows and writes records into a ring in
non-paged pool. The app maps that ring, polls it once per frame of its UI and
builds a list of connections with their payload. A second source of records is a
TLS-intercepting proxy inside the app, which listens on loopback and pushes
records of the same format into the same model. Views on a flow's payload parse
HTTP and decrypt recorded TLS 1.2 from a key log.

| component | state | operations | talks to |
|---|---|---|---|
| record ring (`driver/ring.c`, `common/knd_protocol.h`, `KndClient::poll`) | private `WritePos`, `NextSequence`, spin lock; shared `writePos`, `readPos`, counters, data area | `KndRingWrite`, `poll`, `KndRingCreate` | callbacks write it on any CPU, the app reads it, no lock between the two |
| driver lifecycle (`driver/driver.c`, `wfp.c`, `ring.c`, `ioctl.c`) | `g_Knd`, device, symbolic link, pool, MDL, WFP engine, callouts, the one user mapping | `DriverEntry`, `KndUnload`, `KndWfpStart/Stop`, MAP/UNMAP/CLEANUP | I/O manager, WFP, consumer processes |
| capture callbacks (`driver/wfp.c`) | `CaptureActive`, `activeFlows`, contexts attached to flows | `KndClassifyFlow`, `KndClassifyStream`, `KndFlowDelete`, `KndClassifyConnectRedirect` | WFP calls them on any CPU; they call `KndRingWrite` |
| IOCTL dispatch (`driver/ioctl.c`) | the switches in the device context | MAP/UNMAP_RING, START/STOP_CAPTURE, SET_REDIRECT, PHYS_READ/WRITE, GET_STATS | `KndClient` |
| connection model (`app/src/app_model.cpp`) | flows by id, packet list, totals, caps | `ingest`, `pushPacket`, `clear` | fed by `poll` and by the proxy's `drain` |
| MITM proxy (`app/src/mitm_proxy.cpp`) | `running_`, listener, `conn_threads_`, `queue_` | `start`, `stop`, `drain`, `listenLoop`, `handleConn` | UI thread, listener thread, a thread per connection |
| certificate authority (`app/src/mitm_ca.cpp`) | CA pair on disk, leaf cache | `loadOrCreate`, `certForHost` | proxy threads |
| HTTP parser (`app/src/http_parse.cpp`) | cursor in one captured stream | `HttpParse`, `ParseOne` | inspector, on the UI thread |
| TLS decryption (`app/src/tls_decrypt.cpp`) | key log; record list, sequence number | `addLine`, `ParseRecords`, `FindHandshake`, `DecryptDir` | inspector, on the UI thread |
| UI session (`app/src/ui.cpp`, `main.cpp`, `settings.cpp`) | connection, capture, redirect and system-proxy switches | buttons, startup, exit | everything above |
| service control, system proxy, certificate store (`app/src/knd_service.cpp`, `win_integration.cpp`) | none of their own; the service, two registry values and the root store outlive the app | `LoadDriver`, `UnloadDriver`, `SetSystemProxy`, `InstallCaToRoot` | UI thread, OS |
| key-log DLL and injection | none of their own | wrappers over Win32 | OS |

What is hard here, and what would make each component correct:

* **Ring.** Producers on several CPUs and a consumer in another address space
  share two counters and bytes, and the consumer may die at any instruction, lag,
  or store nonsense into the writable mapping. Correct means: accepted records
  come out whole, once, in order; unread bytes are never overwritten; a store
  never leaves the data area, whatever the consumer did; a producer never waits
  for the consumer.
* **Lifecycle.** Nine acquisitions, each of which may fail; callbacks that are
  still running while the driver stops; a stop loop with a retry cap; two
  consumers and one mapping; flow contexts and filtering-engine objects that
  outlive the calls that made them. Correct means: memory outlives its users, and
  an unloaded driver leaves nothing behind. The code falls short of both (section
  4); what it does keep to is checked and proved.
* **Callbacks and model.** Callbacks of a flow run on different CPUs, each of the
  records of an indication may be dropped alone, payload is cut three times
  (copy limit, chunking, display cap). Correct means: what is shown is what was
  on the wire, or is marked.
* **Proxy.** `stop()` on the UI thread against connections being accepted, set
  up, relayed and ended. Correct means: no thread survives, flows are closed,
  `stop()` returns.
* **Session.** The app's switches are its own copies of state that outlives it: the
  driver's capture and redirect switches, the driver itself, the system proxy, the
  CA's files, the root store. It may be closed or killed between any two steps, the
  driver may be asked to unload while the app holds it open, and connections are
  classified on other CPUs while a switch is half stored. Correct means: what the
  app shows is so, what it set is gone when its listener is, a redirected connection
  still ends at its server, and the certificates minted after any crash verify.
* **Parsers.** They run over streams with holes, again and again while the stream
  grows. Correct means: everything before the first lost byte is understood,
  nothing is invented, positions stay in the buffer, and the parse ends.

`PROJECT.json` lists every such hazard at its line, with the properties that
would catch it.

## 2. Modules

| module | models | state and actions |
|---|---|---|
| `KndRing` | `KndRingWrite` against `poll` | Memory is a function from offsets to cells; a cell says which record wrote it and at which displacement, so a torn or overwritten record is visible. One action per access the other side can observe: `Enter`, `Reserve`/`DropFull`/`DropInconsistent`, `WritePad`, `WriteHeader`, `WriteBody`, `Publish`, `Account` under `lock`; `PollBegin`, `PollHeader`, `PollDeliver`/`PollSkip`/`PollResync`, `PollEnd`; `Restart` (the app dies and is started again); `Scribble` (any store into the mapping, `PHYS_WRITE` included). Variables have the code's names. |
| `RecordQueue` | the promise of the ring | an abstract FIFO of records with a committed read position; `KndRing` implements it under `accepted <- the records of log` |
| `KndRingInv` | - | the inductive invariants `SafeInv` and `RingInv` |
| `DataLemmas` | - | lemmas shared by the proofs: `%` and `\div`, induction over `Nat`, concatenation and prefixes of sequences |
| `KndRingProofs` | - | the ring's memory safety against any consumer; the ring as a FIFO, and that it implements `RecordQueue` |
| `KndDriver` | `DriverEntry`, `KndUnload`, `KndWfpStart/Stop`, the mapping | `held` is the set of resources acquired; `Acquire(r)`/`AcquireFails(r)` walk the code's order, `AddSublayer`, `RegisterCallout` and `Commit` are the WFP transaction, `Unregister*` is the retry loop, `Free*` the tear-down; `objects` is what the filtering engine has, `associated` the stream callouts some live flow carries a context of; `CallbackBegins`/`CallbackReturns` per CPU; `Client(p)` per process. Failure of the ring's creation, of WFP's start and the unload share the code's own paths. |
| `KndDriverProofs` | - | the driver's proofs |
| `KndFlows` | callbacks, capture switch, `KndModel` | the ring is the lossy FIFO that `KndRing` was shown to be; a payload byte is its position in the stream, so loss and reordering show |
| `KndFlowsProofs` | - | the proofs about callbacks and connection model |
| `KndProxy` | `KndMitmProxy` | `UiStep`, `ListenStep`, `HandleConn(k)` are the three kinds of threads; the place in each function is a program counter |
| `KndProxyProofs` | - | the proxy's proofs |
| `KndRedirect` | SET_REDIRECT, `KndClassifyConnectRedirect`, where `handleConn` connects to | the switch is stored in two steps (`SetRedirectPort`, `SetRedirectEnable`) and read in two (`ClassifyConnect`, `ClassifyRewrite`); one connection is followed from `ClientDials` through `Arrive` and `HandleConn` to the connection the proxy opens for it, which is classified again |
| `KndCa` | `KndMitmCa`, `InstallCaToRoot` | two files and a process that dies (`CaDies`); `loadOrCreate` is one action per file operation, each with its failure; `InstallCaToRoot` at any time the UI is up, whether or not the CA is ready. `CaSpec` is the CA by itself, which `KndSession` implements |
| `KndSession` | `main`, the clicks of `ui.cpp`, `settings.cpp`, `knd_service.cpp`, `win_integration.cpp` | extends both: `Start`, `BootCa`, `Attach`, `Exit`/`ExitEnd`, `Crash`; one action per click, but two (`StopProxy`, `StopProxyEnd`) for the Stop button, since `stop()` closes the listener first and returns when every connection thread has ended; beside the UI thread `DriverStep`, `Client`, `Proxy`. `driver = "leaving"` is a driver that was stopped while the app has it open |
| `KndSessionProofs` | - | the session's proofs |
| `HttpParse` | `HttpParse`, `ParseOne` | one action per branch of the parser; the input is chosen in `Init` as a wire stream with at most one hole |
| `HttpParseProofs` | - | its proofs |
| `TlsDecrypt` | `TlsDecryptFlow` and what it calls | key log, record cutting, hello lookup, decryption per direction; input as for `HttpParse` |
| `TlsDecryptProofs` | - | its proofs |
| `MC*` | - | constants of the instances |

Definitions commented `Mutant:` are plausible bugs of the
definition that follows them. Each replaces that definition in one more TLC run,
and its property must then be violated; this shows that the property depends on the
code and is not true of the model by its shape. They are not part of any `Next`.

### Abstractions worth knowing

* 64-bit positions and counters of the ring are natural numbers (they take
  centuries to wrap); `activeFlows` keeps its width (`Wrap`).
* The ring's barriers and the x64 memory order are taken as given: an action is a
  sequentially consistent access. What is checked is the order of accesses the
  code asks for.
* A producer that finds the lock taken spins; it is a disabled action.
* A flow's id does not collide with another's (`KndNextFlowId` against WFP
  handles), and connections of the proxy are named by themselves.
* `poll`'s callback and `ingest` are one step in `KndFlows`: both run in one
  thread and touch nothing the driver sees.
* mbedTLS and WFP are external. Of AES-GCM the model says that a record decrypts
  exactly under its own keys and sequence number, unaltered. Of WFP it says:
  unregistering a callout is refused as busy while a callback of it runs or any
  flow carries a context of it, and contexts go only with their flows, since the
  driver never removes one; objects added in a session that is not dynamic are
  discarded if their transaction is not committed and otherwise stay until
  something deletes them; adding a sublayer whose key exists fails.
* Session: one instance of the app runs at a time, and only it has the device open
  (two consumers are in `KndDriver`). A stopped service always accepts the stop. The
  two registry values of `SetSystemProxy` change together, and a proxy of the user's
  own counts as none. An IOCTL under way is completed before a killed process ends.
  `LoadDriver` may succeed again and again, which covers more than the code does:
  after a first full load `AddSublayer` of `KndDriver` fails until the objects are
  removed by hand or by a reboot.
* Certificate authority: data that `fwrite` accepted reaches the disk (the result of
  `fclose` is not looked at, `mitm_ca.cpp:46`), and a key file that is torn does not
  parse. Leaf serial numbers, which start again in every process, are left out.
* Redirect: IP version and byte order are left out, addresses are loopback or the
  server the client wants; a ClientHello is told from a CONNECT by `proto`.
* Header fields other than `Content-Length` and `Transfer-Encoding` are one
  symbol; bytes that are no TLS header may read as any type with a few lengths.

## 3. Runs

| run | shows | distinct states |
|---|---|---|
| `ring_core` | Two CPUs, three calls with payloads that fit, need a pad, leave a tail to absorb, fill the ring exactly or never fit; the app dies once. All ring properties, `RingInv`, the refinement of `RecordQueue`; every call returns though the app may stop for ever in mid-poll; if it polls on, everything accepted is delivered and handed back. | 86 500 |
| `ring_hostile` | Arbitrary stores into positions and bytes: every producer store stays in bounds. | 374 000 |
| `ring_resync` | violation: see finding 1 | |
| `driver_life` | Two loads, every call failing somewhere, callbacks on two CPUs, flows that outlive the unload, two consumers. | 22 900 |
| `driver_drain` | violation: see finding 3 | |
| `flows` | Two connections, two CPUs, a ring of two records, the capture switch; payload cut, chunked, dropped, capped; a `clear` or a change of the cap in between. | 977 000 |
| `flows_totals` | violation: see finding 4 | |
| `proxy_stop` | Two connections, two starts: quiescence after `stop`, balanced records, `stop` returns. | 763 000 |
| `http_stream` | Up to three messages in six kinds, either side, cut at every position, or with a hole at every position. | 314 000 |
| `tls_stream` | A plain connection, one with an alert between data, one renegotiating; a hole of either length or a cut at every byte of either direction; right, wrong, short, torn and missing secrets. | 1 100 000 |
| `session` | Two runs of the app, ended or killed anywhere (also inside `stop()`), `loadOrCreate` failing anywhere and making two key pairs, the certificate installed at any time, the driver loaded and unloaded, both proxy modes, the port edited, connections classified meanwhile. | 2 130 000 |
| `redirect_loop` | violation: see finding 2 | |

What the properties say, beyond the type invariants:
`RingInv` is the whole inductive invariant, with static promises of its own (unread
bytes intact, numbering dense, counters that agree with the records); `InboxFaithful`,
`EveryCallCounted` and `UnreadUntouched` follow from it and are listed
beside it because they are the ring's promises in the reader's terms, each with a bug of
its own that breaks it. `DrainedBeforeFree` and `ReleasesItsOwn` say what does hold of
unloading: no callback of a callout that could be unregistered meets freed memory, and
the driver releases what it acquired, except for callouts the retry loop gave up on and
objects committed to the filtering engine (section 4). `TotalsWhileOpen` is about
open flows, for the reason in finding 4. `LiveIsTruthful` relates the switch the app
shows to the driver's over reconnects, unloads and restarts; it says nothing of a driver
that records with nobody showing LIVE. `SystemProxyListens` relates the registry to the
listener while the app runs. It leaves out the time inside `stop()`, where the listener
is closed and the registry not yet cleared: that window is in the code and lasts as long
as a connection thread does. `RewriteHasPort` is about the two stores of SET_REDIRECT
against the callback's reads: swapped, a connection is sent to port 0. `UpstreamIsOrigin`
holds however often a connection is redirected. `DecryptedUpToLoss` takes its
precondition from the key log file, not from the secret the code has kept: the last line
with the whole client_random is the right one (a later one that is cut short replaces
it, as the code has it). `ChainTrusted` says that no crash or failed write between the
two files makes a later run mint chains that do not verify, or that are not those the
user installed while the app said "CA ready". The Install button works without that too:
when the key could not be written the certificate can be installed all the same, and the
next start makes another pair; the run goes through such installs, and for them nothing
is promised. `ChainTrusted` also assumes that no start failed
to *read* a pair that was there: `ReadFile` returns an empty text then, `loadOrCreate`
generates a new pair over the old one, and the installed certificate is no longer the
one in use (with a crash in between, not even the pair matches). `misread` marks it.

### Bounds, and why they are enough

* Ring: `DataSize` 32, header 6, alignment 2 keep the code's proportions (the
  header is a multiple of the alignment, and the data area of the alignment). The four request sizes reach every branch of the
  layout: fits, absorbs a tail, pads, exactly full, too big. Three calls lap the
  data area. What does not depend on size is proved for every size (section 5).
  `MaxCalls`, `MaxCrashes`, `MaxScribbles` bound the environment only.
* Driver: one flow callout, one stream callout and the redirect callout stand for
  the five the driver registers (v4 and v6 of the first two): the code registers
  and unregisters them one by one and tells them apart only by which attaches a
  context and which has a flow-delete function. `MaxTries` is 3 for 250. Two loads
  suffice for one to meet what the other left.
* Flows: `CopyMax` 3 and `MaxChunk` 2 make an indication of 4 bytes be cut and
  then split unevenly, one of 3 be split only; `RingCap` 2 drops a record between two
  others, and a cap of 1 is passed inside a chunk and may be raised before the next. One
  indication (`MaxIndications`) and one `clear` or change of the cap (`MaxClears`) are
  all that two flows on two CPUs leave room for; more of them is the matter of the
  proofs. CPUs and flows are symmetric. The run's `VIEW` leaves out what no later step
  reads: the last job of an idle CPU and the header's copy of the capture switch.
* Proxy: two connections are enough for one to be accepted while another is in
  any other place; two starts show that nothing of a run leaks into the next.
* Session: `MaxStarts` 2 is one run that leaves state behind and one that meets it,
  `MaxGens` 2 a pair that is lost, torn or installed and one that replaces it. The
  run's `VIEW` leaves out what no later step and no property reads: the settings file
  after the last start, the app's boxes past its main loop, what the CA leaves behind
  at the very end, and which certificates were installed while the CA was not ready
  (`ChainTrusted` is about the others; the installs themselves are explored). `Ports` are the default port and
  443, which is also a port the driver redirects, so that the guard of
  `KndClassifyConnectRedirect` is decided both ways and the redirect's port, the
  edited port and the listening port can all differ. `redirect_loop`
  needs one start.
* HTTP: `kMaxMessages` 2 below `MaxSent` 3 and `kMaxBody` 2 below the longest body
  reach both caps. Bodies hold line ends, digits and start lines. Chunked messages
  have no, one and two trailers.
* TLS: hole lengths 3 and 4 are those of whole records, so the parser can fall
  back into step behind a hole, and, at other places, out of it. One direction
  has a hole at a time; the directions meet only in the hellos.

### Deadlock

It is checked on `ring_core` and `ring_hostile`: polling is always
possible. It is switched off where the system may rest: a bounded environment has
no more to do (driver, flows, proxy, session), a parse is over (`http_stream`,
`tls_stream`).

### Fairness

* `ProducingSpec`: weak fairness of a call in progress. It runs at
  `DISPATCH_LEVEL` and is not descheduled. Nothing is assumed of the app;
  `PollingDrains` has weak fairness of `Poll` as its hypothesis, which the render
  loop of `main.cpp` gives as long as the app runs.
* `CorruptSpec` (finding 1): both sides keep running.
* `KndDriver!FairSpec`: the stopping thread runs on. Callbacks may take for ever, and
  so may the flows that carry contexts. (`PromptSpec`, for finding 3, is no fairness:
  it leaves out behaviours in which a callback is still running at a retry, 20 ms
  after the last one.)
* `KndProxy!FairSpec`: threads run, and peers answer, take what is written, or hang
  up in the end. The second half is the peers' to give: `recv`, the handshakes and
  the relay's writes have no timeout and do not look at `running_`, so a silent
  peer does hold up `stop()` and with it the UI; so does one that never stops
  sending, since the inner relay loops (`mitm_proxy.cpp:355`, `371`) do not look at
  `running_` either and `MaxReads` bounds what a peer sends. `StopReturns` shows that
  nothing else does.
* `HttpParse`: the call runs on.
* `KndSession` states none: a user need not click, and its properties
  are safety.

## 4. Findings

1. **A corrupted length is not survived** (`ring_resync`, `knd_client.cpp:145`).
   `poll` accepts any aligned length up to the data size, one that reaches past
   the write position too, and publishes `readPos > writePos`. The producer then
   drops every record and `poll` never enters its loop again. The comment above
   promises a jump to the write position.
2. **The proxy's own connections are redirected** (`redirect_loop`, `wfp.c:281`). The
   guard "avoid redirect loops" compares the remote port with the port the proxy
   listens on. The connections the proxy opens go to the server's :443 and pass it,
   so with the redirect on each is rewritten to the proxy, which opens another.
3. **The pool is freed under a registered callout** (`driver_drain`, `wfp.c:501`). A
   stream callout is busy while any flow carries a context of it. `KndClassifyFlow`
   attaches them, nothing removes them, and the retry loop gives up after 250 tries:
   an unload with one captured connection still open frees context and ring with the
   callout registered, though every callback is quick (`PromptSpec`). The comment at
   `wfp.c:495-496`: "spin briefly so we never free the pool with a live callout".
4. **A closed flow has no totals** (`flows_totals`, `app_model.cpp:189`). CONN_CLOSE is
   written from a zeroed payload and `ingest` copies its totals over the ones it had
   counted. `knd_protocol.h:92`, `159-160`: "bytesIn/Out valid", "valid on CONN_CLOSE".

Two more disagreements are in the model without a run of their own. Closing the engine
drops nothing: it is opened without a session (`wfp.c:415`), so what was committed stays
after `FwpmEngineClose0` and no delete function is called, where the comment at
`wfp.c:491` says "removing the engine handle drops the sublayer/callouts/filters we
added"; the next load then fails (`AddSublayer`). And the system proxy outlives the app:
its end (`main.cpp:245`) stops the proxy and leaves the registry as it is, where
`ui.cpp:924` says "Set as Windows system proxy while running" (`Exit`, `ExitEnd`).

Capture and redirect stay on in the driver when the app ends, and the next run shows
both as off. "Stop MITM proxy" switches off a proxy of the user's own too, and editing
the port leaves the redirect at the old one.

Met while modelling: an HTTP trailer section of more than one line puts the parser
out of step, since `http_parse.cpp:137` takes one line behind the last chunk where its
comment says "optional trailers then blank line". The second trailer is then taken for
the head of a message and ends the parse, so `MessagesFound` promises nothing behind
such a message (`Steady`), and `PartialIsPrefix` holds with it. Outside the model: a
response that has no body by its status (304) swallows what follows. A chunk that is
cut is not marked truncated.

## 5. Proofs

`KndRingProofs` proves, for every `Cpus`, `DataSize`, `Align`, `HdrSize`,
`Requests`, `Garbage` and every bound that satisfy `RingAssumption`:

* `TypeCorrect`: `HostileSpec => []TypeOK`
* `ProducerSafe`: `HostileSpec => []SafeInv`
* `NoStrayStore`: `HostileSpec => []StoresInBounds`

`HostileSpec` allows every behaviour of `Spec`, so these hold for the ordinary ring
too. `RingAssumption` says what `KndRingCreate` and the compile-time asserts of
`knd_protocol.h` establish: the header size and the data size are multiples of the
alignment, and a header fits. It does not ask for a power of two.

`StoresInBounds` alone is not inductive: that a pad's header fits at the write
position depends on how the *previous* record ended. `SafeInv` adds: at most one CPU
is inside the lock (`LockHeld`); a header fits at `WritePos` (`HeaderRoom`); and
each reservation under way is sound (`PlanOK`): pad and record are together at
most one lap, the record does not cross the end, and behind it there is either
nothing or room for a header. The last point is the delicate one. The code
applies its absorb rule only to a record that does not wrap; a record that wraps
leaves header room because pad and record fit in one lap and the pad itself was at
least a header. `LayoutSound` proves `PlanOK` from the layout arithmetic,
`RoomKept` proves that publishing restores `HeaderRoom`. None of it mentions
`readPos` or the bytes in the ring, which is why it holds against any consumer.

Its second half proves the same ring correct while its consumer keeps to the protocol,
under the same assumption. `RingCorrect` is `Spec => []RingInv`, and from it:

* `UnreadWhole`, `ReceivedFaithfully`, `ResyncUnreachable`, `DenselyNumbered`,
  `StatsExact`, `CallsAccounted`: the invariants `UnreadIntact`, `InboxFaithful`,
  `NeverResync`, `SequenceDense`, `StatsMatchRing`, `EveryCallCounted`;
* `UnreadNeverTouched`: the action property `UnreadUntouched`;
* `RingImplementsQueue`: `Spec => ImplementsQueue`, the refinement of `RecordQueue`
  (its safety part, which is all the abstract specification states).

`RingInv` adds to `SafeInv` what connects the two sides: the accepted records tile the
positions from 0 to `WritePos` (`LogTiles`), both positions are at most a lap apart
*and stay so when the reservation under way is published* although it was made on an
old `readPos` (`Positions`); the consumer stands at the start of a record or behind
its pad, and the `writePos` it polls up to was the end of a record
(`ReaderPlace`); and the bytes a call has stored so far are there (`StoredSoFar`), so
that publishing turns them into an unread record. That a store harms no unread
record is the argument of `StoresAhead` and `UnreadKept`: two positions less than a lap apart have different
offsets, and a reservation ends at most a lap behind `readPos`. `ResyncUnreachable`
follows because `ReaderPlace` knows which header `poll` has read.

`DataLemmas` has the facts about data that the provers need: uniqueness of the
remainder, advancing within a lap, distinct offsets within a lap, sums and
differences of aligned numbers, rounding up; induction over `Nat` in the form
"a set that has 0 and with every number its successor is `Nat`" (`SetInduction`, a
form without an operator parameter, which the provers can use); and what
concatenating a sequence of sequences yields (`Joins` characterises `FlattenSeq`,
`FlattenExtends` says what one more element adds).

`KndDriverProofs` proves all four invariants of the `driver_life` run, for any number of
CPUs, processes, callouts and retries (`DriverAssumption`): `DriverTyped`,
`NoUseAfterFree`, `ViewsBacked`, `ReleasesAll`. The inductive invariant
`DriverInv` says what is held at every place of the loading and unloading thread
(`HeldAtStage`: the resources are acquired in one order and given back in another,
and each failure enters the tear-down in the middle), which callouts WFP knows, how
far the unregister loop is and which it gave up on, and that objects are pending only
inside their transaction (`CalloutsKnown`), that a callback with a context is
one of a callout WFP still has (`CallbacksKnown`), and that a mapping belongs to an
open handle, which keeps the driver loaded (`MappingOwned`).

`KndProxyProofs` proves the invariants of the `proxy_stop` run for any set of
connections and any number of starts and reads: `StopLeavesNothing`,
`RecordsBalanced`, `ProxyTyped`. Only the last needs `Conns` to be finite: it bounds the
thread counter by the number of connections. `ProxyInv` knows which threads may exist
at each place of `stop()` (`UiPhases`; in particular the listener, which is joined
*before* the list of threads is swapped out, can add none after it), that every
thread that runs is in one of the two lists (`ThreadsKnown`), what the counter counts
(`ActiveCounted`) and what a connection that has not got through, or has cleaned up,
has recorded (`RecordsKnown`).

`KndFlowsProofs` proves all seven invariants of `KndFlows`, for any flows, CPUs,
clients, chunk sizes, caps and counter widths (`FlowsAssumption`): `FlowsTyped`,
`RecordsInOrder`, `FlowsCounted`, `UnmarkedComplete`, `TotalsCounted`, `ListsTrue`,
`WireShown`. The invariants they need, in the order they are proved:

* `Order`: at most one callback of a flow runs (`OneCallback`), how far its flow is
  then (`AtStage`), and what the ring has of a flow at that stage (`RecordsFit`).
  `LifeInOrder` is not inductive without them: nothing in the ring's contents says
  that no OPEN is still to come.
* `CountKnown`: `activeFlows` with the CPUs between a record and its counter
  added. It is an equation modulo the counter's width, so it holds when the
  counter goes below zero too.
* `Shown`: the app ingested the end of what `poll` passed on (`SeenKnown`), and for
  *every* flow, one the model does not know included, what the model would show is what
  that input makes of it (`AllShown`). The form over all flows is what makes it
  inductive: the first record of a flow meets an entry that was just created.
* `WireKnown`: a direction that lost nothing is in the ring from its first
  byte on, at every prefix of the ring (the app may have read that far and no
  further), and up to where the running callback is.

`KndSessionProofs` proves all six properties of the `session` run for any `Ports` (without 0), `Hosts`, `MaxStarts` and `MaxGens`:
`SessionTypeCorrect`, `LiveCorrect`, `SystemProxyCorrect`, `UpstreamCorrect`,
`RewriteCorrect`; `ChainCorrect` for the CA by itself (`CaSpec`), and, since every step
of the session is one of the CA's or leaves it alone (`SessionImplementsCa`:
`Spec => CaSpec`), `SessionChainCorrect` for the session. None of them but the type
invariant is inductive alone:

* `LiveInv`: what the app shows is true because it then has the device open, and an
  open device keeps the driver, and with it the switch, however often it is told to
  unload.
* `ProxyInv`: while the app starts, a system proxy of ours is one that was left
  (`proxyStale`). Outside `stop()` only: the theorem is silent while `stopping` or
  `app = "exit"`, because the statement is false of the code there.
* `PortInv`: whenever the flag is set or about to be, or a callback has decided to
  rewrite, `RedirectPort` holds a port. The order of the two stores is what makes it
  true, and that the driver is not unloaded under a callback.
* `ConnInv`: a connection that starts with a ClientHello is either on its way to the
  server or carries it as its origin, and the proxy opens only such connections.
* `ChainInv`: a whole key file has its own certificate beside it, and is the one of
  every certificate installed while the CA was ready (`PairInv`). The order of the
  two writes is what makes it true: the key comes last, so while a pair is being
  replaced the key file is not whole, and a start that finds it so makes a new pair.

`TlsDecryptProofs` proves the three invariants of the `tls_stream` run for any
connections, key logs, header and payload sizes (`HdrLen`, `Payload`) and holes:
`TlsTyped`, `PrefixShown`, `UpToLoss`. The assumption (`TlsAssumption`) is what RFC 5246 says of a sender: in the
clear before its ChangeCipherSpec, encrypted behind it (`IsScript`). `TlsInv` relates
the capture to the wire:

* `Parsed`: a record cut out of the capture is one of the wire or of no use, and up
  to the hole the i-th record found is the i-th sent. Behind the hole nothing is
  claimed: the parser may read anything there.
* `Shown`: what is shown is the application data among the records of the first
  keys whose number is below `seq`, all of it, in order. That it is a prefix follows
  from the sequence numbers growing along the wire (`SeqNoOrdered`), whatever was read.
* `InStep`: with the right keys `seq` is the number of the next record, up to the hole
  or the change of keys, and no record was passed over. Giving up at the first record
  that does not decrypt therefore misses nothing (`FailStep`).
* `Stages`: with the secret and both hellos none of `TlsDecryptFlow`'s early returns
  is taken (`HandshakeGood`: what precedes a hello captured whole is in the clear, so
  `FindHandshake` finds the hello itself, `HelloFound`).

`UpToLoss` also needs `LogRead`: the line that counts is still to be read, or its
secret is kept and only torn lines follow.

`Start`, a sum along the script, is characterised by `StartStep`, proved by
`SetInduction` over tables of starts.

`HttpParseProofs` proves every invariant of the `http_stream` run, for any messages,
holes and caps: `HttpTyped` (`TypeOK`), `PositionsInBounds` (`InBounds`),
`AllMessagesFound` (`MessagesFound`) and `OnlyPrefixesShown` (`PartialIsPrefix`).

`HttpInv` types the buffer, the cursor and the message under way, and gives the first
two. The work is in the scans, which the model states as the first position with a
property: that there is one, and where (`FindLine`, `FindBlankLine`, `SkipStays`, from
`LeastNumber`), and that strtoul yields a number whatever it is given (`StrToUlType`).

The other two rest on `HttpTracked`, the invariant that adds `Captured` and `Tracked`.
`Captured` says that the capture is the stream up to `holeAt` and no longer than it.
`Tracked` says, for the message the parser is at, where in the stream it stands:

* between two messages (`Between`), at the end of the last one or at blanks before
  the next, or, behind two trailers, in front of a header line;
* in the head (`AtHead`), at the message's first byte;
* in a body (`InBody`), at a named place: before a size line, before a chunk's data,
  at the body of a known length, at the rest (`AtSize`, `AtChunk`, `AtLength`,
  `AtRest`), with the body read so far, up to the cap, in hand (`Kept`);
* at the end (`AtEmit`), with the message it will store.

The parser need not be in step behind a hole, so all of this is claimed only of a
message whose bytes were not lost (`Seen`) behind ones with at most one trailer
(`Active`); `Complete`, `Shown` and `InStep` carry over to the finished parse what is
then known. Three groups of lemmas feed the steps. Layout: what lies at each place of
an encoded message, as far as the capture goes (`ChunkedLayout`, `LengthLayout`,
`PlainLayout`, `ChunkLayout`, `TrailersLayout`). Scanning: what each scan returns on
such bytes, or that it returns nothing if they are cut (`LineEnd`, `BlockEnd`,
`ChunkedBlock`, `LengthBlock`, `PlainBlock`, `SizeRead`, `StrToUlDigit`); this is where
bodies full of line ends and start lines do no harm, since every scan starts behind
them. Bodies: appending the next bytes under the cap keeps the capped prefix
(`AppendedKept`). The places of chunks and messages are sums over sequences
(`Upto` in `DataLemmas`, by `FlattenAt` and `SetInduction`).

`MessageAssumption` types the messages; it says that lengths have one digit, as the
wire of the model writes them, that no chunk but the last is empty, and that a message
without framing has no body. `HttpAssumption` has both caps positive (64 messages
and 1 MiB in the code).

Only model-checked: the liveness properties `PollingDrains`, `CallsReturn`,
`StopEnds`, `StopReturns` and `ParseEnds` (fairness and `ENABLED` are outside the
prover). `CorruptionRecovers`, `NoRedirectLoop`, `PoolOutlivesCallouts` and
`TotalsValidOnClose` do not hold (section 4).

## 6. Plan

Done: the ring with its abstract specification, lifecycle, callbacks and model, proxy,
HTTP, TLS, redirect, certificate authority and the session that composes them; the
proofs of every safety property that the passing runs check.

Next:

1. `KndScopedPhysCopy`'s page loop, `ParseSni` and `ParseConnect` as operators with
   a reference definition.

Not modelled, and not planned: drawing, theming, filters and selection of the UI,
key-log DLL and injection (OS mechanics without a protocol of their own), mock data and manual
tests, the vendored libraries.
