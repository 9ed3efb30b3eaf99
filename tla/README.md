# A formal model of blackmagic-espidf

TLA+ modules for the firmware in `src/main/` (an ESP8266 that serves GDB over
Wi-Fi), the TLC configurations that check them, and proofs checked by TLAPS.
Line numbers are those of the sources named.

## 1. The system

| Component | State it keeps | Operations | Hard behaviour |
|---|---|---|---|
| **GDB lock** (`gdb_if.cpp` 49-87, `gdb_if.hpp` 16-32) | a FreeRTOS mutex, a plain `int` count | lock, unlock, break, restore; scoped objects | the count has no lock of its own; `longjmp` skips destructors; a task is deleted while it holds the lock |
| **GDB client task** (`gdb_if.cpp` 99-240) | socket, two buffers, task handle | create, read, write, destroy | the object is freed by the timer task while `destroy()` still reads it; `num_clients++` under no lock |
| **GDB sessions** (`gdb_main.cpp`) | `cur_target`, `last_target` (shared by all clients); `run_state`, `single_step`, `non_stop`, `no_ack_mode` per client; `flash_mode` (static) | boot scan, one handler per packet, polling, destroy callback, library printf | every packet sent in ack mode gives the lock away in the middle of a handler; a semihosting call runs a whole main loop in the middle of a library call |
| **Packet layer** (`gdb_packet.cpp`) | none beyond the buffers | get packet, put packet, notification | acknowledgement, four tries, no-ack mode, a timeout that looks like an empty packet |
| **Exceptions** (`components/blackmagic/exception.*`) | a stack of handlers per task | raise, TRY_CATCH | unwinding leaves locks behind |
| **Firmware update** (`ota-tftp.c`) | slot, handle, expected block, retries; flash | serve a write request, receive, boot | lossy network, foreign datagrams, power loss |
| **Debug queue** (`platform.c` 101-107, 326-346; `CBUF.h`; `http.c` 301-311) | ring buffer, binary semaphore, line buffer | push, wake, pop, broadcast | no lock, no test for full, 8 bit indices |
| **UART bridge** (`platform.c` 187-322) | one TCP client socket and one UDP peer, shared by two tasks | accept, receive, send, close | both tasks close and clear the socket |
| **UART rate and break** (`platform.c` 348-369, 505-515; `http.c` 55-107) | rates of two UARTs, NVS | set, read, send break | break saves and restores the rate while others set it |
| **Wi-Fi** (`platform.c` 373-502) | mode and driver state | driver events | falls back to a soft AP and reconnects |
| **Web pages** (`src/html/`) | the terminal's write buffer (xterm.js), a web socket, the line history, the terminal's size | connect, receive, send a line, parse, resize | the buffer is emptied in time slices between other handlers; an exception ends a handler half way |
| **HTTP status, task times, transmit power** (`http.c`, `hashmap.*`) | a map of run times | CGI handlers | none that a model would show |
| **SWD clock and GPIO** (`platform.c` 65-183) | a delay count | set, get | none shared |
| external: blackmagic library, FreeRTOS, lwIP, ESP SDK, libesphttpd, boot loader | | | modelled from the way `src/` uses them, where a module needs them |

How they interact.  `gdb_net_task` accepts a connection and makes a
`GDB_client`, whose task runs `gdb_main_loop` until its socket fails.  All client
tasks share the two target pointers and the library's target list, under
the GDB lock.  The library calls back into the session that called it: a destroy
callback for each target it frees, a printf, and the host calls of a target that uses
semihosting, which enter `gdb_main_loop` again until GDB answers.  All send packets, and a
packet in ack mode waits for its `+` in `gdb_if_getchar_to`, which breaks the lock.  A
target access may raise an exception, which unwinds to `GDB_client::task`; that
reports `EFF`, frees all targets and starts the main loop again.  The log writes
into the debug queue, which a task of its own empties into web sockets.  The UART
bridge's two tasks share one socket variable; its receiving task also feeds the
terminal page's web socket, and the page's lines come back through the HTTP server.
The update server shares nothing with these but the flash it boots from.

What makes each component correct: the lock is a monitor, whatever
happened to its holders; the target pointers are touched only by its owner, but for
one read, and never point to a freed target; whoever waits is served unless a peer
stands in the way for ever; an update never leaves the
device without an image to boot; a log line that was queued goes out; a GDB that
waits for its target is told when it stops, and once if nothing crosses; a client task deletes itself and
nobody else; the bridge drops a client that has gone and keeps one that has not; the
terminal shows what it was sent, in order.

## 2. The modules

| Module | Models | State and actions |
|---|---|---|
| `Monitor` | what the GDB lock promises: a reentrant monitor its owner may put aside | `owner`, `nest`; `Enter`, `Leave`, `Yield`, `Resume`, `Abandon` |
| `GdbLock` | the four functions of the lock at the grain of their reads and writes, with the tasks that use them | `holder` is the mutex, `lockcount` the count, `state[t]` is `GDBBreakLock::state`, `scopes[t]` counts the `GDBLock` objects on t's stack; one action per access; `Block` and `Unblock` are a `send` or `recv` that waits for the peer |
| `GdbLockProofs` | theorems about `GdbLock` | |
| `GdbServer` | the sessions, on top of `Monitor` | `pc[c]` is a place in `task()`, `gdb_main_loop`, the destroy callback, `gdb_getpacket` or `gdb_putpacket`; `then[c]` is where a task goes on after the packet it sends; `outer[c]` is the target of the library call that an inner main loop runs inside of |
| `TargetList` | what the sessions promise about the target pointers and the target list: each command of a client is one step | `owner`, `current`, `last`, `list`; `HandOver`, `Find`, `Attach`, `Detach`, `Destroy` |
| `GdbServerProofs` | theorems about `GdbServer` | |
| `LogQueue` | what the debug queue promises: first in, first out, with two limits | `input`, `queue`, `taking`; `Log`, `Push`, `Overwrite`, `See`, `Read`, `Pop` |
| `DebugQueue` | the queue, its writer and its reader | the indices are kept modulo `IdxMod`; the writer's store, advance and give and the reader's test, read and increment are separate steps |
| `RunControl` | run, step, interrupt, stop: the sessions' `run_state` and `single_step` against one shared target, and what each GDB believes | `wire` and `replies` are the two directions of a connection; `view` is the GDB's side; `kept` says that some session keeps the GDB lock and waits for its peer; one action per command |
| `ClientTask` | the life of a `GDB_client`: its heap block, its task's handle and the timer task | `pid[b]` is what the block holds, also after it is freed |
| `UartBridge` | `net_uart_task` and `uart_rx_task` | `fd` says what each lwIP descriptor is, since numbers are used again; one action per access to `tcp_client_sock`, `udp_peer_addr` or a socket |
| `WebTerminal` | the page `index.html` with `WriteBuffer`, `Terminal.resize` and `FitAddon` | `buffer`, `offset`, `pending` and `timer` are those of `WriteBuffer`; one action per event handler |
| `FirmwareUpdate` | what the update promises: the program to boot changes at once | `installed`, `program`; `Install`, `Boot` |
| `OtaTftp` | the update server, TFTP clients, the network, the flash and its power | one action per way out of `tftp_task` and `tftp_receive_data` |
| `UartBridgeProofs`, `RunControlProofs`, `OtaTftpProofs`, `DebugQueueProofs`, `WebTerminalProofs` | theorems about these modules | |
| `Wrapping` | lemmas about numbers that wrap around, for the queue's indices and the numbers of chunks | |
| `MC...` | the instances for TLC | |

`GdbServer` takes the lock from `Monitor` (`INSTANCE Monitor`), and `GdbLock` is
checked and proved to implement `Monitor` under the mapping *owner = the holder
with a nonzero count; depth = the count, or the value saved for a wait*.  So the
sessions rest on the promise and not on the count.

Three more specifications say what a component promises to those outside it:

- `GdbServer` implements `TargetList` under the mapping *the list without the target that
  is being released*.  The callback's packet lets other clients in between its test
  and its assignments, so what the mapping hides is one place only: a target leaves
  the abstract list when its pointers have been cleared, and the library frees it
  afterwards.
- `DebugQueue` implements `LogQueue` under the mapping *the entries from the get index
  on, as many as the indices are apart -- where a reader that is past its test takes
  equal indices for a whole turn*.  The store is a step of its own, since without
  room it already replaces an unread character; and the count wraps to nothing, or, for a
  reader past its test, from a whole turn and one to one.  These are the limits that
  `LogQueue` states.  The history variables `unread` and `overrun` have no part in the
  mapping; `sent` is mapped to the abstract parity of lines.
- `OtaTftp` implements `FirmwareUpdate` under the mapping *the contents of the slot to
  boot from, and of the one that runs*.

In `GdbServer` commands are grouped by what they do to the shared state:

- `Use` / `UseDone`: everything that passes `cur_target` to the library and
  answers, that is registers, memory, breakpoints, flash, run control and polling.
  `UsePrintf` is the library's printf in the middle, `UsePutpacket2` its use of
  `gdb_putpacket2`, which waits for a `+` in no-ack mode too.
- `Syscall` / `SyscallDone`: a semihosting call in the middle of a library call.  The
  client's main loop starts anew, with its scan, its waits and its commands, and ends
  with GDB's `F` packet.
- `Detach`: `D`, `k`, `vKill`.  The target is given to the library first, and what is
  assigned to `last_target` afterwards is `cur_target` as it is by then.
- `Reattach`: `R`, `vRun`, memory map and target description after a detach.
- `Attach`: `vAttach`.  `Rescan`: monitor commands that scan.
- `NestLock`: the second `GDB_LOCK()` of `vRun` and `handle_z_packet`.
- `Remote` / `RemoteDone`: a remote packet (`!` ... `#`), which drives the probe under
  the lock and answers without waiting for a `+`.
- `Attached`: `qAttached`, the one command that reads `cur_target` without the lock.
- `Body` is the rest of a packet, and stands for the commands that take no lock and
  only answer.

`Send`, `Body`, `SyscallDone` and `RemoteDone` take as long as the peer likes (`Peer`).

`RunControl` looks at the same handlers from the side that `GdbServer` abstracts.  Since
`GdbServer` shows that they run under the lock (`TargetsGuarded`), each is one
action there, up to the wait for a `+`, which lets the others in; and none of them runs
while some session keeps the lock (`Keep`, `Unkeep`).  Between commands a
GDB sees its server through two queues, so an interrupt may cross a stop reply and a
`+` may be late.  What the code does, and the model shows:

- 0x03 sets `run_state` whatever the session was doing, so an interrupt that crosses a
  stop reply is answered by a second one; a `+` that is late or missing repeats the
  reply; an exception tells the GDB `EFF` and leaves `run_state` set.  From then on the
  session owes its GDB a stop reply too many, which the GDB takes for the end of the next
  command that waits.  The model goes on from there, and `InStep` names these three
  as the only causes of a surplus; there is never a deficit.
- An interrupt that is read in place of a `+` is lost.  `InterruptStops` is about those
  that reach the main loop.
- A failed `s` leaves `single_step` set, and a later `c` is a step
  (`StepFlagIsCurrent` names that case).
- `vCont;s` (`gdb_main.cpp` 821-824) sets the flags and never lets the target run; the
  next poll reports the old halt.  GDB itself does not use `vCont` here, because the
  server offers no signals with it.
- A session whose target another session detaches from waits for ever, and its 0x03
  passes NULL to the library.  `OnlyOthersStrand` says that this is the only way, also
  for a session that has lost step.

In `UartBridge` the environment includes the rest of the firmware, which opens and closes
descriptors of the same pool.  In `WebTerminal` a chunk is a number, modulo `Ids`; a
chunk's parsing throws if it makes the terminal answer a query while the
socket is connecting, since the page's `onData` listener then calls `send`.

In `UartBridge` each read of `tcp_client_sock` is an action: `net_uart_task` reads it at
lines 217, 218 and 220 before `select` and twice at 258, and `uart_rx_task` may clear it
between any two.  So FD_SET may be given the 0 that stands for no client.  What
`select` then makes of a descriptor that is none is left open: it fails, or it returns
that number as ready or not.

`history` variables, which the code does not have: `unread`, `overrun` and `sent` of
`DebugQueue`, `clean` of `OtaTftp`, `exposed` and `replaced` of `UartBridge`, `wrote`,
`parsed` and `threw` of `WebTerminal`, `by` of `RunControl`.  No action is guarded by one.

### What is assumed of code that is not in the repository

- A FreeRTOS mutex is not recursive, may be given by its holder only, and goes to the
  task that has waited longest.  Tasks of equal priority are time sliced.
- The library frees targets in `target_list_free` only, calls the destroy callback
  of each before it frees it, and calls the callback nowhere else.  A scan frees the
  list and lists what it finds.  An attach takes a listed target or fails, and does
  not print between taking it and returning.  Any target access may raise.  A remote
  packet drives the probe and leaves the target list alone.  Semihosting calls are made
  in `target_halt_poll`, under one `GDB_LOCK()`, and `gdb_putpacket2` is used by the
  library only (nothing in `src/` calls it).
- One task at a time prints to the log.  The compiler and the single core keep the
  source's order of the accesses to the queue's entries and indices (the entries are not
  declared volatile).
- `esp_ota_set_boot_partition` accepts a whole image only, and so does the boot
  loader; `esp_ota_begin` erases the slot; changing the boot slot is atomic.
- A GDB is in all-stop mode, sends a command only when it waits for nothing, but for
  0x03, and takes `T`, `X` and `E` for a stop reply; it does not wait for one after `?`.
  In `RunControl` the target makes no semihosting calls.  A library call with NULL does
  nothing.  A reset leaves the core running or halted.
- The heap may place a new object where one was freed, a freed block keeps its
  contents until then, and the timer task runs queued functions in order at some time.
- An lwIP descriptor is used again as soon as it is closed; closing one that is not
  open does nothing; `send` may succeed for a while after the peer has gone.
- A page's handlers run one at a time, a web socket's `send` throws while it is
  connecting and is silent when closed, and timers fire once.
- A connected lwIP UDP socket takes datagrams of its peer only, and keeps those it had
  queued before it was connected.

## 3. The runs

| Run | Bounds | What it shows |
|---|---|---|
| `lock` | 2 tasks, 2 nested scopes, count up to 3, so that an exception may leak 1 to 3 levels | `MutualExclusion`, `OneWriter`, `CountCoversScopes`, `ImplementsMonitor`, `LockServed` |
| `server` | 2 clients, 2 target addresses, 1 resend, 1 leaked level, no drift; one client makes semihosting calls and may ask for no-ack mode | `TargetsGuarded`, `WaitersLetGo`, `NoDanglingTarget`, `NoAckUseIsSafe`, `ImplementsTargetList` |
| `server_live` | 2 clients, 1 target, no resend, 1 leaked level, no drift; one client makes semihosting calls, the other may ask for no-ack mode | `ClientsServed`, `LostRecovers` |
| `debug_queue` | 4 entries with 2 bit indices, the proportion of the code (256 and 8 bits); line buffer of 3 | `NoLostWakeup`, `ImplementsLogQueue`, `LineDelivered` |
| `ota` | 2 peers, 3 blocks, 1 retransmission, mailbox of 2, at most 1 stale block under a failed `esp_ota_begin` | `SlotIsPrefix`, `ImplementsFirmwareUpdate`, `SilenceEnds` |
| `run_control` | 2 sessions, one of them in no-ack mode; 1 resend; 1 message under way when a packet is sent, an interrupt not counted | `InStep`, `OnlyOthersStrand`, `StepFlagIsCurrent`, `HaltIsReported`, `InterruptStops` |
| `uart_bridge` | 2 descriptors, 1 UDP host | `SockIsOurs`, `OrphansWereReplaced`, `LiveClientKept`, `ClientAttended` |
| `web_terminal` | limit of 2 pending units, slices after 1 chunk, 3 lines, 3 windows | `ParsedInOrder`, `TimerRuns`, `EveryChunkParsed`, `Reconnects`, `ArrowsStayInHistory`, `SizeFits` |
| `auto_attach`, `use_after_free`, `ota_last_ack`, `not_reached` | as above or smaller (`not_reached`: 3 handles, 2 blocks) | violated: see section 5 |

Each passing run but `server_live` also checks its module's `TypeOK`.

Why the bounds are enough.  The lock and the sessions are proved for all values of
their constants, so TLC's bounds matter there for liveness and as a test of the
proofs' statements only.  Two clients suffice for every race in the code: all
shared state is read and written by pairs (one that waits with the lock broken and
one that runs).  Two addresses let a target be freed and another be found at the
same or at another place.  One resend shows both outcomes of the count; one
leaked level both kinds of holder.  An inner main loop inside an inner one (which a
semihosting call in the inner one's polling would start) is left out by a bound.  The queue's buffer wraps many times, and both an
overrun by one and a full turn occur.  Three blocks are a first, a middle
and a last one; a mailbox of two holds a datagram of each peer.  Two sessions are one
that waits and one that interferes, and since both kinds of session occur, each
interferes with the other; one message before a packet is sent makes an interrupt, a `+`
and a second copy of a stop reply meet (the safety properties were also checked with
`MaxQueue` 2).  Two descriptors let a connection be replaced, a foreign
descriptor take a closed number, and `accept` find none left.  A limit of two and a
slice of one make the write buffer overflow, be cut and start anew; the windows are
below the minimal size, at it and above it, in one or both dimensions.

What the bridge's properties say is conditional, because the code has the races: a
live client is closed only if it was accepted while the other task was sending or
clearing up, or under a number `select` had returned (`LiveClientKept`); the variable
names a foreign descriptor only between a close and its clearing (`SockIsOurs`); a
connection is leaked only if a later one replaced it (`OrphansWereReplaced`).  The
mutants show that each condition is needed no more widely than stated.

`MaxDepth`, `MaxCount`, `MaxLeak`, `MaxDrift`, `Callbacks`, `NoAckers`, `MailboxSize`,
`MaxStale`, `MaxQueue`, `MaxLines` and `Ids` are
bounds of the models and not of the code.  `Retries`, `Retransmits`, `Size`,
`IdxMod`, `LineMax`, `Limit` and `SliceAt` are constants of the code with smaller values.  The
addresses of `server` are declared symmetric; the runs with liveness properties declare
no symmetry.

No run turns deadlock checking off: the server can always accept, read or time out.

### Fairness, and why the code justifies it

- `GdbLock`: steps inside the lock functions and waits with a timeout are weakly
  fair (time slicing).  Taking the mutex is strongly fair, because FreeRTOS gives it to
  the longest waiter among equal priorities.  A handler is finite but for the waits for
  its peer, so a task that holds the lock comes back to `gdb_if_getchar_to` (strong
  fairness of `BreakCall`, which no blocked task can do).  Nothing is assumed of
  `Unblock`: `send` has no timeout, and a live peer that does not read keeps it waiting
  under the lock; `recv` has none either, and after an exception it runs under the lock
  that was leaked.  `Stuck(t)` is that state.  `LockServed` says: if no task is stuck for
  ever, whoever waits for the lock gets it.
- `GdbServer`: the same.  `SF(UseDone)` says that a library call calls back finitely
  often and returns once its callbacks have; a call with a semihosting request returns
  only when the peer answers.  Nothing is assumed of the `Peer` steps.  `Stuck(c)` is a
  client that owns the lock in one of them, and both liveness properties are implied by
  `PeersMove`: no client is stuck for ever.  Without a bound on what the peer does no
  stronger property is true of the code.
- `DebugQueue`: both tasks run, and a task that has begun to print a line goes on.
- `OtaTftp`: the server's own steps.  A receive has a timeout of ten seconds.
  Nothing is assumed of peers, network and power, nor that an error of the socket
  ends a transfer; `SilenceEnds` therefore rests on the count of retries.
- `RunControl`: each session's task goes on if it gets the lock again and again (strong
  fairness of the poll and of reading), connections deliver, and a core asked to
  halt halts; not every poll raises.  Nothing is assumed of users, of cores that run,
  or of `Unkeep`: `HaltIsReported` and `InterruptStops` are implied by `LockFree`, that
  no session keeps the lock for ever.
- `UartBridge`: `net_uart_task` goes on.  Nothing is assumed of `uart_rx_task`, which may
  wait in `send` for a client that does not read.
- `WebTerminal`: the browser runs due timers and dispatches `close` events.

## 4. The proofs

Each `...Proofs` module proves the safety properties of its component for any sets of
tasks, clients, targets, peers and descriptors, and any values of the bounds.  All
invariants, action properties and refinements of the passing runs are proved.  The only assumptions
are those named in the modules: `LockAssumption`, `ServerAssumption`,
`BridgeAssumption`, `RunAssumption`, `OtaAssumption`, `QueueAssumption` and
`TerminalAssumption`.  They say that null values are not members of the sets and that
bounds are naturals; `QueueAssumption` adds that the size of the buffer divides the
number of indices, which both are powers of two, and `TerminalAssumption` that there
are more chunk numbers than chunks in the buffer.

**The lock.**  `MutualExclusion` is not inductive: it says nothing of a task that has
taken the mutex and not yet counted, of the value a waiting task has saved, or of a
count that is larger than the scopes.  `IInv` says for each label what the task
there knows: which labels imply holding the mutex, when the count is zero or
positive, how it relates to the scopes, and that the saved value covers the scopes
that come back after a wait.  `InitIInv` and `NextIInv` (one step per action) give
`LockInvariant`; `LockMutualExclusion`, `LockOneWriter`, `LockCountCoversScopes` and
`LockTypeCorrect` follow from it.  `LockImplementsMonitor` uses it for each
step under the mapping: `Inc` is `Enter`, `Dec` is `Leave`, `Zero` is `Yield`,
`SetCount` is `Resume`, `DestroyZero` and `DestroyCall` are `Abandon`, and the others
stutter.  `LockHolderNeverWaits` is what is left of `LockServed` without fairness: a
lock that is not free is held by a task that is in none of the waits that need the
lock or gave it away, so it can take a step, or its peer can.

**The sessions.**  `IInv` of `GdbServer` says of each client what it owns at each
label: inside a scope, or inside a library call whose main loop is running, and not
waiting it owns the lock; scopes never exceed the depth; in the second half of the destroy callback it still knows its target;
when the library frees a target neither pointer has it.  The last one is what keeps
`NoDanglingTarget` inductive, and the point where the code could go wrong: the
callback lets others run between its test and its assignments.
`ServerTargetsGuarded`, `ServerWaitersLetGo`, `ServerNoDanglingTarget` and
`ServerNoAckUseIsSafe` follow.  The last one is about calls that make no semihosting call
and do not use `gdb_putpacket2`: these give the lock away in any mode, and the model shows
that a target is then freed under the call.

`ServerImplementsTargetList` sorts the steps: most leave the pointers and the list alone
(`Aside`) and hand the lock over at most; the others are steps of the owner, and since
only the owner can be releasing a target (`ReleasedByOwner`), what the mapping hides is
known.  `Told`, or `DestroyTarget` for a target that is not the current one, is the
abstract `Destroy`, and `Release` stutters.

Two theorems say what the findings 1 and 2 of section 5 need: with a single
connection every client scans (`SingleClientScans`), and nothing freed is used if the
target makes no semihosting calls and the library does not use `gdb_putpacket2`
(`SingleClientUseIsSafe`, `Callbacks = {}`).  The first rests on a lemma about `num_clients`, which is
updated under no lock: `CountExactWhenApart` proves that it is the number of counted
clients for as long as no two updates overlap, so an overlap is the only thing that can
make it wrong.  `Spec` lets updates overlap up to `MaxDrift`, and the invariants above hold
all the same.

**The serial bridge.**  The two tasks share one variable without a lock, so `IInv` says
what each may rely on at each of its steps whatever the other does: the variable names
a connection of the bridge, or it has been closed and a task is about to clear it
(`ClosedIsCleared`); while `uart_rx_task` sends, the variable names the connection it
sends on or an `exposed` one; what either task is about to close has gone or is exposed;
what `select` has returned is readable, gone or exposed.  `BridgeSockIsOurs` and
`BridgeOrphansWereReplaced` are parts of it; `BridgeLiveClientKept` looks at the two
steps that close.

**Run control.**  `Sessions` says of each session that its GDB is owed no less than it
waits for, that nothing is under way when it is off, and that a target which is not there
while a session waits was taken by another.  The other half of `InStep`, that the surplus
grows in three ways only (`Grows`), is a property of each step and is proved with it.  The
stop replies in a queue are counted as a set of positions, so two lemmas say what appending
a message and taking the first one do to the count.  Each step touches one session, and
`OneSession` carries the rest over.  `OnlyOthersStrand` needs no assumption that a session
is in step.  `StepFlagIsCurrent` is about single steps and needs the types only.

**Firmware update.**  `Bootable` is not inductive: it needs that the slot to boot from is
the running one until the device restarts, since the server writes to the other.
`SlotIsPrefix` needs that in a clean transfer every queued datagram is the peer's, which
the connected socket keeps (`OwnMailbox`), and one fact about sequences (`NextBlock`): a
beginning of an image with the block that follows is a longer beginning.
`OtaImplementsFirmwareUpdate` needs both kinds of knowledge: a block goes to the slot that
neither `installed` nor `program` is mapped to (`WriteRefines`), and what `SetBoot`
takes for valid is an image and not what the slot held when it was delivered, because the
last block in it came from a peer (`EndsWithPeersKept`).  `OtaBootable` says the same of
the states alone.  `OtaCleanImageIsValid` bounds finding 3: a transfer that began clean,
where every peer has a good image, is accepted, so the early acknowledgement is wrong only
about a bad image or a transfer that others have mixed in with.

**Debug queue.**  The order is kept because the indices are as far apart as there are
unread characters, modulo their range (`IndicesAgree`), because what the writer has
stored but not yet counted is in an entry that was free (`HalfPushed`), and because what
the reader has read but not yet counted is the oldest character, unless the writer has
run over it (`InHand`, `QueueHoldsUnread`).  The lemma
`EntryOfIndex` is where the size must divide the range of the index: an index leads to
the same entry before and after it wraps.  `QueueOrderKept` says so of the history,
and `QueueImplementsLogQueue` without it: a push is the abstract `Push` even where the
count wraps, for a reader before its test and for one past it; a store without room is
`Overwrite`; and test, read and increment are `See`, `Read` and `Pop`.  `ModCancel` of `Wrapping` is the arithmetic they share.  `QueueNoLostWakeup` is the
safety half of `LineDelivered`: the semaphore is given after the end of the line is
counted, and the reader sleeps only after it has found the queue empty.

**Web terminal.**  `BufferOK` says that the chunks left are numbered from the one parsed
last to the one written last, that `pendingData` is no less than they are (it is more
after an exception), and that a timer only runs for a buffer that is not empty.  The last
part is why there is never a second timer.  `TimerOK` adds the other direction: a buffer
with chunks in it has a timer unless a chunk has thrown.  `TerminalTimerRuns` follows, the
safety half of `EveryChunkParsed`.

The inductive invariants (`IInv`, `Inductive` or `Sessions`) were checked by TLC on the instances of
section 3 before they were proved; they imply what the runs check, so no run lists
them.

Only model-checked: the liveness properties, since fairness is beyond the prover, and the
four violations of section 5.  What of the liveness is safety is proved:
`LockHolderNeverWaits` and `WaitersLetGo` (nobody waits for a task that waits),
`NoLostWakeup` and `TimerRuns` (what is queued has somebody to work it off).

## 5. Where the code and its documentation disagree

1. **Automatic attach** (`auto_attach`).  `src/README.md:7` promises "Automatic Attach
   to target on connect to GDB server".  The scan at `gdb_main.cpp:172` is skipped
   when `last_target` is set and another client is connected, so the second
   client finds no target attached after the first has detached.
2. **Several connections** (`use_after_free`).  `src/README.md:9` offers "multiple GDB
   connections (beta)".  The library's printf in the middle of a target access gives the
   lock away in ack mode, and another client's exception or rescan frees the
   target.  In no-ack mode, or with one connection, this cannot happen in a library call
   that makes no semihosting call and does not use `gdb_putpacket2` (`NoAckUseIsSafe` and
   `SingleClientUseIsSafe`, proved).  Those two give the lock away in any mode, and with
   one connection the main loop that semihosting starts scans, which frees the target that
   the call goes on to use (`gdb_main.cpp:172` does not look at `in_syscall`).
3. **Last acknowledgement** (`ota_last_ack`).  `ota-tftp.c:408-419` says that the image
   is verified before the last block is acknowledged; that code is commented out.
4. **`destroy()` returns** (`not_reached`).  `gdb_if.cpp:203` and `225` say that the code
   behind `destroy()` "should not be reached".  `destroy()` reads `pid` (line 170) from
   the object whose deletion it has queued; if the timer task has freed it and a new
   connection has been given the memory, it deletes the new connection's task
   and returns.

Without a run: `CBUF.h:22-25` limits an 8 bit index to 128 entries, and
`platform.c:103-105` has 256, so a full queue has length 0.  `DebugQueue` has the same
proportion, and `LineDelivered` makes an exception of a full queue.

## 6. Not modelled, and the plan

- **Flash mode and non-stop mode** of the sessions.  Flashing is one library call in
  `GdbServer`; `flash_mode` is one static flag for all sessions.
- **Framing** in the packet layer: checksums, escapes, maximal size, and notification
  packets, which are sent like packets that GDB acknowledges.
- **UART rate and break.**  The handlers run in the one task of the HTTP server, and
  `cmd_setbaud` is registered nowhere in `src/`.  What is left is that the boot code
  sets the rate (`platform.c` 572-576) after it has started that server (560).
- **Wi-Fi**: what the driver does with a second initialisation decides everything, and it
  is not in the repository.
- **Web pages**: the baud rate and break controls, the log page (the terminal page
  without input and reconnection), the upload page, and the rest of the third party
  scripts.
- HTTP status formatting, GPIO, the SWD delay formula, `ota_tftp_download` (no caller),
  the contents of packets and of flash blocks, and the creation of tasks failing for want
  of memory.  A semihosting call inside another one, and semihosting in `RunControl`.

Next: framing against a reference decoder, flash mode as part of `RunControl`, and a
specification of the conversation between one GDB and its server that `RunControl` implements.

The hazards each of these is for are listed with their lines in `PROJECT.json`.
