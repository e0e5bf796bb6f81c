# A verification development for xman

xman is a small Go framework for servers that talk to other servers: a proxy
that multiplexes calls over UDP and TCP connections, TCP and UDP servers with
sessions, and the utilities around them (timing wheel, configuration files,
rolling logs, a Redis cache, MySQL access, an HTML diff). This directory holds
TLA+ models of its components, TLC runs on small instances and TLAPS proofs for
all instances.

## The system

| component | state it keeps | operations | hard behaviours | correctness |
|---|---|---|---|---|
| RPC caller (`RequestToRemote`, `xman/xman_conn_proxy.go`) | a 32-bit counter per remote server, a `Request` with a one-slot reply channel per call | number, enqueue, wait for reply or timer, cancel | timeout races the reply; the number wraps; blocking sends outside the timer | a call returns once, its own reply or a timeout |
| UDP connection manager (same file) | `reqChan`, `sendChan`, `recvChan`, `reqMap` | event loop, send handler, receive handler | datagrams lost, duplicated, reordered, late; every channel bounded | the loop never blocks on a reply, `reqMap` does not leak |
| TCP connection manager (same file) | the same, and `closed`, `pauseConn`, two `srvStatus` | the same, and `tcpConnClose`, reconnecting | replies in batches; either handler may notice the end first | closed once, both handlers leave, callers return |
| server selection (same file) | `RemoteSrvChanList`, `srvIdx`, `allSrvNum`, `srvInfos` | register, choose (round robin), reconnect | the index is read outside its lock; a server is published before it is complete | a call never picks an empty slot or a dead server |
| TCP connection pool (same file) | a channel of managers | get, release, reconnect | dead connections are held until `Get` returns; `srvInfo` never set | no deadlock, nothing lost from the pool |
| TCP session (`xman/xman_session.go`) | `closed`, `stopSessionChan`, `pkgChan`, `sendChan`, time of the last read | three loops, a goroutine a package, `AsyncSend` | any loop may end first; full channels; idle clients; writes without deadline | closed once, all loops end, accepted replies are written |
| TCP server, UDP server (`xman/xman_tcp_srv.go`, `xman/xman_udp_srv.go`) | listener, the shared timing wheel | accept loop, receive loop | temporary accept errors; unbounded goroutines | each connection gets one session |
| global configuration (`xman/xman_global_config.go`) | maps of servers and connections | `InitFromConfig`, `SetSrvHandler`, `RunServer`, `Reload` | start-up order; early returns leave part of it registered | handlers set before servers run |
| timing wheel (`utils/xman_timewheel.go`) | a ring of channels, a position | `After`, `onTicker`, `Stop` | look-up under the lock, close outside it; ticks queue up | nobody wakes too early or never |
| connection pool (`utils/xman_conn_pool.go`) | a channel of idle connections | `InitPool`, `Get`, `Release` | `Get` releases what it returns; lazy initialisation | at most one user a connection |
| configuration files (`config/xman_config.go`) | sections, their order, options, a lock each | read, save, find, delete, set | locks leaked by early returns, nested read locks, deletion while ranging | order and contents agree; the lock is free after an operation |
| logging (`logs/xman_log.go`) | the open file, a suffix, limits | log, check size or date, rotate | test outside the lock, several callers of `fileCheck` | no line lost, newest files kept |
| Redis cache (`db/xman_redis.go`) | entries, and a hash of their names | put, get, delete, clear, counters | two commands a write; expiry; failures in between | `ClearAll` leaves nothing |
| MySQL access (`db/xman_mysql.go`) | a handle | statements | none of its own | - |
| HTML diff (`github.com/reechou/xdiff`) | the stages of one comparison; a queue of jobs that is never used | numbering, compression, LCS, shifting, reporting | boundary arithmetic; an array that is reused; termination | what is not marked is common and as long as can be; every change is shown |
| Youzan controller (`youzan/youzan_controller`) | rows in MySQL, a haunt end point | HTTP handlers | none of its own | - |
| daemonizing, demonstration programs | none | fork; start-up | - | - |

How they interact. A caller's goroutine hands a `Request` to the event loop of
one connection manager through `reqChan`; the loop alone touches `reqMap`; it
passes packages to its send handler through `sendChan` and gets replies from
its receive handler through `recvChan`; it answers through the caller's own
`RspChan`. A cancel takes the same way as a request. On the server side an
accept loop starts a session per connection; the session's receive loop calls
the unpack handler, which pushes packages on `pkgChan`; `pkgChanLoop` starts a
goroutine a package, which answers through `AsyncSend` and `sendChan`; the send
loop asks the server's timing wheel for a timer in every turn. Handlers may
themselves call `RequestToRemote`. The framework's configuration registers
servers and connections before `RunServer`; every part writes to the log.

## Modules

| module | models | how |
|---|---|---|
| `RpcService` | what `RequestToRemote` promises | abstract: a call is pending, answered with the reply made for it, or timed out |
| `RemoteCall` | callers, `reqChan`, `reqMap` | one action per blocking step of `RequestToRemote`; the `reqMap` operations both event loops share |
| `UdpConnProxy` | `UDPConnMgr` | extends `RemoteCall` with `loop`, `sendChan`, `recvChan`, and `wire`, the set of requests that reached the server, any of which may be answered again at any time |
| `TcpConnProxy` | `TCPConnMgr` and its server | extends `RemoteCall` with both handlers, the two byte streams as FIFOs of packages, `tcpConnClose`, and a server free to answer late, twice, never, or to close |
| `TimingWheel` | `TimingWheel` | time in intervals, channels numbered as they are made; the two halves of `onTicker` are two actions, since the lock ends between them |
| `TcpSession` | `TCPSession` and its client | the three loops and the handler goroutines, `Close`, the idle check, a client that may stop reading, fall silent or close |
| `Section` | `Section` | the file's lines for it, the map of options and the list of their names; each method is one action, since each holds the section's mutex throughout |
| `Configuration` | `Configuration` | sections by number, the list of names, the `RWMutex` (a waiting writer keeps readers out), the files; an operation is a place in `pc` before and after each `Lock`, `RLock` or system call |
| `ConnPool` | `TCPConnPool` with `tcpConnReconnect` | the channel as a FIFO of connections, one action per connection taken or released; what an operation has deferred is in `held` |
| `Startup` | `goServer`, `XMANGlobalConfig`, `RemoteSrvInfo`, the loops of both servers | one action per section of the file, per handler set, per server started; a registration is two actions, since it publishes before it dials; callers up to the channel of the manager they chose |
| `RollingLog` | `LogInfo`, `Log`, `fileMonitor` | the files as sets of numbered lines; what is under the mutex is one action, the tests outside it are others |
| `RedisCache` | `RedisController` | the server's entries and the hash of names; each command of an operation is an action that may fail, before or after its effect |
| `GoSlice` | the deletion loop of both | the array under a slice that is shortened while it is ranged over, turn by turn (`RangeStates`) |
| `Diff` | `diff_file`, and `do_diff` with `shift_boundaries` on two lines | one action for each function of the pipeline, or for one turn or call of it where it loops in place or calls itself |
| `FindEquivLines` | `find_equiv_lines` | the hash table, a chain of entries for each bucket; a line a turn |
| `Myers` | `algorithm_sms`, `find_one_sms` | the two searches with the array `v` they share; a loop is a function of the number of its turns |
| `...Proofs` | | theorems of the module of that name (`RemoteCall`, `UdpConnProxy`, `TcpConnProxy`, `TcpSession` with `TimingWheel`, `Diff` with `FindEquivLines`); `DiffCommonProofs` goes on from `DiffProofs` with `Myers` and all of `Diff`, `StartupPoolCacheProofs` is about `Startup`, `ConnPool` and `RedisCache`, `FileProofs` about `GoSlice`, `Section`, `Configuration` and `RollingLog` |
| `MC...` | | the instances TLC checks |

Where one proof module is about several components, their initial predicates,
next-state relations and specifications carry the component's name (`WheelSpec`,
`LogSpec`, `SectionSpec`, `CacheSpec`, `StartSpec`); elsewhere they are `Init`, `Next`, `Spec`.
`Section.DeleteOption` is the method `Delete` of `Section`.

Conventions. A goroutine's position is a variable where the code can block
there; a channel operation that can block is an action of its own, guarded by
room or by a head. What a goroutine does with state no other goroutine touches
is merged into the step that precedes or follows it (the receive from `reqChan`
and the map update, for one). Packages, requests and replies are numbers;
number `n` stands for call `n`'s package, request and reply alike, so that a
mixed-up reply shows. The sequence number is `n % SeqMod`. The package that
packs and unpacks the demonstration protocol is not part of the repository;
packing is taken to carry the sequence number unchanged, as the callers of
`PackHandler` and `UnpackHandler` rely on, and a datagram that does not unpack
is `None`.

Model state and code:

* `RemoteCall`: `calls` is `remoteSrvSeq` before truncation; `pc[n]` is
  `numbered` before line 88, `waiting` at the select of line 90, `cancelling`
  between line 94 and the send of line 95. `StartCall` is atomic because what
  it does up to line 88 but for the counter is local.
* `UdpConnProxy`: `loop.at` is `select`, `send` (blocked at line 241) or `reply`
  (at line 254). `RecvHandler` receives any earlier request's reply or noise.
* `TcpConnProxy`: `loop.at = "batch"` is the range over `seqMap`; `readBatch` is
  what line 455 is about to push. `SeqMap` keeps, as a Go map does, one reply a
  number. `pauseConn = "panic"` would be the second close of the channel.
* `TcpSession`: `recvLoop = "push"` is the unpack handler blocked on `pkgChan`;
  `silent` counts the check periods since the last read; `timer` says whether
  the select of `sendLoop` was entered a period ago. Any package may follow any
  other in one read, or none be complete. A handler may answer (`AsyncSend`)
  or have nothing to answer (`NoAnswer`).
* `Section`: names, values and lines are sequences of characters, since what a
  line means depends on them: `parseOption` splits at the first `=`, without one at
  the first `:`, and trims both parts, but not a name alone (lines 391-408).
  `Text` is what `String` prints, and `ReadOptions` makes of it what `Read` would:
  a line that begins with `#`, `;` or `[` is no option. `Plain` says which names
  and values come back from their line. `file` is kept to tell the options that
  the file repeats. `Empty` is both the value of a line without one and what a Go
  map yields for a missing key. No character is an end of line.
* `Configuration`: `pc = "saving"` and the like stand between the two halves of
  `Lock`, "wait for the readers"; `outer` and `inner` are inside one and two
  `RLock`s of `String` or `PrintSection`; `flush` is between the deferred
  `Unlock` and the deferred `Flush` of `Save`. `FoundNames` are the names of what
  `Find` returned, `regex` what the list is matched with afterwards: the set of
  names it matches.
* `ConnPool`: `held` is what the deferred calls of `Release` (lines 542, 562) are
  to give back, `result` what the `return` or the panic of lines 548 to 575
  leaves with while they run. The panic is recovered by whoever called, or it is
  the last step. `Lose` is `tcpConnClose`, at any time. `srvInfo` is that of each
  manager and of the pool, nil as `NewTCPConnPool` leaves it; `SetInfo` is the
  assignment through it, of lines 493 and 548, and panics on nil. `Redial` is what
  follows a dial that succeeds: line 493, and line 567 only if that did not panic.
* `Startup`: `main.at` walks through `InitFromConfig` and the program's own calls
  to `RunServer`; `srv[i]` is `listening` after `NewTCPServer` or `NewUDPServer`,
  `started` between the `go` statement and the loop's test of its handlers.
  `srvInfos[k].connMgr` is false between lines 182 and 333 of
  `xman_conn_proxy.go`. `caller` is before the lock, between `addSrvIdx` and the
  second read of `srvIdx`, or after it. Every panic and `os.Exit` is a value of
  `fault`. The configuration is chosen at the start, any at all.
* `RollingLog`: `old[n]` is the file `name.n` or that of day `n`. `ifExistFile` is
  what the code says, true when there is no such file. `at` is `rolling` between
  the test outside the lock and the lock, and `ended` when the program ended
  between `os.Rename` and `os.Create` (lines 250, 251), where all that is left to
  it is to be started again; elsewhere `Restart` may come at any step. `intact`
  records that no rename or create failed, `since` the file that was being
  written when a restart last numbered the backups anew.
* `RedisCache`: `todo` is what the operation has still to send, so that other
  clients come in between. `alone` and `raced` are history: who has overlapped
  whom, and the keys that no promise is made for. Time only shows in `Expire`.
* `Diff`: `mode` is `lines` for two files, whose lines are numbered and compressed
  first, and `runes` for two lines, compared directly (line 850). `stack` holds
  the calls of `algorithm_lcs` still to come, `v` is passed from one to the next
  with what the last one left in it. `start` is the cursor of
  `shift_boundaries`, `ops` the group `report_diff` is gathering, `shown` what
  went to the output's `diff_lines`. The package's flags have their initial
  values, since nothing sets them: lines are compared exactly, blank ones count.

## Runs

| run | instance | what it shows |
|---|---|---|
| `Udp` | 3 calls, numbers modulo 4, channels of one | `OwnReply`, `RspSlotFree`, `NoOrphan`, `KeepsWaiters` whatever the network does; `ImplementsRpc`, refinement of `RpcService` with its liveness; `Drained` |
| `Tcp` | 3 calls, channels and request stream of one, 2 answers | `ClosedOnce`; refinement of `RpcService!SafeSpec`; `ReturnsUnlessStuck`, `BothLeave` |
| `TcpDown` | 3 calls | violation: see Findings |
| `TimingWheel` | 2 waiters, 3 buckets, timeouts to 3, 6 intervals | `NeverEarly`, `FiresInTime`, `NeverClosedTwice`, `AlmostPunctual` |
| `Session` | 3 packages, channels and stream of one | `ClosedOnce`; `LoopsEnd`, `RecvEndsOrLeaks`, `SilentIsDropped`, `AcceptedIsWritten` |
| `Section` | 8 characters, 3 names and 3 values to call with, every file of up to 3 out of 5 lines | `TextIsTrue`, `DeleteKeepsOthers` |
| `Config` | 2 goroutines of 2 operations, 3 names, 4 sections, a regex for one name and one for two | `OrderIsReal`, `SomeCopy`, `DeleteKeepsNames`; `Finishes` |
| `Diff` | all pairs of files of up to 4 lines over 3 values, 5 over 2, and two of 7; the same as lines of runes | `NumbersAreLines`, `KeepsCommonText`, `MarksFewest`, `ShowsTheChanges`; `Terminates` |
| `Pool` | 4 goroutines, one of which repairs, 4 connections, 4 operations | `EveryConnOnce`, `KeepsOnlyDead`; `ReturnsUnlessStuck` |
| `Start` | every file of up to 2 servers and 2 remote servers, 2 callers, room for 3 remote servers | `PreparedIsSafe`; `WaitersAreServed` |
| `Log` | 2 goroutines, 8 lines, files of 2 lines, 2 backups, 3 days, 2 restarts | `KeepsTail`; `OncePerDay`, `FullIsReplaced` |
| `Redis` | 2 clients, 2 keys, 5 operations | `NamedUnlessRaced`; `ClearAllClears` |

Bounds. Three calls are the least that fill a channel of one, block the next
caller and leave the event loop busy with another; modulo 4 keeps them apart
(what holds when numbers wrap is proved, not run). A TCP call waits outside its
select when the stream (`NetCap` of one) holds a package, `sendChan` another and
the event loop a third, which takes three calls: then the cancels of two of them
fill `reqChan` and wait at line 95 behind a server that keeps the connection open
and does not read. A call that waits at line 88 is reached with a connection
that is lost; behind an open one it would take a fourth call. Two answers, both of
them to one request if the server likes, give late and doubled replies, and two
in one batch. Three buckets
make the ring turn twice in six intervals and let a timeout equal the wheel.
Three packages over channels of one put one package in the unpack handler, one
in `pkgChan` and one in a handler. Three lines are the least with a repeated
option and a neighbour to lose; among them, and among the names and values, are
some with either separator, with both and with blanks around. One section more
than names, and two operations each, let a section be added between the halves of
the other goroutine's Delete and a second Save meet what a first one left. Of the
names `g`, `s`, `t` in that order one regex matches `t` and one both `g` and `s`:
the loop skips `s`, and goes out of bounds once `t` has been deleted. Four lines over three values give runs of lines that one file lacks, chunks that
merge upwards and downwards, and, of the three values, two with one hash and a
third in their bucket. Five lines over two give searches from both ends that
meet after several rounds. Two of the files are long enough, with `Context` 2,
for two groups; the code's context is 3. An operation of the pool gives up after
half of the connections, so four are the least of which one operation can hold a
dead one and go on looking; four users then hold all four and wait for a fifth.
Two remote servers from the file and one from the reload handler fill an array
of three (16 in the code), so that the next registration is one too many, and
let the index wrap while two callers stand between its two reads. Three files of
two lines hold six of the eight lines of a run, so that the ring of backups wraps
without a restart as with one; two restarts let the second find the numbering of
the first, and eight lines leave a rotation for each. Two clients and two keys give an overlap on one key with another key to
tell it from, and five operations a Put each, a failure, an overlap and a
ClearAll after it. What is proved (below) does not depend
on any of these.

Deadlock is checked in the UDP run and in `Diff`. It is not in the others, which really may
stop: after a TCP connection is lost the event loop can block for ever; a wheel
runs out of `MaxTime`; a session ends; a section may panic; goroutines use up
their operations (`MaxOps`, `MaxCalls`) or wait for a lock that is never given
back, or for a connection that nobody will release; a program ends by a panic or
an exit, or runs out of lines and days.

Fairness. Every goroutine that can run eventually does (weak fairness on its
steps), timers fire, and since Go's select picks at random among ready cases no
ready case is passed over for ever (strong fairness on cases that compete).
Nothing is assumed of networks, servers or clients: no fairness on `RecvHandler`,
`ServerRead`, `ServerReply`, `ClientRead` and so on. For a write to a stream
nobody reads no progress is assumed either: it is disabled.

Four properties say exactly how much the code gives. `ReturnsUnlessStuck`: a TCP
call may never return, since the sends of lines 88 and 95 stand outside the
select with the timer, and the event loop may be stuck behind a `sendChan` that
nobody drains. `RecvEndsOrLeaks`: a receive loop of a closed session may be
left behind for ever on a full `pkgChan`. `Finishes`: an operation on a
configuration returns unless a failed `Save` kept the lock (`Leaked`), a
`String` or `PrintSection` met a writer between its two read locks (`Crossed`),
or the loop of a `Delete` ended the program.
`ReturnsUnlessStuck` of the pool: `Get` and `Reconnect` return unless operations that
wait for one more hold every connection, all of them dead (`Stuck`).
Every exception is reachable.

The diff is one goroutine, which goes on until it is done (`Fairness`, stated
without `ENABLED`: there is always a step until then, as deadlock is checked).

Fairness of the configuration is weak, on each goroutine's operation once begun;
that Go hands a lock on to those who wait need not be assumed, since every
goroutine does finitely much. `SomeCopy` is stated for one saver: two that save
to one path can rename the first one's empty file over the backup. `OrderIsReal`
is about names that no expression matches together with another (`MatchedAlone`):
what the loop of `Delete` leaves of several is the subject of `DeleteKeepsNames`.

Of the other modules, `ConnPool` takes each goroutine's operation to go on
(weakly fair), `RollingLog` the monitor's ticker and goroutine, `Startup` main
and each server's loop; in `Startup` the program's end excuses everything.
Nothing is assumed of clients, remote servers, the date or the file system, and
`RedisCache` assumes no fairness at all.

## Findings

`TcpDown`: `chooseRemoteSrv` declines a call whose server has lost its
connection (`ErrRemoteSrvUnConnect`, "Remote SRV not connected.") and tries to
reconnect, by `SrvInfo.srvStatus`. `tcpConnClose` does not set that field: line
464 is commented out and line 465 sets the manager's own `srvStatus`. Calls go
to a closed connection and nothing reconnects it.

Other observations, which the models show but no run of its own:

* Configuration. `Delete` takes names out of the map by what `Find` returned
  before the write lock, and out of the list by the expression as it matches
  then: a section added in between stays in the map alone, and `AllSections`,
  "a slice of all sections available" (line 183), `String` and `Save` pass over it.
  `DeleteSection` "deletes the specified sections matched by a regex name" (line
  144), but the loop that shortens `orderedSections` while ranging over it skips
  the second of two neighbours that match, or panics out of bounds;
  `Section.Delete` has the same loop. `DeleteKeepsNames` and `DeleteKeepsOthers`
  say when it panics and that it does nothing worse. The deferred `Close` of
  `Save` overwrites the error of the deferred `Flush`: a `Save` that did not write
  returns nil.
* The text of a section. `SetValueFor` of an option the section does not have puts
  it into the map and not into `orderedOptions` (line 294): `String`, and so what
  `Save` writes, lacks it. `Add` lists it. Names and values are printed as they
  are (lines 352-357) and trimmed, split and classified when they are read (lines
  391-408): `Add("o", " v")` reads back as `v`; the line `a:b=`, an option `a:b`
  without a value, is printed as `a:b` and reads back as `a` with value `b`; a name
  with a `=` is split there; one that begins with `#`, `;` or `[` becomes a comment or
  a section, and an empty name without a value an empty line. Only names and values
  that are `Plain` come back, and `TextIsTrue` is about sections of these.
* Connection pool. Neither `TCPConnPool.srvInfo` nor the managers' `srvInfo` is ever
  set: a `Get` that finds no connection alive panics instead of returning
  `ErrTCPConnPoolGet`, and a `Reconnect` whose dial succeeds logs "reconnect
  success." (line 491) and panics at line 493, before line 567 would have set the
  connection's status OK. No connection of a pool is ever repaired. With `maxIdle`
  of 4 or more, concurrent operations on a pool of dead connections can wait for
  each other for ever.
* Session. `AsyncSend` has `ErrStopped` for a session that has stopped, but with room
  in `sendChan` its select may as well take that case (line 147): nil is returned,
  and nobody writes the reply. `AcceptedIsWritten` allows it.
* Start-up. Callers that overlap may take the same server, since `srvIdx` is read
  again outside the lock. A caller panics on a remote server that is published but
  not connected; a remote server that sends before `SetConnHandler` makes the
  receive handler call nil. The handlers of the other protocol fail a type
  assertion in `SetSrvHandler` and `SetConnHandler`. `udp` Conn sections are skipped without a word.
  `RunServer` never returns.
* Logs. `ifExistFile` is true when the file does not exist. So a daily log never
  rolls unless the dated file is there already, and a program that is started again
  over the backups of an earlier one starts numbering at 1, whichever of them is
  the oldest: of the lines in them any may go first, and `KeepsTail` speaks of the
  lines since the file that was being written then. No error of `Rename` or `Create` changes what follows: a failed rename
  truncates the file, and after a failed create lines are dropped at least until
  the next rotation.
* Redis. `ClearAll` does not find what `Incr` made, nor what a failed or overlapped
  `Put` left without a name; `NamedUnlessRaced` says that there is no other case.
  A `Put` between the `HKEYS` of a `ClearAll` and its `DEL` of the hash (line 145)
  leaves an entry whose name is gone, which no later `ClearAll` finds.
  `do` dereferences nil when `Dial` fails.
* Diff. When two changes are further apart than `flag_context_lines` and not more
  than twice as far, `add_change_segment` keeps them in one group but shows only
  the lines before the second (`Leading`): the context after the first is left out.

## Proofs

TLAPS checks, for every value of the constants under their assumptions (at
least one slot a channel, at least one number, at least one bucket, a ring of at
least two backups), what follows. Every safety property of a passing run is proved but
`MarksFewest` of `Diff` (see the end of this section). Some theorems no run lists, since
they say more than a run could: the `...TypeOK`, `UdpSameSeqReply`,
`TcpRspSlotFree`, `TcpHandlersLeaveTogether`, `SessionLeaverCloses`,
`SessionOnePlace`, `PoolRoomToRelease`, `PlainReadsBack`, `EquivIdsAreLines`,
`DiffMarksFit`, `DiffKeepsText`, `SnakeFound`.

* `RemoteCallProofs` has the invariant `CallInv` of callers and `reqMap`, and a
  lemma for each operation that keeps it. `CallInv` follows a `Request`: it is in
  `reqChan`, then in `reqMap`, then its reply is in `RspChan`, never in two of
  them, and a cancel is behind the request it cancels. None of the properties is
  inductive alone: `RspSlotFree` needs that a request in the map is unanswered,
  which needs that it is not also in the queue, which needs that it was sent
  once. `UdpConnProxyProofs` and `TcpConnProxyProofs` add what their event loop
  holds and reuse those lemmas.
* UDP: `UdpTypeOK`, `UdpRspSlotFree`, `UdpNoOrphan`, `UdpSameSeqReply` without any
  assumption on wrapping; `UdpOwnReply`, `UdpKeepsWaiters`, `UdpImplementsRpc`
  (safety part of `RpcService`) under `NoWrap`, no more calls than numbers.
* TCP: `TcpTypeOK`, `TcpRspSlotFree`, `TcpNoOrphan`, `TcpClosedOnce`,
  `TcpHandlersLeaveTogether`; under `NoWrap` `TcpOwnReply`, `TcpKeepsWaiters`,
  `TcpImplementsRpc`.
* Timing wheel: `WheelTypeOK`, `WheelNeverEarly`, `WheelFiresInTime`,
  `WheelNeverClosedTwice`, `WheelAlmostPunctual`. The invariant: the slot `i`
  places ahead of the wheel holds channel `swaps + i`, closed channels are those
  below `swaps`, and of the ticks since a call at most two are older than it.
* Session: `SessionTypeOK`, `SessionClosedOnce`, `SessionLeaverCloses`,
  `SessionOnePlace`. The invariant: `closed` and `stopSessionChan` move together,
  no loop runs before `Start`, and what is read but not pushed keeps the receive
  loop in the unpack handler.
* Start-up: `StartTypeOK`, `StartPreparedIsSafe`. `PreparedIsSafe` is not
  inductive: it needs that an index a caller read without the lock is still below
  the number of remote servers, which needs that servers are only added and that
  `srvIdx` is taken modulo a number that was right at the time; and that every
  remote server but the one being registered has its `connMgr`.
* Pool: `PoolTypeOK`, `PoolEveryConnOnce`, `PoolKeepsOnlyDead`,
  and `PoolRoomToRelease`, by which a deferred `Release` never blocks on a full
  channel. The invariant adds that an operation with something to return has a
  connection deferred. The assumptions are that the connections are finitely many
  and are none of the values that stand for an operation's end.
* Redis: `CacheNamedUnlessRaced`, `CacheClearAllClears`, from finitely many keys. The
  invariant lists what each operation may have still to send, and what one that has
  been alone since it began may rely on: a Delete or IsExist about to take a name
  out, that its entry is gone; a ClearAll in the middle, that every entry left, but
  tainted ones, is still to be deleted. Without it a step that takes a name out
  could leave an entry behind.

* Loops over slices and texts (`FileProofs`, `DiffProofs`, `DiffCommonProofs`). The model has them as
  recursive functions of the turn, and what holds after every turn is shown
  without an induction theorem that takes an operator: `Induction` says that a set
  which has 0, and `i + 1` with every `i` it has below `n`, has all up to `n`, by the least number it
  does not have (`LeastNumber`, from the well-foundedness of the naturals). The
  set is then "the turns after which ...". That the recursive definition has a
  solution at all is proved the same way (`RangeStatesDef`, `KeptUpToDef`).
* Configuration: `ConfigTypeOK`; `ConfigSomeCopy` if `OneSaver`; `ConfigOrderIsReal`
  and `ConfigDeleteKeepsNames` whatever expressions are used. `OneSaver` is about
  how the program uses the module, and needed: with two savers TLC finds the
  file and its backup both empty. `SomeCopy` is not inductive: `DiskInv` adds that
  the file a `Save` has open is the one under the path, that it alone is empty,
  and that a backup other than it exists meanwhile. `OrderInv` adds that what a
  `Delete` found still has names its expression matches when it gets the lock; a
  name matched alone is then out of the list (`DeletedIsGone`) or not touched
  (`RangeDeleteRest`). `DeleteKeepsNames` rests on two facts about the loop for any
  list and any set of matches, `RangeDeleteOthers` and `RangeDeletePanic`.
  `ConfigTypeOK` needs that the read locks a goroutine holds are those of the
  place where it stands.
* Section: `PlainReadsBack`, for all words: a name and a value come back from the
  line they are printed as if and only if they are `Plain`. `SectionTextIsTrue`,
  `SectionDeleteKeepsOthers`, for every alphabet that has the separators. The
  invariant: an option listed once in the file at most is listed once at most, and
  then has an entry. The first is about those options, in a section whose listed
  names and values are plain; the second about repeated ones too.
* Logs: `LogTypesHold`, `LogKeepsTail`, `LogOncePerDay`. `LogInv` keeps apart the two
  kinds of rotation, since only the monitor rotates by size and only the loggers by
  day. By size: the files from the suffix on, around the ring, hold one interval of
  the lines since `since` after the other, whichever of them a restart goes on
  from (`BySize`). By day: the current file holds the last lines, the dated ones
  what came before, and none is dated in the future (`ByDay`). The current file may
  be missing only if the program ended between its two system calls, and the
  interval it would hold is then empty.
* Diff: `DiffNumbersAreLines`, from the invariant of the hash table (`ClassInv`), that
  a chain has lines of its bucket only and that entries of any chains have the same
  number just when they have the same line
  (`EquivIdsAreLines` says so for any texts). `DiffKeepsText`: once marked, no step
  changes the text of either side without what is marked. A chunk that
  `find_shift_boundary` lets go `n` up has `n` unmarked items before it, equal to its
  last `n` (`Upwards`; `Downwards` for the other way); then `MovedKeeps` says that the
  kept text is the same after `do_shift_boundary`. The invariant `DiffInv` is that
  marks, numbers and text have the same length and equal numbers stand for equal
  items.
* Diff, the common text (`DiffCommonProofs`): `DiffKeepsCommonText`, the correctness
  of all stages taken together, for all files, hash functions and scores. A point
  of two texts is a place in each; from one point another is linked if every set
  that is closed under stepping over a marked item, or over two equal unmarked
  ones, and has the first has the second (`Linked`). If the ends are linked to the
  starts, the texts without what is marked are the same (`LinkedKeepsText`). The
  invariant `CommonInv` is about the links that each stage has made so far:
  what `compress_equiv_ids` passed over is linked, from the start and to the end
  (`Framed`); equal entries of the rest stand for one line each, an equal one
  (`Twins`, since new negative numbers are used once); the subproblems that wait
  on the stack of `algorithm_lcs` are in order, nothing in them is marked, and what
  is between two of them is linked (`Solving`); and `expand_change_list` turns links
  of entries into links of lines (`ExpandedLinked`). That a call of `algorithm_lcs`
  keeps `Solving` needs that what it divides at is in range: `SnakeFound`. The loops
  of `find_middle_snake` do not stop at the ends of the texts, so the search
  reaches diagonals and positions outside of them. Three facts keep the snake
  inside. A layer of the search is never out of range on the diagonals that are
  compared with the other search, and beyond them by no more than one for every
  diagonal (`Upper`, and the same with both texts exchanged, `Within`); it is at
  least as far as the number of steps along a text (`Reached`), so that the
  searches must meet before the distance is the length of both texts
  (`SearchEnds`); and the entries of a layer lie in the half of the array that
  belongs to its search and are never those the same loop still reads
  (`ForePlaces`, `BackPlaces`), whatever an earlier call left there.
* Diff, the report (`DiffCommonProofs`): `DiffShowsTheChanges`, for all files and any
  `Context`. The invariant `Reporting` is about the two cursors of `report_diff`:
  the ops shown or gathered so far, all in one list, follow on one another, and
  every marked line up to the end of the last one is in an op that shows it as
  changed (`Listed`); from there to the cursors nothing is marked and the two files
  are the same. The first half is what `add_change_segment` keeps, since the context
  after one change and before the next do not overlap when a group is closed
  (`FarApart`). The second needs `DiffKeepsCommonText`: as much is kept of both files
  before the cursors (`KeptBoth`), so two kept lines that they come to at a time
  are the same (`KeptNext`), and none can be left of one file only (`KeptNoMore`).
  Therefore the branch of `report_diff` marked "should not reach here" is never taken and the
  last group is shown (`EndsTogether`).

Only model-checked:

* All liveness, which is out of the prover's reach: `Drained`, `ReturnsUnlessStuck`
  (both), `BothLeave`, `LoopsEnd`, `RecvEndsOrLeaks`, `SilentIsDropped`,
  `AcceptedIsWritten`, `Finishes`, `Terminates`, `WaitersAreServed`, `FullIsReplaced`,
  and the liveness of `RpcService`.
* `MarksFewest`, that no comparison marks less: it needs that a layer of the search
  is the furthest any path of that many steps reaches, against all other paths.

## Not modelled

* `tcpConnReconnect` in `TcpConnProxy`: nothing reaches it there (see Findings); it
  is in `ConnPool`. `tcpConnPause` and the reconnect ticker are called by nothing.
  For the same reason the branches of `chooseRemoteSrv` for a server that is not
  OK. `RegisterUDPConn`, which nothing calls either, registers in the two steps of
  its TCP counterpart.
* The generic connection pool of `utils`: nothing uses it. Its `Get` puts a
  connection back before it returns it, so there is no state to speak of.
* A write that fails while the connection is still open and a read error other
  than the end of the connection, beyond what `SendFail` and `RecvFail` say.
* Log levels, the console, wording, the packing of packages.
* Ends of lines within names and values, and a section's own header: that `[name]`
  reads back is taken for granted. Blanks other than the space.
* A redis command that timed out and is run by the server after its error was
  returned; `Get`, which changes nothing.
* `NewSection` while another goroutine is inside `Configuration`: it takes no
  lock, so it is a data race, and `Quiet` leaves it out. Expressions that do not
  compile, names `Sections` does not find.
* Of the diff: reading and splitting files, binary files, walking two directories,
  writing HTML, and the job queue: its workers start only if
  `flag_max_goroutines` is more than 1, which nothing makes it.
* Daemonizing, MySQL, the Youzan controller's SQL and HTML: no state of their
  own to speak of. The demonstration programs only fix how the library is used.

## Plan

In this order:

1. `MarksFewest`, from the layers of `DiffCommonProofs`: that they are the furthest
   reaching ones, and that the two halves of a middle snake are as short as the
   whole.
2. Walking two directories in step (`diff_dirs`), with the diff.
3. A handler that calls a remote server: `TcpSession` and `TcpConnProxy`
   composed, under `Startup`'s accept loop.
