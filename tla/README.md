# A TLA+ verification of rusty_libc

rusty_libc is a `no_std` Rust crate that talks to the Linux kernel directly:
thin wrappers over system calls on x86_64 and aarch64, and on top of them the
few pieces that hold logic of their own (spawning through `vfork`, retry loops,
a DNS stub resolver, the vDSO clock cache, record iterators, wait-status
decoding, signal set-up). This directory models both in TLA+: the pieces with
logic step by step, and the wrappers inside the small programs their
documentation describes (a job-control shell, an event loop, a line editor, a
tracer). TLC checks them on small instances, and TLAPS proves all but two of the
safety properties for every instance.

Source paths below are relative to `src/src/`. `PROJECT.json` maps every
definition to the lines it models.

## 1. Inventory

| Component | State | Operations | What is hard about it |
|---|---|---|---|
| Process creation (`process.rs` 726-843, `arch/*.rs` trampolines) | registers of the child, two descriptor tables, the borrowed stack | `vfork_exec`, `vfork_exec_redirected` | the child runs on the parent's memory; a loop in assembly whose counter lives across system calls; failures visible only in an exit status |
| Process handles (`process.rs` 403-655) | pid numbers and pidfds | `fork`, `fork_with_pidfd`, `pidfd_open`, `kill`, `pidfd_send_signal`, `exit_group` | pid numbers are recycled while other threads reap |
| Groups and sessions (`process.rs`, `termios.rs`) | group, session, parent, foreground group | `setpgid`, `killpg`, `setsid`, `set_pdeathsig`, `tcsetpgrp` ... | parent and child race to place the child; a parent that dies before the child arms its signal |
| Credentials (`process.rs` 34-206) | three user ids, three group ids, groups, per thread | `setuid` ... `setgroups` | the order of dropping privilege; one thread against the process |
| Priority and limits (`process.rs` 208-254, `rlimit.rs`) | nice value, `RLIMIT_NICE` | `nice`, `setpriority`, `prlimit` | `nice` is three calls and a 32-bit sum |
| Wait status (`wait.rs`) | the unreported change, the caller's view | `waitpid`, `waitid`, the decoders | two encodings of one event; peek and reap; WNOHANG's zero word |
| ptrace (`ptrace.rs`) | the stop a child is in, its registers | resume requests, register sets, options | entry and exit stops look alike; a stop swallows a signal |
| Signals (`signal.rs`) | dispositions, mask, pending set, handler frames, signalfd | `install`, `sigprocmask`, `sigsuspend`, `signalfd` | a signal between the check and the wait; coalescing; nested handlers; the x86_64 restorer |
| Event loop (`fd.rs` poll, `epoll.rs`, `eventfd.rs`, `signal.rs` sigqueue) | counter, signal queue, ready list | `poll`, `epoll_*`, `eventfd`, `sigqueue` | arrivals between wait and read; edge triggering; a full event array |
| Clock and vDSO (`vdso.rs`, `time.rs` 38-90) | one relaxed atomic word, one descriptor during resolution | `clock_gettime`, `lookup` | threads racing through resolution; failure cached; an ELF walk by hand; the vDSO declining a clock |
| Sleeping (`time.rs` 105-250) | the time left, the deadline, a timer | `nanosleep`, `clock_nanosleep`, `timerfd_*` | `EINTR`, latency, a clock that is set |
| Byte I/O (`fd.rs` 176-208, 372-386) | the slice still to write, the count read | `write_all`, `read_all` | short transfers, `EINTR`, interleaved writers, end-of-file against an empty pipe |
| Positioned and vectored I/O (`fd.rs`) | one file, one shared offset | `pread` ... `pwritev`, `lseek`, `ftruncate` | which calls move an offset others share |
| Descriptors, pseudo-terminals (`fd.rs`, `tty.rs`) | the shared table | `open`, `dup*`, `pipe2`, `fcntl`, `close`, `openpty` | four calls that may each fail, among other threads; `dup2` emulated on aarch64 |
| Terminal attributes (`termios.rs`) | attributes, input and output queues | `tcsetattr*`, `make_raw`, `tcflush`, `tcflow` ... | flags that depend on the previous ones; output still queued |
| File system (`fs.rs`, `umask.rs`) | names, inodes, umask | the path calls | names that change between two calls; calls that follow a symlink and calls that do not |
| Directory records, inotify (`fs.rs` 533-627, `inotify.rs`) | a position in a buffer, an event queue | `getdents64`, `dirents`, `inotify_*` | packed, padded records; changes during a listing; queue overflow |
| Memory (`mmap.rs`, `fd.rs` fsync, `process.rs` process_vm) | page cache, disk, swap, locks | `mmap` ... `msync`, `fsync`, `process_vm_*` | crashes, swapping, segments that do not line up |
| Sockets (`socket.rs`) | connections, queues, names | `bind_in` ... `shutdown` | byte order, half-closed connections, lost datagrams |
| DNS query loop (`dns.rs` 73-130, 262-343) | one socket, two loop counters, a query id | `query`, `resolve_a`, `resolve_aaaa` | lost, late, duplicated, reordered and foreign datagrams; timeouts |
| DNS wire format (`dns.rs` 132-260) | a position in a buffer | `build_query`, `parse_header`, `skip_name`, `parse_answers_*` | lengths and counts chosen by the sender |
| Errno decoding, sysinfo, random, crate root | none | one call or test each | |

How they interact: everything reaches the kernel through `arch` and `from_ret`.
`vfork_exec*` produces children whose exit status is read with `wait.rs`
(`VforkExec` extends `WaitStatus` for exactly that, and so does `Tracer`).
`dns.rs` calls `fd.rs`, `socket.rs`, `rand.rs`. `time.rs` calls `vdso.rs`, which
calls `fd.rs`. `JobControl` composes `process.rs` with `termios.rs`, `EventLoop`
composes `fd.rs`, `epoll.rs`, `eventfd.rs` and `signal.rs`, `DirWatch` composes
`fs.rs` with `inotify.rs`, `Memory` composes `mmap.rs`, `fd.rs` and `process.rs`. There
are no locks and no callbacks except signal handlers; the one shared mutable word
is the vDSO cache. Concurrency comes from the kernel: child processes, other
threads of the program, signals, the network.

What makes each component correct is the list of properties in section 4; what
can go wrong and is hard to test is `hazards` in `PROJECT.json`, each at its line.

## 2. Modules

| Module | Models | Uses |
|---|---|---|
| `WaitStatus` | the status word: the kernel's encoding (external) and the decoders | |
| `VforkExec` | both spawn functions over both trampolines | `WaitStatus` |
| `ProcHandle` | pids and pidfds of a child while numbers are recycled | |
| `JobWait` | `waitpid`/`waitid` driving a job-table entry | `WaitStatus` |
| `Tracer` | a tracer and its child, stop by stop | `WaitStatus` |
| `JobControl` | a shell, a job of two processes, a daemon, the terminal | |
| `Credentials` | the ids of the threads of one program | |
| `Priority` | `nice` against an administrator | |
| `ChildWatch` | block, check, wait with `sigsuspend` or a signalfd | |
| `EventLoop` | a loop over `poll` or `epoll` | |
| `VdsoClock` | the auxiliary vector, the ELF walk and `clock_gettime` over the cached entry | |
| `Sleep` | resumed, periodic and timerfd sleeps | |
| `ByteStream` | what `write_all`/`read_all` promise (abstract) | |
| `PipeIo` | the two loops over a kernel pipe | `INSTANCE ByteStream` |
| `IoVec` | the segment lists of vectored calls | |
| `FileIo` | a here-document with a shared offset | `IoVec` |
| `Sockets` | an echo server and its clients, TCP or UDP, IPv4 or IPv6 | |
| `DnsQuery` | the resolver's rounds over servers and network | |
| `DnsParse` | the reply parsers, turn by turn | |
| `DnsReply` | `build_query` and a server's reply to it (external), in front of the parsers | `INSTANCE DnsParse` |
| `DirWatch` | listing a directory and following its events | |
| `FdTable` | descriptor calls and `openpty` by threads sharing a table | |
| `Fs` | path calls in three scenes | |
| `Memory` | mappings, flushing, locking, reaching into another process | `IoVec` |
| `Terminal` | a line editor's use of the attributes | |
| `WaitTrace` | names for JobWait and Tracer together | `INSTANCE` of both |
| `JobsIds` | the same for JobControl and Credentials | `INSTANCE` of both |
| `Times` | the same for Sleep and VdsoClock | `INSTANCE` of both |
| `Io` | the same for PipeIo, Sockets and FileIo | `PipeIo`, `INSTANCE` of the others |
| `Resources` | the same for FdTable and Memory | `INSTANCE` of both |
| `Tty` | names for Terminal | `INSTANCE` |
| `ShellProofs` | theorems about VforkExec and Terminal | `VforkExec`, `Tty` |
| `ChildrenProofs` | about ProcHandle, JobWait, Tracer and WaitStatus | `ProcHandle`, `WaitTrace` |
| `JobsIdsProofs` | about JobControl and Credentials | `JobsIds` |
| `TimesProofs` | about Sleep and VdsoClock | `Times` |
| `StreamsProofs` | about PipeIo and Sockets | `Io` |
| `DnsProofs` | about DnsQuery and DnsParse | `DnsQuery`, `DnsReply` |
| `FsProofs` | about Fs | `Fs` |
| `ResourcesProofs` | about Memory, FdTable and ChildWatch | `Resources`, `ChildWatch` |
| `MC*` | values for the constants, and the components of a run | |

The six modules of names give each component's variables names that do not
clash, state the assumptions on its constants, and name its properties once, so
that the runs and the theorems speak of the same definitions. A theorem is of
its component's own specification (`N!Spec`, say), not of the choice a run makes.

Components that ask related questions share a run. They share no state of the
code, so `MCProcesses`, `MCEvents`, `MCIo`, `MCRecords` and `MCResources` choose in
`Init`, with the variable `which`, the one a behaviour is of, and leave the
variables of the others at one initial state. A run's states are the sum of its
components' states, never the product, and each component is checked as if alone.
TLC's coverage shows every action of every component taken; the only branches never
taken are results a correct program does not provoke (a panic of an iterator, a crash
for want of a restorer, `ESRCH` from a resume outside a stop, a refused connection).

Definitions keep the source's names (`vfork_exec_redirected`, `skip_name`,
`sigprocmask`). Names like `wtermsig_lowbyte` are deliberately wrong variants
of the definition that follows them, used to show that a property can fail.

### State and actions against the code

* **VforkExec.** `Clone` starts the child with a copy of the parent's table
  (no `CLONE_FILES`) while the caller is `"suspended"` (`CLONE_VFORK`). The child
  is a program counter over the trampoline's labels and the counter register `i`;
  a step is one system call with the instructions up to the next. `arch` is
  chosen in `Init`; on x86_64 the `syscall` instruction leaves the return address
  (`RetRip`) in `rcx`, which is the register that holds `i`; on aarch64 `svc`
  preserves it. Other threads close descriptors, the child can be killed, and the
  executed program may exit with any code, 126 and 127 included. `tabs` is a
  history of the child's tables.
* **ProcHandle.** A table from numbers to processes. The program's main thread
  forks, opens a pidfd and signals; another thread of it reaps; other processes
  start and end around it.
* **JobWait.** The kernel keeps one unreported change (`fresh`); `waitpid`
  and `waitid` return it or nothing, and the caller decodes it with the W*
  helpers or the `CLD_*` codes into `view`.
* **Tracer.** The child makes calls, takes signals and is single-stepped; the
  tracer waits, decodes the status word, reads the registers, keeps its own
  toggle `inside`, and passes a stop's signal to the next `ptrace_cont`,
  `ptrace_syscall`, `ptrace_singlestep` or `ptrace_detach`. It attaches by
  `ptrace_traceme` or `ptrace_seize`, and may be killed.
* **JobControl.** One step per system call of the shell and of each child. A
  child calls `setpgid`, arms its parent-death signal and looks at `getppid`
  before it runs its program. `ShellKilled` is possible at any point.
* **Credentials.** Each call is an operator from one thread's credentials to a
  result and new credentials; threads apply them in any order and start others.
  The dropping sequence is `setgroups`, `setresgid`, `setresuid`, stopping at a failure.
* **Priority.** `nice` is a read, a 32-bit sum, a write and a read; the
  administrator acts between any two. `checks` is whether the build checks overflow.
* **ChildWatch.** The loop that `signal.rs` documents, with one kernel step per
  delivery; a handler pushes a frame holding the mask to put back, and returns
  through the restorer. A mask is the set of its bits, so an off-by-one in
  `sigmask` is visible. The run takes x86_64, where the restorer matters.
* **EventLoop.** Descriptors are registered one by one while posts and signals
  already arrive. The event array may be smaller than the number of ready
  descriptors (`room`). A level-triggered event is one read, an edge-triggered
  one is read until it would block.
* **VdsoClock.** One step per atomic access, system call or vDSO call of a thread.
  The process's vDSO `image` is chosen in `Init`; `lookup` walks it as the code
  does, and `Exported` says independently which function it holds.
* **Sleep.** Time is a count of ticks; the kernel wakes a thread at its deadline or
  up to `Latency` later. The realtime clock is at an offset which is set once.
* **PipeIo.** One step per system call with the loop code that handles its
  result. `nonblock` (which ends are `O_NONBLOCK`) is chosen in `Init`.
  A transfer is of any length the pipe permits. A blocked call may be interrupted.
* **FileIo.** The recipe `memfd_create` documents: write the body, rewind, let
  children read it, truncate and use it again. The shell looks and patches by
  position meanwhile.
* **Sockets.** One step per call. A port is a 16-bit number of two bytes, and
  `to_be` swaps them. Streams deliver in any split, datagrams may be lost.
* **DnsQuery.** `pc` names the next system call. Network: every send may be
  answered, replies are delivered in any order or never, may be duplicated, and
  strays arrive from anyone with any id.
* **DnsParse.** One step is one turn of a loop (one label, one question, one
  record). `top` records the highest index read, which would panic beyond the buffer.
* **DirWatch.** Both kernel calls write bytes into the buffer (padding with
  arbitrary bytes where the kernel leaves it unset); one step of the program is one
  `next` of an iterator. A slice out of bounds is `pc = "panic"`.
* **FdTable.** A call that is one system call is one step; `openpty` is one step
  per system call, its `close(master)` included. A thread names numbers it holds
  or that are free. `arch` decides which `dup2` runs. `did` holds the arguments and
  result of the `openpty` a step completed; which error it returns is not told apart.
* **Fs.** One directory. In `"cleanup"` an administrator works on a name while its
  owner swaps a file and a symlink there; in `"lock"` two programs take a lock by
  `renameat2`, `link` or `mkdir`; in `"publish"` a file is replaced by `rename` or an
  exchange while readers look and another thread changes the umask.
* **Memory.** `cache`, `disk` and `swap` are the kernel's; `own` are a process's
  private pages. `promised` (the values a flush covered) and `held` (the values a
  page had during a remote read) are histories.
* **Terminal.** A flag word is the set of its flags. The line discipline
  (external) translates, swallows or signals as the flags say; every queued
  output byte remembers the settings it was written under.

## 3. Runs

| Run | Components and instance | States (about) |
|---|---|---|
| `vfork_exec` | VforkExec: both architectures, three descriptors (one open, one closed, one close-on-exec), arguments in -1..2, up to three redirects | 1.1M |
| `vfork_x86_64_redirects` | VforkExec: x86_64, two redirects | violation |
| `processes` | ProcHandle (two numbers, four processes), JobWait (values at the edges of their fields, all ptrace events, five option sets), Tracer (both architectures and ways to attach, three calls), JobControl (two children and a daemon), Credentials (two threads, ids 0 and 1) | 104k |
| `fork_with_pidfd` | ProcHandle: a kernel with `clone3` | violation |
| `thread_ids` | Credentials: two threads | violation |
| `nice_overflow` | Priority: `nice` with increments 3, 2^31 - 1, -2 and -30 while an administrator sets 4 or -5, ceilings 0 and 40 | violation |
| `events` | ChildWatch (two children, two interrupts, both disciplines), EventLoop (poll and epoll, three posts, two payloads), VdsoClock (eight images, two threads with two calls each, two descriptors), Sleep (interval 3, latency 1, two signals, a jump of 4) | 623k |
| `io` | PipeIo (writers of 3 and 2 bytes, capacity 2, reader of 4, two interruptions), Sockets (two clients, a queue of one), FileIo (two children, three bytes, used twice) | 48k |
| `dns_query` | DnsQuery: one server, two, or one listed twice; two queued datagrams, one stray, one duplicate | 1.2M |
| `dns_keep_waiting` | DnsQuery: the same with fewer datagrams | violation |
| `records` | DnsParse (replies of up to three records; all cuts of those of up to two; single bytes changed), DirWatch (three names, a buffer of two records, a queue of two events, three changes) | 360k |
| `resources` | FdTable (both architectures, two symmetric threads, four numbers, terminals 12 and 21, four calls), Fs (two lockers, six swaps), Memory (two pages, one of them lockable, two stores), Terminal (three sets of attributes, two keys, two writes) | 807k |

Why the bounds are enough for the interesting cases:

* three redirects reach a swap of two descriptors through a third, a
  refusal at each position after effects of the earlier ones, and a loop that
  goes wrong only after its first real `dup`;
* two pid numbers and four processes let the child's number be recycled,
  and its new holder die, while the program still holds the old number;
* three system calls of the tracee put a signal or a single step between an entry
  and its exit and still leave a whole call after it;
* two children of a job let one be placed by itself and the other by the shell;
* id 0 and one other tell a superuser from a user; two threads tell a thread from
  its process;
* an eventfd counter of at most 3 fills up, an event array of one leaves a
  descriptor unreported, and posts fall before and after each registration;
* an interval of 3 with two signals is cut into three sleeps, and 14 ticks hold
  three periods, each late;
* a pipe smaller than each buffer but not than every write makes both sides
  block and every transfer split;
* ports 258, 513 and 772 read as 513, 258 and 1027 with their bytes swapped, so a
  missing conversion names another socket or none;
* a reply to any turn may arrive in any later turn of either round; the same server
  listed twice separates "the server" from "the turn";
* the parser's address list holds two, so three records overflow it; the buffer
  ends right after the longest reply, so an index past the data is seen;
* one directory name leaves padding in its record, one fills it, and the
  buffer holds two records, so a listing takes two calls; three changes overflow
  a queue of two;
* four numbers hold two pseudo-terminals or run out in the middle of `openpty`;
  the terminals 12 and 21 are each other's digits reversed;
* six swaps put a symlink or a file before and after each of the administrator's calls;
* the three sets of attributes have between them every flag `make_raw` clears, and
  the keys every byte those flags treat specially.

### Fairness

* `VforkExec`: weak fairness of the child's steps and of the kernel waking the
  caller. Nothing makes a call happen or a program exit.
* `PipeIo`: weak fairness of each process's loop and of its closing its end
  afterwards; interruptions are bounded (`MaxIntr`). A sink that reports no
  progress and the death of a writer are possible, never owed.
* `Sockets`: weak fairness of the server, of each connection it serves and of each
  client, whose calls return once they can. Loss of datagrams is bounded by their
  number; the property is about streams.
* `EventLoop`: weak fairness of the loop's thread. Posts and signals are not owed.
* `ChildWatch`: weak fairness of the shell, of delivery of an unblocked pending
  signal, and of handlers returning. No child has to die.
* `JobControl`: weak fairness of each child until it has looked at its parent, and of
  its exit when the parent is gone. The program it executes may run for ever.
* `DnsQuery`: weak fairness of the resolver only; `poll` has a timeout, the
  other calls do not block. Servers, network and signals owe nothing.
* `DnsParse`: weak fairness of the parser, a sequential function.
* The other modules are checked for safety only, without fairness.

Deadlock is checked only in `fork_with_pidfd`. The other systems may stop: a call
returns and nothing further has to happen.

## 4. What the passing runs show

**`vfork_exec`**
* `Aarch64RedirectsApplied`: on aarch64 the program starts with every redirect
  applied, in order. `ExitCodeNamesFailure`: 126 means a refused redirect; on
  aarch64 a refused redirect always gives 126. `CallerReleased`: the suspended
  caller returns.

**`processes`**
* `PidfdReachesChild`, `KillReachesChild`: signals reach the child or nobody,
  through a pidfd opened before the child was reaped and through a pid until the
  program has reaped it.
* `ViewIsCurrent`: with nothing left to report, the caller's view is the child's
  last change.
* `EntryExitTracked`: with `PTRACE_O_TRACESYSGOOD` the tracer's toggle is right at
  every stop, and the number it reads is the call's. `SignalsReinjected`: no signal
  is lost in a stop.
* `SignalReachesJob`: whoever wins the race to `setpgid`, a signal for the job
  reaches all of it and neither the shell nor the daemon. `OrphansDie`: a child that
  looks at `getppid` after arming its signal does not outlive the shell.
* `DroppedForGood`: after the dropping sequence no call brings an id back.

**`events`**
* `DeathsNoticed`: every death is noticed, although deaths coalesce.
  `MaskRestored`: the mask comes back while handlers nest and return.
* `NoWakeupLost`: all that was posted and every payload is read, once and in order.
* `ResultIsCurrent`: a clock call gives a time of the call, or `EINVAL`.
  `PointerIsReal`: what is cached or called is the function the image exports.
* `SleepsTheInterval`, `NoDrift`: a resumed sleep is as long as asked; periodic
  wake-ups stay within one latency of their schedule, and a timerfd counts every
  expiration.

**`io`**
* `StreamIntegrity`, `PipeCallsReturn`, and `ImplementsByteStream`: the loops
  refine the abstract stream and return.
* `EndpointsAgree`: every name of a socket is the kernel's, in host order.
  `Echoed`: a half-closed connection still delivers everything.
* `BodyConsumedOnce`: the children read the here-document once between them.

**`dns_query`**
* `AnswerIsOurs`: an accepted reply answers this call's query, from the server
  asked. `Resolves`: the call returns.

**`records`**
* `NoOverread`, `ParsesWhatWasSent` (the parser inverts the encoder),
  `ParseTerminates`.
* `CopyIsCurrent`: with nothing left to read, the program's copy is the directory,
  and no iterator panics.

**`resources`**
* `Accounted`: `openpty` leaks nothing and closes nobody else's number, whichever
  call fails. `PtyPair`: it returns the two ends of one terminal.
* `TargetUntouched`, `LockExcludes`, `PublishedWhole`: the calls that act on a
  symlink itself never reach its target; one program holds the lock; readers always
  find a whole file.
* `FlushedSurvives`, `SecretStaysInMemory`, `RemoteReadMatches`: flushed data
  survives a crash; what is stored in pages `mlock` accepted reaches no disk; a
  remote read fills the buffers in order with values the pages had.
* `RawTransparent`, `SentAsWritten`: raw mode passes every byte, whatever was set
  before; a draining change leaves queued output alone.

Each property has a deliberately wrong variant of a definition (`mutants` in
`PROJECT.json`) under which TLC finds it violated.

For the wrappers the properties are about protocols the documentation
recommends and the arguments the wrappers pass: a flag, a sign, a byte order, a
constant, an order of calls. The kernel's half is external and modelled from its
documented behaviour.

## 5. Where the code and its documentation disagree

1. **x86_64 redirect loop** (`arch/x86_64.rs:401`). The counter is in `rcx`,
   which `syscall` overwrites. After the first redirect with different
   descriptors the loop ends and the rest of the array is skipped.
   `process.rs:809-811` documents the loop as "applying each redirect".
   Run `vfork_x86_64_redirects`.
2. **`fork_with_pidfd`** (`process.rs:634`). `clone_args.pidfd` is the address the
   kernel writes to and is left null, so on a kernel with `clone3` the call fails.
   `process.rs:608-609` documents a returned pair. Run `fork_with_pidfd`. The result
   rests on the kernel's documented treatment of that field, which is external here.
3. **DNS "keep waiting"** (`dns.rs:332`). A datagram with another id ends the
   server's turn. Run `dns_keep_waiting`.
4. **Ids of a process** (`process.rs:100`). `setuid` and its relatives are documented
   as setting "the calling process's" ids; the raw system call changes the calling
   thread's. Run `thread_ids`.
5. **`nice`** (`process.rs:249`). The sum of the current value and the increment is
   an unchecked `i32` addition: a large positive increment on a positive nice value
   wraps and raises the priority of a privileged process, or panics. Run `nice_overflow`.

Observed, and not stated as properties:

* a failed vDSO resolution can overwrite a pointer another thread has just cached
  (later calls then use the system call, with the same results), and a failed
  read of the auxiliary vector leaves its descriptor open, at most once per thread;
* the documentation of `vfork_exec` (`process.rs:759-766`) is at odds with itself:
  it says an `execve` failure surfaces as `Err` and also that exit status 127
  reports it; the code and a test do the second;
* `setuid` by an unprivileged process sets the effective id only, where the
  documentation names all three;
* `killpg(1, sig)` becomes `kill(-1, sig)`, which is not a group;
* a parent-death signal alone does not cover a parent that died before it was
  armed; the child has to look at `getppid` afterwards. After `vfork_exec` a parent can
  no longer place its child in a group, since the child has already executed its program;
* while single-stepping, a `SIGTRAP` the child raised cannot be told from the end of the step;
* the `_in` calls that return an address keep the first 16 bytes of an IPv6 one;
* `IN_IGNORED` is not delivered when the event queue is full;
* `tcsetattr` waits for output, so it does not return while output is stopped.

## 6. Theorems

Each theorem is proved for all values of the constants, under the assumptions its
modules name: the types of the constants, and the following, which TLC evaluates
for the instances of the runs.

| Assumption | What it says | Why the code or the kernel justifies it |
|---|---|---|
| `VforkExec!BoundsAssumption` | a return address is larger than the array length | an address of code against a slice length |
| `CapacityAssumption` | a pipe holds a byte | the kernel's least is a page |
| `BufLenAssumption`, `MaxAddrsAssumption`, `RepliesAssumption` | the buffer holds a DNS header, a list an address, a datagram fits its buffer | `rbuf` has 512 bytes, `MAX_ADDRS` is 8, `recvfrom_in` is given the length |
| `ServerListsAssumption` | one to three servers, none of them a stranger | `MAX_NAMESERVERS`; the default when none is listed |
| `JobEventsAssumption` | what happens to a child is what the status word encodes | the kernel's encoding |
| `JobPidsAssumption` | pids are positive and different, 1 is init's, a job has a first process | the kernel's numbering |
| `TimesAssumption` | the interval is positive, the work of a period fits into it, the clock is set forward only | a program that does more work than its period drifts whatever it calls |
| `ClocksAssumption` | the vDSO serves only clocks the kernel has | the vDSO is the kernel's |
| `ImagesAssumption` | a function of an image lies after the image's header | the ELF format |
| `PortsAssumption`, `RequestsAssumption` | ports have two bytes and are not 0 nor shared; what clients send differs | the kernel's allocation; the second only identifies the bytes |
| `FdsAssumption`, `PtyAssumption` | descriptors and terminals have numbers | the kernel's numbering |
| `RemotesAssumption` | the remote ranges of a transfer lie in the mapping | the other process names addresses it has mapped |
| `BodyAssumption` | a vectored read has room for a byte | a read of no bytes looks like the end of the file |
| `SecretAssumption` | a secret is not the content of a fresh page | it would be no secret |
| `KeysAssumption`, `CookedAssumption` | a key is a byte or a break; a flag word is a set of flags | `termios` |
| `LockersAssumption` | finitely many lockers, whose own files are not among the other names | programs that name their files after themselves |

An invariant is seldom inductive as it stands. For each component the proof module
states what has to be added, and one lemma per action (or per kind of action) shows
that a step keeps it.

**`ShellProofs`**
* VforkExec: `TypeCorrect`, `Aarch64Redirects`, `Prefix`, `ExitCodes`, `NoBorrow` (the
  caller never runs on memory the child still uses), `Isolation` (the parent's
  descriptors are untouched). The properties speak of the table when `execve` is
  reached; the induction needs what holds in the middle of the loop: `CounterCounts`
  (the counter is the number of redirects applied), `Chain` (each table follows from the
  one before by one redirect), `ChildTable` (the child's table is the last one),
  `LoopCompletes` (leaving the loop on aarch64 means the end of the array) and
  `ExitsKnown` (which path led to each exit code).
* Terminal: `RawIsTransparent`, `SentWhole`, for any attributes the terminal had. Added:
  `RawMode` (in raw mode the flags that would translate or swallow a byte are clear, and
  what was read and what is queued make up what was typed), `NoEnd`, `Queued` (output
  waits under the attributes now in force, since every change that alters them waits for
  the queue) and `AllSent`.

**`ChildrenProofs`**
* WaitStatus: `StatusRoundTrip`, that the decoders invert the kernel's encoding for every
  event. JobWait: `ViewCurrent`, with `WaitInv` (a change not yet reported is one the kernel
  can encode). Tracer: `EntryExit`, `NoSignalLost`. Added: `RegsHoldCall` (the register
  `syscall_nr` reads survives the return value), `Follows` (where the child can be, by how
  it was resumed) and `Handling` (the word the tracer holds is that of the stop the child
  is in).
* ProcHandle: `TypeCorrect`, `PidfdStable`, `KillSafe`. Added: `Injective` (one process
  per number), `Holds` (until the program reaps the child, the child holds the number
  `fork` returned) and `Phases`.

**`JobsIdsProofs`**
* Credentials: `DropIsFinal`. The last call of the sequence sets only the user ids, so
  `DropProgress` says what each earlier step achieved, and `DropFinal` that a thread that
  has dropped is in no other sequence and holds one user's ids only, from which no call
  of the family leads back.
* JobControl: `JobSignalled`. Added: `Groups` (only the job's processes join its group),
  `Births` (they are started in order, the leader first) and `Placed` (each is in the group,
  but for the one the shell is about to place; whoever is past its own `setpgid` has placed
  itself, so that the shell's may fail).

**`TimesProofs`**
* Sleep: `SleepsInterval`, `DriftFree`. The properties speak of the moment of waking; the
  invariant says meanwhile where the end lies: `Resumed` (an interval after the start,
  however often resumed), `OnTime` (the next deadline), `Counting` (the expiration a
  timer's count, read or not, has come to).
* VdsoClock: `PointersAreReal`, `ResultsAreCurrent`, the second an action property. Added:
  `Pointers` (the word in the cache, and what each thread is about to store or call, is the
  exported function or nothing). It rests on `ResolvesExported`: for every image, the walk
  over the auxiliary vector, the segments, the dynamic section, the hash table and the
  symbols ends at the function that `Exported` defines without a walk.

**`StreamsProofs`**
* PipeIo: `TypeCorrect`, `Integrity`, `WriteComplete`, `ReadPrefix`, `Refinement`. Added:
  `SliceInBuffer` (the slice is never longer than the buffer, and is empty on `Ok`) and
  `RunningIsOpen` (a running `write_all` holds its end open, so end-of-file excludes it).
  Every step maps to a step of `ByteStream` or to a stutter.
* Sockets: `EndpointsTold`. Added: `ServerPort`, `ClientPort` (no two sockets have a port in
  common), `Names` (every structure anybody was given holds the socket's port in network
  order, or none yet), `Datagrams` (what is under way is a client's request to the server
  or the server's answer to it, so that who a datagram is for tells whose it is) and `Replies`.
  `SwapTwice` is the fact about the byte order all of it rests on.
* FileIo: `BodyIsConsumedOnce`. Added: `Filling` (while the shell writes, the file is the
  beginning of the body, what it still has to write is the end, and the offset is between
  them) and `Drained` (while the children read, the file is the body but for patched bytes).
  That a vectored call transfers what a plain one would is an induction over its buffers:
  `JoinedScatter`, with `TotalOfPrefix` and `PartsJoin`.

**`DnsProofs`**
* DnsQuery: `AnswerOurs`, `GivesUpLate` (the safety half of `Resolves`). Added: `Traffic` (each
  datagram not yet received is a reply to a query that was sent, or one the checks refuse)
  and `Turns` (how many turns there have been, and whose).
* DnsParse: `ParseTypes`, `InBounds`, `InReply`, for every datagram. Added: `Behind` (the
  addresses found end before the position) and `Counted`.

**`FsProofs`**
* Fs: `TargetIsUntouched`, `OneHolder`, `AlwaysWhole`. The scenes share one directory and one
  table of inodes, and an inode freed by one is used by another, so each property needs the
  others' scenes to keep away: the names fall into four `Parties` that no inode connects,
  and `Within` says that a call changes what its own party reaches. Then `Victim`
  (the target is as it was), `Locked` (a program holds the lock only while the name is
  there) and `Published` (what the new version already has at each step).

**`ResourcesProofs`**
* Memory: `FlushIsKept`, `SecretIsKept`, `RemoteRead`. Added: `Kept` (the cache too holds a value the flush
  allows, as the kernel writes it back at any time) and `Pinned` (a page with the secret is
  pinned, and the secret is in no other place). For the remote read: `RemoteShape` (the call
  under way has the addresses both lists name, `AddressesFit` and `MatchesFit` by induction
  over the ranges) and `Taken` (what a page holds now, and what was taken from it, is among
  the values it had during the call).
* FdTable: `NumbersAccounted`, `PairIsOne`, the second an action property. Added: `MasterApart` (the master of an unfinished `openpty` is
  open and in nobody's list, its own thread's included), so that the `close` on an error
  path closes that and nothing else, and `Numbered` (that master is a terminal's, and the
  number asked for is its). `PathNames` says that the digits `format_pts_path` writes, reversed,
  name the number they were made of, by induction over the number.
* ChildWatch: `MaskIsRestored`, `NoHandlerCrashes`. Added: `Unwinds` (what the first of the
  nested handlers will put back is the mask the interrupted code had) and `HandlersReturn`.

Only model-checked:

* liveness (`CallerReleased`, `OrphansDie`, `DeathsNoticed`, `NoWakeupLost`, `PipeCallsReturn`,
  `Echoed`, `Resolves`, `ParseTerminates`), which needs `ENABLED` and fairness;
* `ParsesWhatWasSent` and `CopyIsCurrent`: each says that a walk over a byte string finds what
  an encoder put there, record by record. Induction over data is within reach where a
  function has one recursion over a number (`Induct`, and the definitions of `Sums`, `Pieces`
  or `AllDigits` that state the recursion as an equation); these two need it for the
  encoder, for the parser's loop and for the correspondence of their positions at once,
  with names nested in records.

## 7. Not modelled

* `from_ret` and the system-call stubs: one test of a window and one instruction
  each; the models take results as decoded.
* Single calls that fill a structure and leave no state anybody relies on: `uname`,
  `sysinfo`, `getrusage` and the rusage variants of the waits, `clock_getres`, `fstat`,
  `window_size`, `getrandom`, `sigpending`, `isatty`, `ttyname`.
* `execve`, `execveat`, `chdir`, `fchdir`, `getcwd` outside spawning, and `CStrArray`,
  which is an allocation.
* `close_range`, which by design closes numbers other threads hold.
* `from_millis`, a conversion of a constant; resource limits other than `RLIMIT_NICE`.
* In `dns.rs` the parsing of `resolv.conf` is an outcome.
* Memory ordering: the one atomic is a single word whose value is self-contained, so
  relaxed accesses are modelled as atomic steps.
* A run of the whole shell (`VforkExec` with `ChildWatch`, `JobWait` and `JobControl` in
  one state): the product is beyond TLC at bounds where each part is interesting.

## 8. Running

    tlc -workers 2 -config Processes.cfg MCProcesses
    tlapm FsProofs.tla

and likewise for the other pairs of module and configuration in `PROJECT.json`.
