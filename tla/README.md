# A TLA+ model of ghostunnel

Ghostunnel is a TLS proxy: in server mode it accepts mutually authenticated TLS
connections and forwards them to a plain backend, in client mode it accepts
plain connections and forwards them over TLS. This directory models it in TLA+,
from the command line to the last byte of a connection, checks the models with
TLC on small instances, and proves their safety properties with TLAPS for every
instance.

## The system

| Part | Code | State | Operations |
|---|---|---|---|
| proxy | `proxy/proxy.go` | `quit`, the listener, the WaitGroup `handlers`, five counters | `New`, `Accept`, a handler goroutine per connection, `Shutdown`, `Wait` |
| fuse | `proxy/proxy.go` | two sockets, two copy goroutines | `fuse`, `copyData` |
| dialer | `certloader/dialer.go` | a connection, a timer, a channel | `dialWithDialer` |
| certificates | `certloader/*.go` | the atomic pointer `cached` | `Reload`, `GetCertificate` |
| daemon | `main.go`, `signals.go` | signal channel, forced-exit timer | `serverListen`, `clientListen`, `signalHandler`, `reloadHandler`, `reload` |
| status | `status.go` | `listening`, `reloading` under a mutex | `Listening`, `Reloading`, `ServeHTTP` |
| access control | `auth/auth.go` | the lists, fixed by flags | `VerifyPeerCertificateServer`, `VerifyPeerCertificateClient` |
| wildcards | `wildcard/matcher.go` | none | `Compile`, `Matches` |
| configuration | `main.go`, `tls.go` | flags | `validateFlags`, ..., `buildConfig` |

The main goroutine starts the proxy's accept loop and the status server, then
handles signals. A reload signal and the reload timer both call `reload`, from
two goroutines. A shutdown signal arms the forced exit, calls `Shutdown` and
then `Wait`. Each accepted connection has a goroutine that performs the
handshake, dials the backend (through the dialer in client mode), joins the
WaitGroup and runs `fuse`, whose two goroutines copy the data.

What makes this hard to test: a handler joins the WaitGroup late and races
`Wait`; a timer races a handshake for one channel; two reloads race each other
and the operator who replaces the files; each socket is shut by two goroutines,
differently for each socket type; signals meet a bounded channel; flags are
checked in several places, some of them after their values were used. The hazards
are listed with their lines in `PROJECT.json`.

## Modules

**Drain** is an abstract specification: what a proxy promises to the process that
runs it. Connections join and leave, the listener is closed for good, and the end
of `Wait` means that it is closed and everybody who joined has left. It has no
counterpart in the code; Proxy and Daemon are both shown to implement it
(`ImplementsDrain`).

**Proxy** has one action per access to shared state. A handler's place is
`handler[c]`, in the order of the code: handshake, dial, header, success, add,
fuse, and then the deferred calls, last deferred first (done, dec, close).
`Shutdown` is four steps (load `quit`, store it, close the listener, `Done`),
taken by one caller at a time as in `signalHandler` and the tests. `Wait` is two
steps, because `sync.WaitGroup` wakes the waiter and checks the counter only when
the waiter runs again. The history variables `drained` and `late` record whether
the counter has been zero and who joined after that. The refinement maps the
registered handlers that are not late to `forwarding`; the late ones, which the
code fails to wait for, are the subject of `proxy_drain`. A panic ends the
process.

**Fuse** models one connection: two `copyData` goroutines named after their
source, data counted in chunks, and the two type switches at the end. Init
chooses the socket types that the two modes produce. Peers send, read,
half-close and go away freely. `Close` of a socket with linger zero or with
unread input may or may not drop what its peer has not read.

**MtlsDialer** models any number of `dialWithDialer` calls, each with its timer,
handshake goroutine and channel of two results.

**Certificate** models `Reload` file by file against an operator who replaces one
file at a time. A file's content is a version number; certificate and key belong
together when the numbers agree. `readPEM` and `readX509` open files and never
close them: `opened` counts the descriptors, an open fails when `MaxOpen` are in
use, and `Collect` is the garbage collector, whose finalizers close what nobody
refers to. `main.go` itself loads a single keystore file; the two-file form is
the library's `CertificateFromPEMFiles`.

**Daemon** models the process: start-up in the order of `serverListen` and
`clientListen`, the signal loop, the timed reload (which starts before the
socket is bound), the forced exit, and status requests, which dial the backend
first and take the lock afterwards. The proxy is reduced to its listener and
connections that are pending until `handlers.Add(1)`, and forwarding or late after
it: late are those that register when the listener is closed and nobody who came
in time is left. The end of the process is modelled step by step: `WaitCall` looks
at the WaitGroup once and returns or parks, the last `Done` wakes the main
goroutine, `WaitWake` returns or panics if somebody has registered meanwhile, and
`Exit` follows. Pending and late connections are then cut off. `finished` of Drain
is exit with status zero, `forwarding` the connections that registered in time.

**Acl** models the two verification callbacks as operators over the lists, which
the flags fill one entry after the other. The code has the five checks twice, and
so has the module: `ServerChecks` and `ClientChecks`. Both are compared with
`Listed`, which says once what the lists mean. A URI pattern is the set of URIs it
matches. **Startup** extends it with the rest of the way to a handshake: the
command line, `validateFlags`, `buildCertificate`, the checks of each mode,
`buildConfig` and the `tls.Config` that the listener and the dialer end up with,
and which handshakes crypto/tls then completes. A flag that only one check looks
at is an input of the step that makes the check. Every step of Startup is a step
of Acl or leaves the lists alone (theorem `StartupImplementsAcl`), so the
theorems about Acl hold in it.

**Wildcard** models `Compile` by the sequence of regular-expression pieces it
writes and `Matches` by the positions of the input these can reach, both as
recursive functions over the pattern and the input. The steps
write a pattern and then an input, so that every pattern meets every input. It is
compared with `Means`, a direct definition of what a pattern's segments describe,
without a regular expression. `Means` follows the code where the comment in
`matcher.go` says something else, see below. The `.` of package `regexp` does not
match a newline, and no letter of the model is one (`WildcardAssumption`).

**ProxyProofs, FuseProofs, DialerProofs, CertificateProofs, DaemonProofs,
AclProofs, StartupProofs** and **WildcardProofs** hold the theorems.

## Runs

| Run | Question | Result |
|---|---|---|
| `proxy` | Do WaitGroup and counters stay exact, and is Drain implemented? Is only a failed header able to leave a backend open? Do handlers decide, does the accept loop end, does `Wait` end? | holds |
| `proxy_drain` | Is nothing forwarded once `Wait` has returned? | violated |
| `proxy_wait_panic` | Is `Wait` free of panics? | violated |
| `fuse` | For each type, are sockets shut correctly and data complete, and does the end of one peer end the connection? | holds |
| `dialer` | Does the result match the connection, in bounded time, with nothing left behind? | holds |
| `dialer_via_proxy` | The same time bound through an HTTP CONNECT proxy | violated |
| `certificate` | Does the certificate in use always fit its key, is an older one put back only by an overtaken reload, and does the last one get into use although files are left open? | holds |
| `daemon` | Does the status settle, is it never ok before the socket is bound, does a queued shutdown signal end the process, do reloads end, and does exit status zero mean that the listener is closed and those who registered in time have ended? | holds |
| `daemon_no_cert` | Is a reload without a certificate free of panics? | violated |
| `startup` | Do the checks leave only certificates that fit the mode, is a server verified for the name asked for, does an empty list fail closed, do entries only add, and do both copies of the checks say what the lists say? | holds |
| `startup_client_auth` | Does a server with a list require a client certificate? | violated |
| `wildcard` | Does a compiled pattern match exactly what its segments describe, when is a final separator optional, and what does `/**` behind a pattern add? | holds |

The violated runs are disagreements between the code and its comments or
documentation; `PROJECT.json` quotes both sides of each under `findings`. In
short: a connection still in its handshake at shutdown is not drained, and may
make `Wait` panic; a CONNECT proxy that never answers is not covered by the
connect timeout; a reload without a certificate panics; and the server never asks
a client for a certificate, so that crypto/tls does not call
`VerifyPeerCertificateServer` (`FailsClosed` and the other properties of the
lists are about what the callback answers when it is called).

Other behaviours of the models that an operator may want to know:

- overlapping reloads can put the older certificate back, until the next reload
  (`OnlyOvertakenRegress` says that nothing else does);
- a shutdown signal that comes while three signals are queued is lost
  (`ShutdownEndsProcess` is about signals that got into the channel);
- `serveStatus` panics on a UNIX socket that cannot be bound (`main.go:559`, an
  outcome of `StatusError` in Daemon);
- while two reloads overlap, the first to finish makes the status say listening;
- a backend connection whose header could not be written is not closed
  (`SuccessIsForwarded` says that no other step leaves one open);
- a pattern that itself ends in a separator requires it: `a/` matches `a/` and not
  `a`. The comment in `matcher.go:36-38` says that the separator is optional at the
  end of a string and that strings with and without it are equivalent, which holds
  for the other patterns only. `TrailingSeparatorOptional` states both halves as
  the code has them, and `Means` follows the code.

### Bounds

- Proxy: two connections and two calls of `Shutdown`. Two handlers are
  enough for one to be registered while another joins late; a second call of
  `Shutdown` is needed for the early return. `MaxAcceptErrors` bounds failures on
  an open listener, which only add to a counter.
- Fuse: `MaxData` and `Buffer` let a write block and a tail remain unread.
- MtlsDialer: two calls; they share nothing.
- Certificate: `MaxVersion` two, enough for a reload to be overtaken and for a
  certificate to be replaced again in the middle. `MaxOpen` three: reloads run
  into the limit after a few files, while a single reload still has room.
- Daemon: with `MaxSignals` four the channel, which holds three, fills and one
  signal does not fit. Two connections, so that one can be late while the other
  keeps `Wait` parked or wakes it. The status port is a UNIX socket, the kind that
  has every outcome of `StatusError`.
- Startup: one name, so that each list is empty, matching or not matching, in
  every combination; the theorems cover any names.
- Wildcard: patterns and inputs of up to five runes over two letters, the
  separator and the wildcard: room for two separators with something on every
  side, for empty segments, and for a double wildcard behind a segment.

### Fairness

Weak fairness is given to steps of goroutines that can run, to timers, to a
handshake with a deadline and to a dial with a timeout. None is given to clients
(connecting, finishing a handshake, sending, closing), to operators (signals,
files), or to the end of a forwarded connection. In Fuse peers are assumed to
read. The dial through a CONNECT proxy has no fairness, because it has no
deadline. In Certificate only the timer is sure to start reloads, and the
garbage collector is sure to run because Go forces a collection every two
minutes.

`WaitEnds` and `ConnectionEnds` have the assumption on the peers in the formula.

## Proofs

Each module's safety properties are proved for every value of its constants,
from the named assumption in the module that declares them. The shape is mostly the
same: an inductive invariant `IInv`, one step or lemma per action, and
a temporal step at the end. What `IInv` adds to the properties is the argument.

| Module | Proved | What the invariant adds |
|---|---|---|
| ProxyProofs | `TypeCorrect`, `BalanceHolds`, `OpenCounterCorrect`, `ErrorsAreErrors`, `SuccessesAreForwarded`, `ProxyImplementsDrain`, `NoLostWakeup`, `OnlyLateHandlersBreakWait` | `CallersInv`: at most one call of `Shutdown` is past the check of `quit`, else a second `Done` could not be excluded. `WaiterInv`: a released waiter has seen the counter at zero, which takes a finished `Shutdown`, and whoever is registered is late; the refinement rests on it. The counts rest on lemmas on the cardinality of a set that gains or loses an element. `BackendInv`: where a handler may have a backend, and where it has shut it. |
| FuseProofs | `SocketsAreShut`, `HalfClosesAreOneWay`, `CleanEndsAreComplete`, `CopiesMakeNothingUp` | `ShutInv`: what a copy that has ended has shut, by socket type. `CauseInv`: why a copy ended. `FlowInv`: what was sent is delivered, in a buffer, or lost for a reason on record. |
| DialerProofs | `DialResultCorrect`, `ChannelIsLargeEnough`, `ReceiveNeverStarves` | `ConnInv`: the connection is open exactly while the caller needs it. `ChannelInv`: each result is from a goroutine that has finished sending, and `nil` is there only after a successful handshake. |
| CertificateProofs | `CertificateFitsKey`, `OvertakenReloadsOnly`, `LoneReloaderNeverRegresses` | `ReadInv`: what a reload has read is no newer than the disk, and no older than what is in use unless it was overtaken. |
| DaemonProofs | `StatusAlwaysSettles`, `OkOnlyWhenBound`, `DaemonImplementsDrain`, `OnlyThreePanics`, `ForcedExitIsArmed`, `QueuedShutdownIsKept` | `StatusInv`: `reloading` is set only while some goroutine reloads, and `listening` once the main goroutine is past start-up. `ListenerInv` ties the listener to the place of the main goroutine. `WaitInv`: from the moment main is woken or past `Wait`, those who came in time have left for good; the refinement rests on it. |
| AclProofs | `AclFailsClosed`, `AclCallbacksAgree`, `AclEntriesOnlyAdd`, `AclOnlyFirstEntryNarrows` | Only types. Lemmas: each copy of the checks accepts what `Listed` names, empty lists name nothing, and what some lists name all larger ones name. |
| StartupProofs | `StartupImplementsAcl`, `CertificateAlwaysFits`, `ServersAreVerified`, `ServerListsFitFlags` | What is known of the certificate before and after the checks of the mode, and of the configuration once it is built. |
| WildcardProofs | `MatchesTheirMeaning`, `TrailingSeparatorIsOptional`, `DoubleWildcardAlwaysWidens` | `MatcherInv`: once there is a matcher, it is what `Compile` makes of a pattern it accepts. The rest is lemmas about the operators, see below. |

Each module also proves its type invariant (`TypeCorrect`, `FuseTypeCorrect`,
`DialerTypeCorrect`, `CertTypeCorrect`, `DaemonTypeCorrect`, `AclTypeCorrect`,
`StartupTypeCorrect`, `WildcardTypeCorrect`). `ChannelIsLargeEnough` is about
`SendsNeverBlock`, which DialerProofs defines: with two places, no goroutine ever
waits to send.

### Where the violated runs end

A violated run shows that something can happen; three theorems say that it
happens in no other way.

- `OnlyLateHandlersBreakWait` (runs `proxy_drain` and `proxy_wait_panic`): while
  no handler has called `Add(1)` after the counter was zero, `Wait` does not panic
  and does not return with a connection being forwarded. `WakeInv` adds that a
  released goroutine finds a counter other than zero only because of such a
  handler.
- `OnlyThreePanics` (run `daemon_no_cert`): a panic is a reload without a
  certificate, a UNIX status socket that cannot be bound, or `Wait` woken up while
  a late connection registers.
- `LoneReloaderNeverRegresses`: without a second goroutine that reloads, the
  certificate in use never gets older; `OvertakenReloadsOnly` is the general case.

### The safety half of liveness

Three liveness properties that TLC checks rest on facts that are proved for every
instance, so that only fairness is left to the model checker.

- `WaitEnds`: `NoLostWakeup`, a goroutine parked in `Wait` always has a `Done` to
  come.
- `DialEnds`: `ReceiveNeverStarves`, a caller at the receive has a result in its
  channel or a timer that will send one. `AccountInv` counts: before a call
  receives, its channel holds exactly what was sent.
- `ShutdownEndsProcess`: `QueuedShutdownIsKept`, a queued shutdown signal stays
  queued until it is received and arms the forced exit, and `ForcedExitIsArmed`,
  the timer then stays armed. (`QueuedShutdownIsKept` is about signals that are in
  the channel; one that finds it full is lost, as noted above.)

### The matcher

`MatchesTheirMeaning` says that for every pattern that compiles and every input,
of any length and over any letters, the regular expression accepts the input
exactly if `Means` does. The argument follows the loop of
`Compile`:

1. The recursive functions of Wildcard (splitting a string, writing the pieces,
   running them over an input) satisfy their recurrences. This and every other
   induction rests on the library's fact that `<` on the naturals is well founded:
   `NatInd` turns it into induction over a set of naturals, because a least
   counterexample cannot exist.
2. Piece by piece: a literal run reaches one position further if the letters are
   there, a wildcard piece reaches every position up to the next separator, and
   the final double wildcard everything behind a separator.
3. `LoopEnds`, the loop invariant: after the pieces of the first `k` segments, the
   matcher is at exactly those positions of the input that end a prefix whose
   `k` segments agree with the pattern's.
4. `LastEnds`, `RestEnds` and `EndAsks` deal with the last segment, with a double
   wildcard in its place, and with the optional separator at the end;
   `CompileMatches` puts them together.

The other two theorems follow from `CompileMatches` by comparing meanings: of an
input with and without its final separator (`MeansTrailing`, and `MeansFinal` for
a pattern that ends in one), and of a pattern with and without `/**` behind it. For
the latter, an input matches the wider pattern exactly if it, or what it has
before one of its separators, matches the pattern; `SplitSubSeq` and
`AgreesBelow` relate the segments of an input to those of what is before a
separator.

### Checked by TLC only

Liveness: the prover has no rules for fairness or ENABLED (`HandlerDecides`,
`AcceptLoopEnds`, `WaitEnds`, `EndPropagates`, `ConnectionEnds`, `DialEnds`,
`NoGoroutineLeft`, `Converges`, `ShutdownEndsProcess`, `ReloadEnds`). And the
violated runs, which are counterexamples.

## Not modelled

- Metrics reporters, logging and profiling do not act on the rest of the program.
- The file descriptor limit, the platform files with their lists of signals, and
  the stubs of builds without PKCS#11 or keychain, have no state of their own.
- Opening a PKCS#11 module for the first time is left out; that a reissued
  certificate fits its key is the documented assumption (`README.md:263`).
- Which cipher suites a flag names, and separators other than `/` in patterns.
- Proxy and Daemon are not composed step by step: Drain is the interface between
  them, and each is shown to implement it. Late handlers, which lie outside of
  Drain, are in both.
