# LiveSharp in TLA+

LiveSharp updates the code of a running .NET application while its sources are edited.
This directory holds a formal model of its core: TLA+ modules translated from the C# code,
TLC configurations that check them on small instances, and proofs that TLAPS checks for
instances of every size. `PROJECT.json` maps every definition to the lines it stands for.
Paths below are relative to `src/src/`.

    tlc -workers 2 -config Matchmaking.cfg MCMatchmaking     # one run
    tlapm MatchmakingProofs.tla                                     # the proofs of one component

## 1. The system and its components

Three processes take part. The **application** is built with LiveSharp's runtime injected.
At start it asks the **server** (one per machine, `LiveSharp.Server`) for the dashboard of its
project; the server starts a **dashboard** process (`LiveSharp.Dashboard`, one per project) if
none is registered, and answers with the dashboard's address. The application then connects to
the dashboard over a TCP socket and stays connected, reconnecting when the connection breaks.
The dashboard loads the solution into a Roslyn workspace, watches its files, compiles what
changes, and broadcasts the members that differ; the runtime replaces them in the application.
In the other direction debug events are foreseen, which the dashboard would show; what makes them is
switched off at this commit.

| Component | State | Operations | Talks to | What is hard | What makes it correct |
|---|---|---|---|---|---|
| Matchmaking service (`LiveSharp.Server/Services/MatchmakingService.cs`) | registered workspaces, projects being loaded, the subject of posted addresses | project info received, workspace posted, sweep of dead processes, stop | application and dashboard (HTTP), process table | requests of many threads on shared dictionaries, a post before anybody listens, timeouts, processes that die | a project only gets an address of its own process; no loading flag is left behind; every request ends |
| Runtime connection (`LiveSharp.Shared/Network/ServerClient.cs`, `SocketTransport.cs`) | send queue, busy flag, connection flags, reconnection semaphore, socket | Send, callbacks of the socket, the connecting loop | any thread of the application, the socket | callbacks race the sending threads and the loop; failures are reported more than once | nothing is sent twice or on a later connection, or left behind in the queue; never wedged; a failure wakes the loop |
| Message parser (`LiveSharp.Shared/Network/MessageParser.cs`, `ParserBase.cs`, `Message.cs`, `MultipartMessage.cs`, `Checksum.cs`) | state, inner buffer, the fields read so far, time of the last feed | Feed (byte by byte), the pause rule | the transport above, handlers below | reads split anywhere, broken connections, damage, pauses, nested messages | whole messages are delivered, nothing else is |
| Update pipeline (`LiveSharp.Workspace/`) | job queue, Roslyn solution, previous compilation, cache file | C# file changed, Razor file changed, dry run, compile, compare, send | file watcher, broadcast | jobs overlap after their first await; a Razor job starts from an old project; restart of the dashboard; files that are locked; code that does not compile | the application runs what was last compiled, and no save gets lost unnoticed |
| File watcher (`LiveSharp.Workspace/LiveSharpFileWatcher.cs`) | write times, the timer's token, disposed flag | event, timer, scan, Dispose | the pipeline | scans overlap and cancel each other's timers | no write is missed; it never goes blind; it stops after Dispose |
| Dashboard host (`LiveSharp.Shared/Network/LiveHost.cs`, `Client.cs`, `LiveSharp.Dashboard/WorkspaceInitializer.cs`, `BlazorHub.cs`) | list of clients, each client's chain of sends, the workspace | accept, receive, broadcast, quit, reload | applications, pipeline | lock-free list shared by callbacks, one parser for a whole hub | a connected client gets every broadcast in order |
| Runtime (`LiveSharp.Runtime/LiveSharpAssemblyContext*.cs`, `IL/DocumentMetadata.cs`, `IL/DelegateBuilder.cs`; the code that `LiveSharp.Rewriters/UpdateHookRewriter.cs` and `DelegateCacheRewriter.cs` inject) | method infos, delegate builders, field mappings, interceptors; the static delegate and version field of every method | mapping added by the module initializer, document received, interceptor registered, method called | connection, application code | three threads write the delegate fields without a lock while methods are called; documents that fail half way | the newest usable body is in effect; an interceptor is not lost; a call runs one body |
| Generic methods (`LiveSharp.Runtime/Virtual/VirtualClr.cs`, `VirtualMethodInfo.cs`) | stack of method infos, stored info, version, a delegate and a version for each type argument | document received, method called | the component above | every caller constructs its own delegate while documents store infos, without a lock | the newest body runs, and it is one for the caller's type argument |
| Runtime debugger (`LiveSharp.Runtime/LiveSharpDebugger.cs`, `LiveSharp.Workspace/Debugging/`) | event queue, invocation stacks | start, assign, return | application threads, dashboard | nothing: no code calls it, its rewriter is commented out in `LiveSharp.Runtime/IL/DelegateBuilder.cs:43` | |
| Handshake (`LiveSharp.Runtime/Handshake/`) | candidate addresses | ask one after the other, take the first that answers | server | timeouts on both sides | |
| Streaming parsers (`LiveSharp.Shared/Parsing/`) | partial values | feed, reset | debugger, matchmaking of addresses | values split between reads | parsing inverts serialization |
| IL interpreter and compiler, rewriters, XAML and Razor handlers, framework support, user interfaces | | | | sequential transformations of code | |

PROJECT.json lists the hazards: every place of these components where something can go wrong that
a test would hardly reach, with the properties that would show it.


## 2. The modules

Each component has a module with its state, one action per operation or step, the properties, and,
marked "Mutant", changed copies of actions: the bug that each property would find. `MC<module>`
instantiates it for TLC, `<module>Proofs` holds its theorems. The components are modelled apart and
meet at narrow interfaces: the address that Matchmaking hands out, the stream of bytes, the saved
file, the broadcast, the document. In the running system they share no variable.

**Granularity.** A step is what a thread does between two accesses to state that another thread can
touch. Where C# has a lock or a concurrent collection, one operation on it is one step; where it has
a plain read and a plain write of the same field, they are two. Data that no branch looks at is left
out. A `history` variable is only read by properties.

### Matchmaking, WorkspaceDirectory

`Requests` are HTTP requests and also name the processes they start (a request starts one at most).
`pc[r]` walks through `ProjectInfoReceived` and `StartAndWaitForWorkspace`: `CheckWaiting`, `LookUp`,
`Refresh` or `Evict`, `Mark`, `StartProcess` (or `StartFails`, when the process cannot be started), `Subscribe`, then either `Register` (the subject has
delivered an address that passes the filter, `Hears`) or `Timeout`, and `Leave`, the finally block
that also runs for refused requests. `PostAddress` and `StopPosting` are the dashboard process's
side, `Exit` is its end, `SweepStart`/`SweepOne` are the timer's clean-up over a snapshot, and
`StopWorkspace`, `RenderPage` are the web page. `Mangled` projects are those whose id does not
survive the process's command line, so nobody recognises their posts. `WorkspaceDirectory` states what the service promises without
any of this: asked, then answered with a posted address of that project, or refused, and an answer
is final. The refinement maps `pc` and `reply` to its `status` and `answer`.

### ServerClient, Outbox

One actor per message: `at[m]` is first the sending thread (`Send`, `Claim` or `Enqueue`,
`BeginSend`) and then the callback of that send (`SendCompletes`, `ProcessSendQueue`, `ClearBusy`,
or `SendFails`, `TryReconnect`, `CheckReconnect`, `Release`). `Receiver` is the pending receive.
`loop` is `Connect`, from connecting over `LoopFlush`, `Online`, `Ready` and the wait on the semaphore
to `Drain`; `StartReceivingFails` is the exception of a socket that has failed before its first receive. `tokens` is the semaphore's count; testing it and releasing it are two steps. `behind` collects
the messages that were put on the queue behind the callback that found it empty. `Outbox` says what a
sender is promised: a message is held until it is given to the latest connection or lost, either for good, and
one that is bound to a connection is given to no other. The refinement maps the place and the
queue entry of a message to `held` and `bound`.

### MessageParser, FramedStream

`MessageParser` is the format and the parser: `CreateBuffer` encodes a message, `FeedByte` is the
loop body of `Feed`, with one operator for each parser state. It gives the next parser, what `MessageParsed` was
raised with, and the content of a multipart (`inside`), which the code feeds to the same parser before it takes
another byte; that recursive call is a recursion of the stream's steps here. `FramedStream` feeds a stream of messages
byte by byte (`FeedNext`; reads may split it anywhere, since feeding a buffer is feeding its bytes), with the
faults that a TCP connection and the parser's own rule of one second allow: a pause, a break in
mid-message, a damaged byte of the content. The checksum covers the content only: of a header byte that is damaged (type, parameter, content type, length)
the model says nothing, and the code delivers what it reads. With `shared` the parser is the static one of the dashboard's hub
(`BlazorHub`), which every connection feeds: two buffers may be fed at the same time (`Collide` leaves the
parser in any state, with fields that do not belong to it), and a handler that throws, for a message or for a part of one, leaves the
parser before its reset (`HandlerThrows`). Either puts the parser out of step with the messages until nothing has come for a second.
A parser out of step may take for a message what was none, with a checksum that matches; if its content cannot be
decompressed the exception ends the connection, or the buffer of the hub (`DecompressFails`).

### UpdatePipeline

Jobs (one for each change that is noticed, and the dry run `Dry`) run through `Start`, `Read` or
`ReadLater`, `Apply`, `Compile`, `LookUpPrevious`, `Send`, `DisposePrevious`, `Store`. `runner` is
the job that holds up the queue: the continuation in `JobQueue.AddAsyncJob` is an async lambda, so
it ends at the job's first await and not with the job (`FreeQueue`). From there on jobs overlap. The dry run's first await, of the text of
a document, may yield or not (`DryLater`).
A Razor job has its project from the moment it was noticed, not from when it begins (`Notice`), awaits
before anything else (`StartRazor`), and compiles twice: its project as it was, and then, as
`Second(j)`, with the code generated from the file (`Generate`). `Debounce` is the rule that drops a save within 100 ms of the
one before, `Ignore` that without a valid license a change is noted and nothing done.
The model begins when the solution has been loaded, after a build and maybe an edit: the cache file of the build is there, of what an
earlier run of the dashboard loaded first, or it is not, and then the dry run makes it of the text it finds (`DryRun`). `unsent` has the files
that this takes for built though they were edited since.
A text is a version number, a compilation the texts it was made of, an update what of the members
of a file differs from the previous compilation (`Patched`).

### FileWatcher

Scans run on threads called `Timers` (a `Task.Delay` and its continuation) and `Event` (the events
of the file system, which Rx delivers one at a time). A timer is `current` if it holds the token
source that `_cts` refers to and an `orphan` otherwise. `Begin`, `Look`, `Compare`, `Store`, `Report` and
`CheckDisposed` are a scan; `Renew` and `SetTimer` are `QueueScan`; `Dispose` and `DisposeCancels`
the two parts of `Dispose`. `ScanFails` is an exception while a scan looks or reports, say of the custom handler that `FileChanged` starts: a timer's scan then ends
and sets no timer, one of an event takes the process with it. `failed` and `unreported` say that this has happened, and to which files.

### DashboardHost

The thread that accepts a connection, the connection's receive callbacks and the workspace made for
its project info share the connection's name. `EndAccept`, `ReadToAdd`, `Add`: the list of clients is
read, copied and replaced; `Filter`, `ReadToRemove`, `Remove`: likewise at the end of a broadcast.
`Chain` and `Link` are the two halves of `_sendQueue = _sendQueue.ContinueWith(...)`, and `RunSend` is the continuation: `BeginSend` works or
throws, because the connection is closed or for any other reason (`failed`); `begun` has the sends in the order in which the socket was asked for them.
`DisposeWorkspace`, `AssignWorkspace` and `LoadSolution` are `CreateWorkspace`; `LoadLater` goes on
with a solution whose loading had to wait for a locked file.

### MethodUpdate

Three writers and a reader of the delegate fields. `loader` is the module initializer (`CreateContext`, then `Map`,
`Sign`, `LookInVain` or `LookUp` and `AttachHeld`, `FindNothing` or `FindHandler`, `EndMapping` for each method); `updater` is
the receiving thread with a document: it makes the method infos (`Deserialize`), bumps the
versions (`ProcessUpdate`) and only then compiles the delegates one after another
(`InitializeDelegate`, `InterceptNew`, `TryUpdateDelegateField`), and gives the document up at the
first that fails; `registrar` is a thread that registers an interceptor (`Register`); `caller` runs the injected
prologue (`Enter`, `Invoke`, `CheckVersion`). A delegate is the number of the body it runs (0: none) and
whether it calls the interceptor.
`CreateCallInterceptors` is run by the registering thread for all methods, and by the module initializer, when a handler is there, for
every method with the `Name` of the one it has just mapped. Each of the two (`Interceptors`) enumerates the infos
(`Enumerate`), sets the interceptor of each and writes its field (`SetInterceptor`, `WriteInterceptor`), enumerates the mappings (`EnumerateFields`)
and gives the fields of those without an info a delegate that runs no body (`InterceptField`). An info whose delegate was not built, or a mapping without a signature,
makes it throw: `OnMethodCallIntercepted` logs that, the module initializer fails.
`crossed` collects the methods of which an update came before they were loaded, or was handled when a handler was
registered, or came while a thread that had enumerated its info was still writing. The loading of another overload does not cross a method unless it
meets an update in this way. The delegate that the module initializer builds (`LookUp`) is built in one
step; its method is `crossed` already, and none of the properties is about it. One calling thread is enough to
see every state of the fields, as calls change nothing.

### GenericMethod

A generic method of a class that is not generic. The receiving thread pushes the new info on the type's stack (`Receive`, or
`ReceiveOther` for a document without the method), copies the stack (`Enumerate`) and then
walks it from the bottom: `StoreInfo` and `Bump` for every info it has ever been given, old ones first. A caller reads the version and the
info (`Enter`, `ReadInfo`), and when its delegate was constructed for another version (`Compare`) it constructs a method for its type
argument (`MakeCached`, `MakeNew`, which pushes it on the same stack), stores the delegate and then the version
(`StoreDelegate`, `StoreVersion`), and runs the delegate that is there (`Invoke`). A body that cannot be read (`MakeFails`) or compiled (`Build`) ends the call with an
exception, as does a delegate of another type. An info is its place in the stack, as nothing
is ever taken from it. Taken for granted: the assembly has been loaded; the infos of the type's other
methods change nothing here; a delegate is usable for another type argument when the argument does not show in the signature
(`shown`; variance of delegate types between reference types is left out).


## 3. The runs

`tlc -workers 2 -config <cfg> MC<module>`; each ends within minutes.

| Run | Instance | What it shows |
|---|---|---|
| `matchmaking` | 2 requests for 1 or 2 projects, one of which may be mangled | `AddressOfProject`: no project is given another one's address though all posts go through one subject. `NoOrphanFlag`: whatever path a request takes out, no loading flag stays. `RequestsComplete`, `DeadRemoved`: every request ends, dead workspaces leave. `ImplementsDirectory`: the refinement |
| `matchmaking_refused` | 3 requests, 1 project | *violated*: see finding 1. Three requests: one loads, one is refused and clears the flag, the third gets in |
| `server_client` | 3 messages, 2 connections | `SentAtMostOnce`, `NoCarryOver`: one message can be in flight, one queued and one arriving, over a reconnection. `NoneStranded`: a message waits in the queue of a live connection only behind somebody who will take it, or it was put there behind the callback that found the queue empty. `NotWedged`, `FailureEndsWait`: the busy flag and the wait end. `ImplementsOutbox`: the refinement |
| `server_client_overflow` | 3 messages, 1 connection | *violated*: see finding 2 |
| `framed_stream` | all streams of 3 messages over 3 kinds, up to 2 faults, on a socket and on the hub | `WholeDelivered`, `NothingInvented`, `ReadyBetween`: what arrives whole is delivered, nothing is invented although a content is damaged, and the parser never waits for bytes that are not coming. On the hub this begins again at the first pause after a collision or an exception |
| `update_pipeline` | a C# file whose first edit does not compile and a Razor file, 3 edits, 3 jobs and the dry run; jobs that overlap are 2 and the dry run, with 2 edits | `PreviousUsable`, `RefusedOnlyIfDelayed`, `JobsComplete`: overlapping jobs leave no disposed compilation for the next one, lose an edit only after a locked file or a Razor job, and all end. `WorkspaceForward`, `SavedIsApplied`: no older text gets into the workspace, and the last save of a file does, or it is known why not. `InStep`, `NeverBackwards`: without overlap the application runs what was last compiled, also after a restart of the dashboard, but for edits between the build and the first dry run |
| `file_watcher` | 1 file, 2 timers, 2 writes | `NeverBlind`, `NotedIsReported`, `EveryWriteReported`, `StopsAfterDispose`: the watching goes on, a time is in the table only if the change was or will be reported, each write is, and scanning ends; with scans of timers and of events overlapping, and scans that throw |
| `dashboard_host` | 2 connections with their project infos, or with 1 broadcast; 1 connection with 2 broadcasts | `NeverDeaf`, `WorkspaceUsable`, `WatchesOnce`, `NoClientLost`: the listener, the workspace and the list of clients. `InOrder`, `NoSendStuck`, `DisconnectQuits`, `BroadcastReaches`: sends run in order, never wait for each other in a circle, even when chained at once, and each runs, also after one that failed |
| `method_update` | 2 overloads, 2 documents, one method called; once both methods are crossed no second document, and the second is for one method | `NewestInEffect`, `InterceptorKept`: what the module initializer, a registration and documents leave in the fields. `OneBody`, `NeverBackwards`: what a call runs |
| `method_intercepted` | 2 methods with names of their own, no documents | *violated*: see finding 4 |
| `generic_method` | 2 callers, 2 type arguments, 2 documents, at most 4 infos | `NewestStored`, `NewestRuns`, `OwnType`: after a walk the newest info is stored, and a call that nothing meets runs the newest body, made for its own type argument, or fails because that one does not compile |
| `method_update_late` | 1 method, 1 document | *violated*: see finding 3 |

**Bounds.** The components' races are between two actors over one item; every instance has two of
each that can race and a third where the code has a third party (the loop beside callback and
sender; the dry run beside two jobs; timer and event scans beside Dispose). `MaxConnections`,
`MaxVersion`, `MaxWrites`, `MaxUpdates`, `StreamLength` and `MaxFaults` stop counters that have no
bound in the code; each allows a repetition, so that what the first round leaves behind is met by the
second. `Timers` bounds the scans and timers that exist at once; a scan with no free timer waits for
one, and two are enough for a current and an orphaned one. Five constraints cut runs short. `EditBound`
(`update_pipeline`): three edits, one for each job; once jobs have overlapped, or the dry run has waited for its text, two edits and two jobs. Two jobs
and the dry run are the three parties that the queue, the workspace and the previous compilation can have, and longer histories
are explored without overlap, where `InStep` and `NeverBackwards` have something to say. `HostBound` (`dashboard_host`): the second connection meets project infos or a broadcast, not both, as
no action reads both the workspace and the sends; and it does not meet two broadcasts.
`OneAtOnce` (`method_update`): after the first document, one method at most has met its loading or the registration, and the second document is for one method; it
cuts documents for two methods that are both exempt from the properties, or that the first document has updated in the same way. `CallsBound` (`method_update`): one of the methods is called, and only
while it is not `crossed` (no property says anything of such a call, and a method stays crossed), and not when the handler was registered before all was loaded, as it is in every delegate then.
`StackBound` (`generic_method`):
four infos are two documents and two constructed methods, enough for a constructed one below, between and above the
documents' own. `Collide` happens once in a stream, as it already leaves the parser in any state. Symmetry is
used in runs without liveness only; `HostBound` names one connection and one broadcast as the first. `CHECK_DEADLOCK FALSE`: each instance has a finite number of
requests, messages, edits or documents and stops when they are used up; the dashboard process and the
module initializer may also end by an exception.

**Conditions in properties.** Several properties leave cases out, and each of these exceptions is needed: without it
TLC finds the code violating the property.
`WatchesOnce` without `disturbed`: two project infos at once leave two file watchers, and every edit is
compiled and sent twice. `NoClientLost` without `overlapped`: two connections added at once, one is lost from the
list. `InOrder` without `crossed`: two broadcasts that chain at once may overtake each other.
`InStep` and `NeverBackwards` (pipeline) without `disturbed`: overlapping jobs send older code after newer. `NeverBackwards` also
without `outdated`: a Razor job that was noticed before a C# edit was applied compiles the project without that edit, and sends it.
`InStep` for files that are not `unsent`: an edit between the build and the first dry run goes into the cache as if it had been built.
`NeverBlind` without `failed`, `NotedIsReported` for files that are not `unreported`, `EveryWriteReported` for both: a scan of the timer that throws ends the
timers, until an event starts another scan, and the changes it had noted are reported with the next write only.
`SavedIsApplied` for files that are not `missed`: a save within 100 ms of one that has been read already, or without a valid license, is dropped, and nothing
looks at the file again until it is saved once more; nor when a solution was `refused`, whose edit is forgotten.
`NoneStranded` without `behind`: the message waits until the next one is sent.
`NewestStored`, `NewestRuns` and `OwnType` without `late`: a caller that had read the info of an older document constructs a method
from it after the newer one came, and every later walk ends with that; without `mixed`: two callers of one type argument store delegate and version crosswise,
which leaves the old delegate with the new version. `OwnType` without `omitted`: after a document that does not have the method the
top of the stack is a method constructed for one type argument, it is stored, and every other type argument's
method is "constructed" from it; compiling it throws in the caller, or a body for another type runs. And `OwnType` allows an exception when the newest body does not compile, and no other.
All of MethodUpdate's properties without `crossed`: an older delegate, or one that runs no body, is
written over a newer one by the registering thread or the module initializer; nothing corrects it until the
next update. `InterceptorKept` without `Reshaped`: an update that changes a method's return type
makes the registration count it as intercepted without setting the field its compiled callers use; and when the registration has thrown, only for the methods
that were loaded after it: the others are finding 4.
For the interceptors the documentation does promise more ("whenever a specified method is invoked", `LiveSharp/ILiveSharpRuntime.cs:48`): `HandlerInvoked` states that, and
is violated; `InterceptorKept` says what is left of it. Of the other exceptions no document, comment or test speaks, so they are stated as conditions and not as findings.

**Fairness.** `FairSpec` says that threads which can run do, that operations that were begun
complete or fail, and that timers fire. It never says that a user edits, an application connects,
a process posts its address, a file system event arrives or a message is sent. Strong fairness is
assumed once, for the end of a connection in `DashboardHost`: receive callbacks can go on while
bytes are left in a closed socket, and there are finitely many.


## 4. Findings

1. `RefusedWhileLoading` (`LiveSharp.Server/Services/MatchmakingService.cs:70`). A request that is told
   "Wait for the original workspace" runs the same finally block as the request that loads, and removes its flag.
   The next request starts a second dashboard for the project.
2. `NoOverflow` (`LiveSharp.Shared/Network/ServerClient.cs:166`). The send callback and the receive callback of a broken
   connection both see an empty semaphore and both release it; the second `Release` throws in a callback.
3. `AttachedAnyway` (`LiveSharp.Runtime/LiveSharpAssemblyContext.cs:96`). The comment above says that an update which
   arrives before the method's mapping is attached anyway. If it has been handled by then, its
   delegate is a `Func` or `Action`, chosen when no field was known, and the type test fails.
4. `HandlerInvoked` (`LiveSharp.Runtime/LiveSharpAssemblyContext.cs:145`). A registered handler "will be invoked whenever a specified method is invoked". The module
   initializer adds a mapping in one step and its signature in the next; a registration that comes in between throws, the exception is logged, and
   methods that were loaded before and that it had not come to never call the handler.

Not findings, since no document, comment or test says otherwise, but visible in the models:
messages may be reordered after a reconnection; `SocketTransport` never reports the end
of a stream (0 bytes), though its subscriber handles it; a failure between the reconnect and the reset of its flag
is not noticed until the next one, and a token left over tears a healthy connection down;
the dashboard quits when any client disconnects and listens on a new port when started again,
so an application that reconnects does not find it; documents for an assembly without a
context are dropped; a method info whose delegate was never built makes the
registration of an interceptor, or the module initializer, throw (`IL/DelegateBuilder.cs:79`);
writing one project's first cache file deletes those of the others (`LiveSharp.Workspace/CSharp/LiveSharpHandler.cs:260`);
a handler of `MessageParsed` that throws leaves the parser in its checksum state (`LiveSharp.Shared/Network/MessageParser.cs:114`).


## 5. The proofs

`tlapm <module>.tla` checks them. Each module's theorems rest on its `ASSUME` only: that the
constants are disjoint sets of names and that bounds are natural numbers. Of DashboardHost's clients it says that they are finitely
many, since `TypeOK` counts them; no other set has to be finite. All safety properties that the passing runs check are proved.

**MatchmakingProofs.** `TypeCorrect`, `FlagSafe`, `AddressSafe` and `DirectoryRefinement`. The types alone are not inductive: a
request that writes an entry back, or registers one, must have it (`Pending`). Nor is `AddressOfProject`: an entry that a request
has looked up is written back later, whatever has happened to the dictionary since, so it has to be one of the request's project too
(`FoundOfProject`). The refinement follows from both: a reply is an address posted for the request's project, and it is not changed
after the request is done.

**ServerClientProofs.** `ClientTypes`, `OnceOnTheWire`, `NotCarriedOver`, `NobodyStranded` and `OutboxRefinement`, all from `IInv`, and `BusyHeld`. A message is in one place:
with its thread, in the queue (`Queued`: as often as its place says, once), in flight or on the wire (`Given`). What is in the queue
was put there for the connection that is open (`Carried`), because the loop empties the queue before it opens the next.
`NoneStranded` is inductive with `Waiting`: whoever is in `behind` still waits.
The steps fall into those that move no message (`Quiet`, most of them) and five that do, so that each conjunct has six cases and
not one for every action; the refinement uses the same division. `BusyIsHeld` is inductive with `Usable`: the loop opens a connection only
when the socket of the last one cannot send, so a flag that a failed send has left set is the loop's to clear.

**FramedStreamProofs.** `StreamTyped`, `StreamDelivers`, `StreamInventsNothing`, `StreamReadyBetween`, for any set of messages that a sender can
encode (`Sendable`: a content's length is an int, and a part of a multipart is not one itself) and any faults. They need facts about data first, each by
induction over the length. The prover has no induction schema that takes a property as a parameter; the lemma `Induction` states it
of sets instead (a set of numbers that has 0 and with every number the next is `Nat`), from the well-foundedness of `<`. `Recursion` says with its help that
the recursive functions `FletcherSums` and the one behind `FlattenSeq` exist and satisfy their equations.
From this follow: `ChecksumDetects`, a changed byte always changes Fletcher16, unless 0 and 255 are exchanged, because after the place of
the change the first sums never meet again; `Int32Injective`, lengths below 2^31 are told apart, so the parser stops collecting a content at
its length and nowhere else; `BufferFrame`, `DamagedFrame`, the layout of a buffer (`Frame`); `PartsCut`, the places where the parts of a
multipart begin.
The inductive invariant says what a parser in step holds. `Outside`: fed from the wire, it `Reads` the message: it has its first
`received` bytes, as fields and inner buffer, and the wire carries the message or one whose checksum is wrong. `Within`: fed the content of a multipart, it reads
the j-th part, and j - 1 have been delivered. `Ready`: between messages it waits for the first byte. `Told`: what has been delivered are the
first of what is due. Without the first two, `WholeDelivered` says nothing about a message that is still coming in.
`Followed` and `Completed` are the parser alone: a byte before the last of a message brings it one byte further and raises nothing, the last one
completes it. `MiddleByte`, `LastByte` and `InsideByte` lift them to the stream; every step of `FeedNext` and `HandlerThrows` has one of three
outcomes (`Completes`, `Continues`, `Enters`); a content that cannot be decompressed leaves it between two messages on a socket and out of step on the hub (`DecompressFailsKeeps`). A parser out of step owes nothing but its types: whatever two colliding buffers leave of it, the reset at the first
byte after a pause, together with the clearing of the inner buffer in `OnInit`, makes it `Between` messages.

**FileWatcherProofs.** `WatcherTypes`, `WatcherNeverBlind`, `WatcherLosesNothing`. "A scan or a timer is there" is not inductive: a scan cancels the timer that is
set. The invariant `Ahead` adds that while `_cts` is cancelled some scan has yet to give it another source and will then set a timer, so a timer that
is lost is always replaced, unless a scan has thrown and none has begun since. `Noted` adds to `NotedIsReported` what scans are about to note (`Owed`): a scan that found its time no later than the
table's does not report the file itself, and relies on the scan that put the table's time there, or on what that one has reported since; if that one throws, the file is in `unreported`.

**UpdatePipelineProofs.** `PipelineTypes` (with `Named`: a job that is not idle is about a file), and seven theorems, each from an invariant of its own:
- `PreviousSafe` from `Kept`: what is previous or disposed belongs to jobs that are done, so no job can make a disposed one current again.
- `RefusedSafe` from `Alone`: until some job has waited or a Razor job has begun nothing is refused, a job in the part before the first
  await is the one that holds up the queue, and the solution it has taken is the current one.
- `ForwardSafe` from `Ordered` and `Taken`: texts and versions only grow, and a solution that would be accepted holds nothing older than the
  workspace, because it was made from it; a version that has been applied is never taken again.
- `InStepSafe` from `Undisturbed`: without overlap one build at a time is under way (`Solo`), the dry run is the first (`DryFirst`), the application
  runs what was built until it has sent, and `unsent` has the files of which the cache says otherwise (`AsBuilt`), and from then on what the previous container holds or is about to hold (`Tracked`).
- `BackwardsSafe` from `Forward`, on top of that: what a build compiles is what the workspace has (`Fresh`), and what the application runs is
  no newer.
- `SavedSafe` from `Saved` and `Waiting`: for every file that was noticed the workspace has the text, or some build is `Coming`: queued, yet to read,
  or about to apply a text that is new enough. A debounced job leaves it to the one that has not read the file, and what is queued is on the queue.

**DashboardHostProofs.** `HostTypes`, `ListenerSafe`, `WorkspaceSafe`, `ListSafe`, `OneWatcher`, `OrderSafe`, `SendsNeverStuck`. `Grounded` says where the threads are and what they have
in hand; `Balanced` counts pending accepts against connections, which bounds them.
`CurrentInv` adds to `WorkspaceUsable` which workspaces exist: only one that has been created is current or disposed of, so the
workspace that a thread assigns is not one that has been disposed. `Listable`: as long as nobody overlapped, a list that was read is still the current one when
it is replaced. `InTurn`: a running watcher is the current workspace's, or its thread is about to dispose it. `Once` and `Ordered`: a broadcast is
chained to a client once, and the clients' chains, with what has been sent, are in the order of chaining.
`Backwards` holds of every client, also one that was chained to twice at once: a task waits for one chained before it, so the first that has not
run can (by the well-foundedness of `<`).

**MethodUpdateProofs.** `TypeCorrect`, `InterceptorSafe`. `Typing` adds to the types that a thread working on a method
has one (`Located`), and that what a thread is to intercept has an info (`Enumerated`).
`InterceptorKept` speaks of methods that are linked; the invariant follows each of the two threads that write interceptors on the way there. A method that was linked
before the registration calls the handler, or the registering thread has it before it (`Kept`, `Due`); of one that is being loaded the same holds of the module initializer
(`Caught`), so when its mapping ends it calls the handler, whether the registration has succeeded, thrown or is still under way. `Due` counts a thread that has failed as one that has
everything before it: that is why the property asks of earlier methods that the registration has ended well.
`KeptInv` is what this needs of the rest: only a method that is crossed had an update before it was linked (`Met`), so the delegates of the others
fit their fields (`Fitting`), unless the return type changed, which is chosen once (`Fresh`); a delegate is made only of what compiles and of what has been received (`Sane`, `Received`);
and where the three threads are (`Linking`, `InDocument`). `InterceptionInv` adds what the writers hold: what a thread has
enumerated is still all there is, or the method is crossed (`Copied`); a delegate about to be written or attached calls the handler (`Writing`, `Attaching`); and `Unmade`, `Holding`.
`Works` and `BuilderStep` sum up what any step does to the builders, so that each of these is proved by a few cases.

On top of that (`HeldInv`) `NewestSafe`, `OneBodyOnly` and `NeverOlder`. `InEffect`: the field has the newest body that is usable, or the receiving
thread holds that one and is about to write it; a delegate without a body is there only if the handler is. Needed for it: what the receiving thread holds has been made (`Made`), and
versions are bumped before delegates are (`Versioned`). `FieldStep` says which delegate a step may write to the field of a method that is not crossed, for all
three writers at once: the latest update, or the bare interceptor if there is no update. `Calling` follows a call between its version check
and its end: the bodies it can run lie between what earlier calls have run and the field (`Runs`).

**GenericMethodProofs.** `GenericTypes`, `NewestIsStored`, `NewestIsRun`, `OwnTypeIsRun`. `Stacked`: the stack has the newest document's info, and what is above it, unless
`late`, was constructed from it. `Upward`: a walk ends at or above it, so what it stores last is new. `InHand` says of what a caller
has read or made that it is right for its argument; `Settled` that a delegate which carries the current version was constructed
from the stored info, unless `mixed`; `ByItself` draws from both what a call that nobody meets has at every point: an exception it ends with
means a `late` builder, a document that `omitted` the method, or a newest body that cannot be read or does not compile.

The types of every component (`TypeOK`) are among the theorems, for all constants, and are not repeated as invariants of the runs; neither is
`BusyIsHeld`, which `NotWedged` shows on the instance.

Only model-checked: all liveness, which is out of the prover's reach. For four of these properties what they rest on is proved as a safety property:
`NotedIsReported` for `EveryWriteReported` (with `NeverBlind`: somebody goes on looking, and what is noted is not forgotten), `BusyIsHeld` for `NotWedged`, `NoSendStuck` for
`BroadcastReaches`, and `UpdatePipeline`'s `TypeOK` for `JobsComplete` (the queue is held up only by a job before its first await). What is left to TLC is that those
who can go on do.


## 6. Not modelled

- The IL interpreter and compiler (`LiveSharp.Runtime/IL`, `Virtual`): they translate IL to expression trees; their meaning is
  that of the CLR. MethodUpdate and GenericMethod take from them that compiling succeeds or throws, and both model what follows when it throws.
- Rewriters and the build task: sequential transformations of assemblies. What they inject is modelled in MethodUpdate and GenericMethod.
- Translation in the XAML and Razor handlers, framework support, user interfaces, IDE plugins, samples, the legacy client.
- The JavaScript under `LiveSharp.Server/wwwroot`: screens of an earlier user interface that no page loads, and vendored
  libraries (vue.js, jQuery). The system's own logic is C#.
- The runtime debugger and the streaming parsers (`LiveSharp.Shared/Parsing`) that serialize its events: switched off at this commit.
- The handshake (`LiveSharp.Runtime/Handshake`): a sequential loop over three ports. Its requests are Matchmaking's, and a
  request whose answer comes too late is one that nobody waits for.
- Within modelled components: assembly and resource updates, the update handlers, infos that are made by calls from updated bodies (MethodUpdate, GenericMethod);
  XAML and resource jobs, several projects, reloading the solution (UpdatePipeline); the views of the hub (DashboardHost); messages that
  are raised while two buffers are in the hub's parser at once (FramedStream). GZip is taken as invertible, and as rejecting what does not begin as its output does. Within one step although the code has
  several: killing a process and removing its workspace, looking up an entry and testing its process (Matchmaking); pairs of lines of the connecting loop that only it runs or that
  are as good as one (ServerClient); disposing the queue and the watcher of a workspace (DashboardHost). A header byte that is damaged on the way is not among the faults (FramedStream).


## 7. Plan

Done: Matchmaking with its directory, ServerClient with its outbox, MessageParser and FramedStream with the hub, UpdatePipeline with Razor jobs, FileWatcher,
DashboardHost, MethodUpdate, GenericMethod; the proofs listed above. Next:

Models
1. UpdatePipeline: several projects and their cache files (writing one deletes the others'); XAML and resource jobs on the same queue.
2. The runtime's update handlers (`LiveSharpRuntimeProxy`, `DashboardUpdateHandler`), which register interceptors on the receiving thread.
3. Handshake: the server waits 20 s for a dashboard, the runtime gives up on an answer after 10 s and asks the next address; composed with
   Matchmaking's requests.
4. GenericMethod: generic methods of generic classes, and infos made by updated bodies.

Proofs
1. The safety that the other liveness properties rest on: `RequestsComplete` (a subscribed request has a timeout or an answer to come),
   `FailureEndsWait` (a reported failure leaves a token or a woken loop).
2. The models above, each with its theorems.
