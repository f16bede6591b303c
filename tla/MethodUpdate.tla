---------------------------- MODULE MethodUpdate ----------------------------
(***************************************************************************)
(* How the runtime replaces methods while the application runs.            *)
(*                                                                         *)
(* The build injects two static fields for every method, for a delegate    *)
(* and for a version, and a prologue that looks at them.  The module       *)
(* initializer of an assembly tells its LiveSharpAssemblyContext where     *)
(* these fields are.  The receiving thread turns every document into       *)
(* VirtualMethodInfos, bumps the versions, and writes compiled delegates   *)
(* into the fields; registering an interceptor writes them too.  No lock   *)
(* orders these three threads and the callers.                             *)
(*                                                                         *)
(* The methods are those of one assembly and one type, none of them        *)
(* generic; those with the same name are overloads.  A VirtualMethodInfo   *)
(* is a method and the number of the document it came with; a version      *)
(* field counts, but only whether it is 0 is ever looked at.               *)
(***************************************************************************)
EXTENDS Naturals, FiniteSets

CONSTANTS
  Methods,    \* the methods that are compiled into the assembly
  Name,       \* the name of each
  None,
  MaxUpdates  \* bound: how many documents arrive

ASSUME MethodUpdateAssumption ==
  /\ None \notin Methods
  /\ MaxUpdates \in Nat

Updates == 1..MaxUpdates

\* The threads that run CreateCallInterceptors.
Interceptors == {"loader", "registrar"}

\* A new body may have another return type, or be IL that does not compile.
Kinds == {"good", "changed", "broken"}

VARIABLES
  loader,       \* where the module initializer is
  loading,      \* the method whose mapping it is adding
  held,         \* the document of the method info it has found in AllMethods
  mapped,       \* _precompiledDelegateFieldNameMapping
  signed,       \* _delegateSignatures
  updater,      \* where the receiving thread is
  document,     \* the methods of the document it is working on
  rest,         \* those it has yet to handle
  initializing, \* the one whose delegate it is building
  latest,       \* the number of documents that have been received
  allMethods,   \* AllMethods: the document of each method's latest info
  builder,      \* the DelegateBuilder of each VirtualMethodInfo
  handler,      \* _interceptorHandlers has the interceptor
  stage,        \* where each thread is in CreateCallInterceptors
  snapshot,     \* the method infos it has enumerated
  remaining,    \* the methods it has yet to handle
  current,      \* the method whose interceptor it has set, but not its field
  earlier,      \* history: the methods that were linked when the handler was registered
  field,        \* the static delegate field of each method
  hasUpdate,    \* methods whose version field is not 0
  caller,       \* where a calling thread is
  called,       \* the method it calls
  ran,          \* history: the bodies this call has run; 0 is the original
  before,       \* history: the latest body a call of each method has run
  crossed       \* history: methods an update of which met their loading or a thread that
                \* was writing interceptors

loaderVars == <<loader, loading, held, mapped, signed>>
updaterVars == <<updater, document, rest, initializing, latest, allMethods>>
interceptorVars == <<stage, snapshot, remaining, current>>
registryVars == <<handler, earlier>>
registrarVars == <<interceptorVars, registryVars>>
callerVars == <<caller, called, ran, before>>
fields == <<field, hasUpdate>>
vars == <<loaderVars, updaterVars, registrarVars, callerVars, fields, builder, crossed>>

-----------------------------------------------------------------------------
(* Delegates *)

\* What a delegate field holds: the body that the delegate runs (none: 0) and
\* whether it calls the interceptor.
Null == [body |-> 0, intercepted |-> FALSE]
InterceptorOnly == [body |-> 0, intercepted |-> TRUE]

\* type: what DelegateType is, once the builder has been made; made: _pureDelegate is set.
Builders == [kind : Kinds, type : {"unset", "field", "other"}, made : BOOLEAN, intercepted : BOOLEAN]

NewBuilder(kind) == [kind |-> kind, type |-> "unset", made |-> FALSE, intercepted |-> FALSE]

\* The lazy DelegateBuilder: the field's type, if the field is known by now
\* and the return type is the compiled one, else a Func or an Action.
Typed(m, b) ==
  [b EXCEPT !.type = IF @ # "unset" THEN @
                     ELSE IF m \in mapped \cap signed /\ b.kind # "changed" THEN "field" ELSE "other"]

\* CreateDelegate, and the interceptor that is registered by now.
Compiled(b) == [b EXCEPT !.made = TRUE, !.intercepted = FALSE]
Intercepted(b) == [b EXCEPT !.intercepted = handler]

\* TryUpdateDelegateField
Attached(m, n, b) ==
  IF m \in mapped /\ b.type = "field"
  THEN [field EXCEPT ![m] = [body |-> n, intercepted |-> b.intercepted]]
  ELSE field

SetBuilder(m, n, b) == builder' = [builder EXCEPT ![m][n] = b]

-----------------------------------------------------------------------------

\* The variables take these values.
TypeOK ==
  /\ loader \in {"outside", "idle", "sign", "look", "attach", "handler", "intercept", "done", "failed"}
  /\ loading \in Methods \cup {None}
  /\ held \in [body : 0..MaxUpdates, intercepted : BOOLEAN]
  /\ mapped \subseteq Methods
  /\ signed \subseteq mapped
  /\ updater \in {"idle", "deserialize", "process", "initialize", "intercept", "attach"}
  /\ document \subseteq Methods
  /\ rest \subseteq Methods
  /\ initializing \in Methods \cup {None}
  /\ latest \in 0..MaxUpdates
  /\ allMethods \in [Methods -> 0..MaxUpdates]
  /\ builder \in [Methods -> [Updates -> Builders]]
  /\ handler \in BOOLEAN
  /\ stage \in [Interceptors -> {"idle", "enumerate", "infos", "fields", "done", "failed"}]
  /\ snapshot \in [Interceptors -> [Methods -> 0..MaxUpdates]]
  /\ remaining \in [Interceptors -> SUBSET Methods]
  /\ current \in [Interceptors -> Methods \cup {None}]
  /\ earlier \subseteq Methods
  /\ field \in [Methods -> [body : 0..MaxUpdates, intercepted : BOOLEAN]]
  /\ hasUpdate \subseteq mapped
  /\ caller \in {"idle", "invoke", "check", "return"}
  /\ called \in Methods \cup {None}
  /\ ran \subseteq 0..MaxUpdates
  /\ before \in [Methods -> 0..MaxUpdates]
  /\ crossed \subseteq Methods

Init ==
  /\ loader = "outside" /\ loading = None /\ held = Null /\ mapped = {} /\ signed = {}
  /\ updater = "idle" /\ document = {} /\ rest = {} /\ initializing = None /\ latest = 0
  /\ allMethods = [m \in Methods |-> 0]
  /\ builder = [m \in Methods |-> [n \in Updates |-> NewBuilder("good")]]
  /\ handler = FALSE /\ earlier = {}
  /\ stage = [t \in Interceptors |-> "idle"]
  /\ snapshot = [t \in Interceptors |-> [m \in Methods |-> 0]]
  /\ remaining = [t \in Interceptors |-> {}]
  /\ current = [t \in Interceptors |-> None]
  /\ field = [m \in Methods |-> Null] /\ hasUpdate = {}
  /\ caller = "idle" /\ called = None /\ ran = {}
  /\ before = [m \in Methods |-> 0]
  /\ crossed = {}

-----------------------------------------------------------------------------
(* The module initializer: AddDelegateFieldMapping for every method.  No    *)
(* method of the assembly is called before it has ended.                    *)

\* The first mapping of an assembly makes its context.
CreateContext ==
  /\ loader = "outside"
  /\ loader' = "idle"
  /\ UNCHANGED <<loading, held, mapped, signed, updaterVars, registrarVars, callerVars, fields, builder, crossed>>

Map(m) ==
  /\ loader = "idle"
  /\ m \notin mapped
  /\ mapped' = mapped \cup {m}
  /\ loading' = m
  /\ loader' = "sign"
  /\ UNCHANGED <<held, signed, updaterVars, registrarVars, callerVars, fields, builder, crossed>>

Sign ==
  /\ loader = "sign"
  /\ signed' = signed \cup {loading}
  /\ loader' = "look"
  /\ UNCHANGED <<loading, held, mapped, updaterVars, registrarVars, callerVars, fields, builder, crossed>>

\* No update of the method has arrived before its mapping.
LookInVain ==
  /\ loader = "look"
  /\ allMethods[loading] = 0
  /\ loader' = "handler"
  /\ UNCHANGED <<loading, held, mapped, signed, updaterVars, registrarVars, callerVars, fields, builder, crossed>>

\* One has: GetDelegate, which builds the delegate if it is not there; that may throw.
LookUp ==
  LET n == allMethods[loading]
      b == Typed(loading, builder[loading][n])
      built == IF b.made THEN b ELSE Intercepted(Compiled(b)) IN
  /\ loader = "look"
  /\ n # 0
  /\ IF b.made \/ b.kind # "broken"
     THEN /\ SetBuilder(loading, n, built)
          /\ field' = IF b.made THEN field ELSE Attached(loading, n, built)
          /\ held' = [body |-> n, intercepted |-> built.intercepted]
          /\ loader' = IF b.type = "field" THEN "attach" ELSE "handler"
     ELSE /\ loader' = "failed"
          /\ SetBuilder(loading, n, b)
          /\ UNCHANGED <<held, field>>
  /\ UNCHANGED <<loading, mapped, signed, updaterVars, registrarVars, callerVars, hasUpdate, crossed>>

AttachHeld ==
  /\ loader = "attach"
  /\ field' = [field EXCEPT ![loading] = held]
  /\ held' = Null
  /\ loader' = "handler"
  /\ UNCHANGED <<loading, mapped, signed, updaterVars, registrarVars, callerVars, hasUpdate, builder, crossed>>

\* Mutant: the registered handler is not looked up when a mapping is added.
FindNoHandler ==
  /\ loader = "handler"
  /\ loader' = "idle"
  /\ loading' = None
  /\ UNCHANGED <<held, mapped, signed, updaterVars, registrarVars, callerVars, fields,
                 builder, crossed>>

FindNothing ==
  /\ loader = "handler"
  /\ ~handler
  /\ loader' = "idle"
  /\ loading' = None
  /\ UNCHANGED <<held, mapped, signed, updaterVars, registrarVars, callerVars, fields,
                 builder, crossed>>

\* A registered handler intercepts the methods that have the name of this one.
FindHandler ==
  /\ loader = "handler"
  /\ handler
  /\ loader' = "intercept"
  /\ stage' = [stage EXCEPT !["loader"] = "enumerate"]
  /\ UNCHANGED <<loading, held, mapped, signed, updaterVars, snapshot, remaining, current, registryVars,
                 callerVars, fields, builder, crossed>>

EndMapping ==
  /\ loader = "intercept"
  /\ stage["loader"] = "done"
  /\ loader' = "idle"
  /\ loading' = None
  /\ stage' = [stage EXCEPT !["loader"] = "idle"]
  /\ UNCHANGED <<held, mapped, signed, updaterVars, snapshot, remaining, current, registryVars,
                 callerVars, fields, builder, crossed>>

EndLoading ==
  /\ loader = "idle"
  /\ mapped = Methods
  /\ loader' = "done"
  /\ UNCHANGED <<loading, held, mapped, signed, updaterVars, registrarVars, callerVars, fields, builder, crossed>>

Load == CreateContext \/ (\E m \in Methods : Map(m)) \/ Sign \/ LookInVain \/ LookUp \/ AttachHeld
        \/ FindNothing \/ FindHandler \/ EndMapping \/ EndLoading

-----------------------------------------------------------------------------
(* The receiving thread: UpdateDocument.  What throws ends the document;    *)
(* the exception is logged.                                                 *)

\* An assembly without a context has no use for its documents.
ReceiveInVain ==
  /\ updater = "idle"
  /\ latest < MaxUpdates
  /\ loader = "outside"
  /\ latest' = latest + 1
  /\ UNCHANGED <<updater, document, rest, initializing, allMethods, loaderVars, registrarVars, callerVars,
                 fields, builder, crossed>>

Receive(doc) ==
  /\ updater = "idle"
  /\ latest < MaxUpdates
  /\ loader # "outside"
  /\ latest' = latest + 1
  /\ document' = doc
  /\ rest' = doc
  /\ updater' = "deserialize"
  /\ UNCHANGED <<initializing, allMethods, loaderVars, registrarVars, callerVars, fields, builder, crossed>>

\* The module initializer has added the method's mapping.
Linked(m) == m \in mapped /\ m # loading

\* The methods that a thread intercepts: the registration is for all of the type's.
Matching(t) == IF t = "registrar" THEN Methods ELSE {m \in Methods : Name[m] = Name[loading]}

\* Some thread has enumerated the method's info, and writes what it has found.
Intercepting(m) == \E t \in Interceptors : stage[t] \in {"infos", "fields"} /\ m \in Matching(t)

\* Mutant: AllMethods keeps the first info of a method.
DeserializeFirst(m, kind) ==
  /\ updater = "deserialize"
  /\ m \in rest
  /\ SetBuilder(m, latest, NewBuilder(kind))
  /\ allMethods' = [allMethods EXCEPT ![m] = IF @ = 0 THEN latest ELSE @]
  /\ crossed' = IF Linked(m) /\ ~Intercepting(m) THEN crossed ELSE crossed \cup {m}
  /\ rest' = rest \ {m}
  /\ UNCHANGED <<updater, document, initializing, latest, loaderVars, registrarVars, callerVars, fields>>

Deserialize(m, kind) ==
  /\ updater = "deserialize"
  /\ m \in rest
  /\ SetBuilder(m, latest, NewBuilder(kind))
  /\ allMethods' = [allMethods EXCEPT ![m] = latest]
  /\ crossed' = IF Linked(m) /\ ~Intercepting(m) THEN crossed ELSE crossed \cup {m}
  /\ rest' = rest \ {m}
  /\ UNCHANGED <<updater, document, initializing, latest, loaderVars, registrarVars, callerVars, fields>>

\* Every method info the type has ever been given is processed again.
BeginProcess ==
  /\ updater = "deserialize"
  /\ rest = {}
  /\ rest' = {m \in Methods : allMethods[m] # 0}
  /\ updater' = "process"
  /\ UNCHANGED <<document, initializing, latest, allMethods, loaderVars, registrarVars, callerVars,
                 fields, builder, crossed>>

\* Mutant: the version stays what it was.
ProcessNothing(m) ==
  /\ updater = "process"
  /\ m \in rest
  /\ rest' = rest \ {m}
  /\ UNCHANGED <<updater, document, initializing, latest, allMethods, loaderVars, registrarVars, callerVars,
                 fields, builder, crossed>>

ProcessUpdate(m) ==
  /\ updater = "process"
  /\ m \in rest
  /\ hasUpdate' = hasUpdate \cup ({m} \cap mapped)
  /\ rest' = rest \ {m}
  /\ UNCHANGED <<updater, document, initializing, latest, allMethods, loaderVars, registrarVars, callerVars,
                 field, builder, crossed>>

BeginInitialize ==
  /\ updater = "process"
  /\ rest = {}
  /\ rest' = document
  /\ updater' = "initialize"
  /\ UNCHANGED <<document, initializing, latest, allMethods, loaderVars, registrarVars, callerVars,
                 fields, builder, crossed>>

InitializeDelegate(m) ==
  LET b == Typed(m, builder[m][latest]) IN
  /\ updater = "initialize"
  /\ m \in rest
  /\ IF b.kind = "broken"
     THEN /\ updater' = "idle"
          /\ document' = {}
          /\ rest' = {}
          /\ SetBuilder(m, latest, b)
          /\ UNCHANGED initializing
     ELSE /\ SetBuilder(m, latest, Compiled(b))
          /\ rest' = rest \ {m}
          /\ initializing' = m
          /\ updater' = "intercept"
          /\ UNCHANGED document
  /\ UNCHANGED <<latest, allMethods, loaderVars, registrarVars, callerVars, fields, crossed>>

InterceptNew ==
  /\ updater = "intercept"
  /\ SetBuilder(initializing, latest, Intercepted(builder[initializing][latest]))
  /\ updater' = "attach"
  /\ UNCHANGED <<document, rest, initializing, latest, allMethods, loaderVars, registrarVars, callerVars,
                 fields, crossed>>

TryUpdateDelegateField ==
  /\ updater = "attach"
  /\ field' = Attached(initializing, latest, builder[initializing][latest])
  /\ initializing' = None
  /\ updater' = "initialize"
  /\ UNCHANGED <<document, rest, latest, allMethods, loaderVars, registrarVars, callerVars, hasUpdate,
                 builder, crossed>>

EndUpdate ==
  /\ updater = "initialize"
  /\ rest = {}
  /\ document' = {}
  /\ updater' = "idle"
  /\ UNCHANGED <<rest, initializing, latest, allMethods, loaderVars, registrarVars, callerVars, fields,
                 builder, crossed>>

Update ==
  \/ \E m \in Methods, kind \in Kinds : Deserialize(m, kind)
  \/ BeginProcess
  \/ \E m \in Methods : ProcessUpdate(m)
  \/ BeginInitialize
  \/ \E m \in Methods : InitializeDelegate(m)
  \/ InterceptNew
  \/ TryUpdateDelegateField
  \/ EndUpdate

-----------------------------------------------------------------------------
(* CreateCallInterceptors, as the module initializer runs it for a method   *)
(* it has mapped, and some thread of the application that has called        *)
(* OnMethodCallIntercepted for the type, whose catch logs what it throws.   *)

Register ==
  /\ stage["registrar"] = "idle"
  /\ handler' = TRUE
  /\ earlier' = {m \in Methods : Linked(m)}
  /\ stage' = [stage EXCEPT !["registrar"] = "enumerate"]
  /\ crossed' = crossed \cup document
  /\ UNCHANGED <<snapshot, remaining, current, loaderVars, updaterVars, callerVars, fields, builder>>

\* Without a context of the assembly there is nothing to intercept yet.
Enumerate(t) ==
  /\ stage[t] = "enumerate"
  /\ stage' = [stage EXCEPT ![t] = IF loader = "outside" THEN "done" ELSE "infos"]
  /\ snapshot' = [snapshot EXCEPT ![t] = [m \in Methods |-> IF m \in Matching(t) THEN allMethods[m] ELSE 0]]
  /\ remaining' = [remaining EXCEPT ![t] = {m \in Matching(t) : allMethods[m] # 0}]
  /\ UNCHANGED <<current, registryVars, loaderVars, updaterVars, callerVars, fields, builder, crossed>>

Throw(t) ==
  /\ stage' = [stage EXCEPT ![t] = "failed"]
  /\ remaining' = [remaining EXCEPT ![t] = {}]

\* A method info whose delegate has not been built has no _pureDelegate to call.
SetInterceptor(t, m) ==
  LET n == snapshot[t][m]
      b == Typed(m, builder[m][n]) IN
  /\ stage[t] = "infos"
  /\ current[t] = None
  /\ m \in remaining[t]
  /\ IF b.made
     THEN /\ SetBuilder(m, n, [b EXCEPT !.intercepted = TRUE])
          /\ current' = [current EXCEPT ![t] = m]
          /\ remaining' = [remaining EXCEPT ![t] = @ \ {m}]
          /\ UNCHANGED stage
     ELSE /\ SetBuilder(m, n, b)
          /\ Throw(t)
          /\ UNCHANGED current
  /\ UNCHANGED <<snapshot, registryVars, loaderVars, updaterVars, callerVars, fields, crossed>>

\* GetDelegate and TryUpdateDelegateField.
WriteInterceptor(t) ==
  LET m == current[t] IN
  /\ m # None
  /\ field' = Attached(m, snapshot[t][m], builder[m][snapshot[t][m]])
  /\ current' = [current EXCEPT ![t] = None]
  /\ UNCHANGED <<stage, snapshot, remaining, registryVars, loaderVars, updaterVars, callerVars, hasUpdate,
                 builder, crossed>>

\* Mutant: the fields of methods with an info get a delegate without a body too.
EnumerateAllFields(t) ==
  /\ stage[t] = "infos"
  /\ current[t] = None
  /\ remaining[t] = {}
  /\ stage' = [stage EXCEPT ![t] = "fields"]
  /\ remaining' = [remaining EXCEPT ![t] = mapped \cap Matching(t)]
  /\ UNCHANGED <<snapshot, current, registryVars, loaderVars, updaterVars, callerVars, fields, builder, crossed>>

EnumerateFields(t) ==
  /\ stage[t] = "infos"
  /\ current[t] = None
  /\ remaining[t] = {}
  /\ stage' = [stage EXCEPT ![t] = "fields"]
  /\ remaining' = [remaining EXCEPT ![t] = {m \in mapped \cap Matching(t) : snapshot[t][m] = 0}]
  /\ UNCHANGED <<snapshot, current, registryVars, loaderVars, updaterVars, callerVars, fields, builder, crossed>>

\* A delegate that runs no body at all; without the signature it cannot be built.
InterceptField(t, m) ==
  /\ stage[t] = "fields"
  /\ m \in remaining[t]
  /\ IF m \in signed
     THEN /\ field' = [field EXCEPT ![m] = InterceptorOnly]
          /\ remaining' = [remaining EXCEPT ![t] = @ \ {m}]
          /\ UNCHANGED stage
     ELSE /\ Throw(t)
          /\ UNCHANGED field
  /\ UNCHANGED <<snapshot, current, registryVars, loaderVars, updaterVars, callerVars, hasUpdate, builder, crossed>>

EndInterception(t) ==
  /\ stage[t] = "fields"
  /\ remaining[t] = {}
  /\ stage' = [stage EXCEPT ![t] = "done"]
  /\ snapshot' = [snapshot EXCEPT ![t] = [m \in Methods |-> 0]]
  /\ UNCHANGED <<remaining, current, registryVars, loaderVars, updaterVars, callerVars, fields, builder, crossed>>

Interception(t) ==
  \/ Enumerate(t) \/ WriteInterceptor(t) \/ EnumerateFields(t) \/ EndInterception(t)
  \/ \E m \in Methods : SetInterceptor(t, m) \/ InterceptField(t, m)

-----------------------------------------------------------------------------
(* The injected prologue of a method, as one calling thread runs it.        *)

Enter(m) ==
  /\ caller = "idle"
  /\ loader = "done"
  /\ called' = m
  /\ IF field[m] = Null
     THEN caller' = "return" /\ ran' = {0}
     ELSE caller' = "invoke" /\ ran' = {}
  /\ UNCHANGED <<before, loaderVars, updaterVars, registrarVars, fields, builder, crossed>>

Invoke ==
  /\ caller = "invoke"
  /\ ran' = {field[called].body} \ {0}
  /\ caller' = "check"
  /\ UNCHANGED <<called, before, loaderVars, updaterVars, registrarVars, fields, builder, crossed>>

\* With version 0 what the delegate has returned is dropped and the original body runs.
CheckVersion ==
  /\ caller = "check"
  /\ ran' = IF called \in hasUpdate THEN ran ELSE ran \cup {0}
  /\ caller' = "return"
  /\ UNCHANGED <<called, before, loaderVars, updaterVars, registrarVars, fields, builder, crossed>>

Return ==
  /\ caller = "return"
  /\ \E n \in ran \cup {before[called]} :
       /\ \A k \in ran \cup {before[called]} : k <= n
       /\ before' = [before EXCEPT ![called] = n]
  /\ caller' = "idle"
  /\ called' = None
  /\ ran' = {}
  /\ UNCHANGED <<loaderVars, updaterVars, registrarVars, fields, builder, crossed>>

Call == (\E m \in Methods : Enter(m)) \/ Invoke \/ CheckVersion \/ Return

-----------------------------------------------------------------------------

Next ==
  \/ Load
  \/ ReceiveInVain
  \/ \E doc \in SUBSET Methods \ {{}} : Receive(doc)
  \/ Update
  \/ Register
  \/ \E t \in Interceptors : Interception(t)
  \/ Call

Spec == Init /\ [][Next]_vars

-----------------------------------------------------------------------------
(* Properties *)

\* The updates of a method that have been compiled to a delegate for its field.
Usable(m) == {n \in Updates : builder[m][n].made /\ builder[m][n].kind = "good"}

(* When no document is being handled, the newest usable body of a method is  *)
(* the one its callers run, whatever was aborted or returned another type,   *)
(* and although loading another overload or registering the interceptor      *)
(* writes its field in several steps.  Only where an update of the method    *)
(* arrives while it is being loaded, or while a thread that has enumerated   *)
(* its info writes interceptors, can an older delegate replace a newer one.  *)
NewestInEffect ==
  \A m \in Methods :
    updater = "idle" /\ m \notin crossed /\ Usable(m) # {} =>
      /\ m \in hasUpdate
      /\ field[m].body \in Usable(m)
      /\ \A n \in Usable(m) : n <= field[m].body

\* An update has given the method another return type: its delegate does not fit the field.
Reshaped(m) == \E n \in Updates : builder[m][n].kind = "changed"

(* A method that is loaded after the handler has been registered has it in   *)
(* its delegate, even if it was loaded while the registration was running or *)
(* that has thrown, and so has every other one when the registration has     *)
(* ended, whatever was updated before or after: neither a document nor the   *)
(* loading of an overload takes the handler out again.  A registration that  *)
(* throws may miss the methods that were loaded before it.  Only where no    *)
(* update has changed the return type: such a method counts as intercepted,  *)
(* but its compiled callers look at the field.                               *)
InterceptorKept ==
  \A m \in Methods :
    /\ Linked(m) /\ m \notin crossed /\ ~Reshaped(m)
    /\ stage["registrar"] = "done" \/ (handler /\ m \notin earlier)
    => field[m].intercepted

(* "This handler will be invoked whenever a specified method is invoked in   *)
(* your app" (LiveSharp/ILiveSharpRuntime.cs:48): when the call that         *)
(* registers it has returned and the assembly is loaded, the delegate of     *)
(* every method calls it.                                                    *)
HandlerInvoked ==
  stage["registrar"] \in {"done", "failed"} /\ loader = "done" =>
    \A m \in Methods : field[m].intercepted

(* A call runs one body: not the updated one and then the original one, and  *)
(* none at all only when the handler is registered (its delegate without a   *)
(* body is left in the field until a usable update replaces it).             *)
OneBody ==
  caller = "return" /\ called \notin crossed =>
    /\ Cardinality(ran) <= 1
    /\ ~handler => ran # {}

(* A call never runs an older body than an earlier call of the method has.   *)
NeverBackwards ==
  caller = "return" /\ called \notin crossed => \A n \in ran : before[called] <= n

(* "it's possible for method update to arrive before mapping has been        *)
(* established; we need to make sure to attach these delegates to static     *)
(* fields anyway" (LiveSharp.Runtime/LiveSharpAssemblyContext.cs:86-87): when*)
(* the assembly is loaded and no document is being handled, a usable update  *)
(* is attached.                                                              *)
AttachedAnyway ==
  loader = "done" /\ updater = "idle" =>
    \A m \in Methods : Usable(m) # {} => field[m].body # 0
=============================================================================
