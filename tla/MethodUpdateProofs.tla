------------------------- MODULE MethodUpdateProofs -------------------------
(***************************************************************************)
(* For any number of methods, overloads and documents: the variables keep  *)
(* their types, and a registered interceptor is not lost.  The newest      *)
(* usable body of a method is in effect, a call runs one body, and never   *)
(* an older one than an earlier call - as long as no update of the method  *)
(* has met its loading or a thread that was writing interceptors.          *)
(***************************************************************************)
EXTENDS MethodUpdate, FiniteSetTheorems, TLAPS

-----------------------------------------------------------------------------
(* A thread that is working on a method has one.                           *)
Located ==
  /\ loading = None <=> loader \in {"outside", "idle", "done"}
  /\ initializing = None <=> updater \notin {"intercept", "attach"}
  /\ updater # "idle" => latest # 0
  /\ loader = "intercept" <=> stage["loader"] # "idle"
  /\ loading # None => loading \in mapped
  /\ caller = "idle" <=> called = None

(* So has a thread that writes interceptors: the methods it has to handle  *)
(* first have an info.                                                     *)
Enumerated ==
  \A t \in Interceptors :
    /\ \A m \in Methods : snapshot[t][m] # 0 => allMethods[m] # 0
    /\ remaining[t] = {} \/ stage[t] = "fields" \/ \A m \in remaining[t] : snapshot[t][m] # 0
    /\ current[t] # None => stage[t] = "infos" /\ snapshot[t][current[t]] # 0

Typing == TypeOK /\ Located /\ Enumerated

Delegates == [body : 0..MaxUpdates, intercepted : BOOLEAN]

LEMMA BuilderOf == ASSUME TypeOK, NEW m \in Methods, NEW n \in Updates PROVE builder[m][n] \in Builders
  BY DEF TypeOK

LEMMA BuilderTypes ==
  ASSUME TypeOK, NEW m \in Methods, NEW b \in Builders
  PROVE  /\ Typed(m, b) \in Builders
         /\ Typed(m, b).kind = b.kind /\ Typed(m, b).made = b.made
         /\ Compiled(b) \in Builders /\ Intercepted(b) \in Builders
         /\ [b EXCEPT !.intercepted = TRUE] \in Builders
<1>1. handler \in BOOLEAN
  BY DEF TypeOK
<1>2. Typed(m, b) \in Builders /\ Typed(m, b).kind = b.kind /\ Typed(m, b).made = b.made
  BY DEF Builders, Typed
<1>3. Compiled(b) \in Builders /\ [b EXCEPT !.intercepted = TRUE] \in Builders
  BY DEF Builders, Compiled
<1>4. Intercepted(b) \in Builders
  BY <1>1 DEF Builders, Intercepted
<1> QED BY <1>2, <1>3, <1>4

LEMMA AttachedTypes ==
  ASSUME TypeOK, NEW m \in Methods, NEW n \in Updates, NEW b \in Builders
  PROVE  Attached(m, n, b) \in [Methods -> Delegates]
<1>1. n \in 0..MaxUpdates /\ b.intercepted \in BOOLEAN
  BY MethodUpdateAssumption DEF Updates, Builders
<1>2. field \in [Methods -> Delegates]
  BY DEF TypeOK, Delegates
<1>3. [body |-> n, intercepted |-> b.intercepted] \in Delegates
  BY <1>1 DEF Delegates
<1> QED BY <1>2, <1>3 DEF Attached

LEMMA NullTypes == Null \in Delegates /\ InterceptorOnly \in Delegates
  BY MethodUpdateAssumption DEF Null, InterceptorOnly, Delegates

LEMMA SetBuilderTypes ==
  ASSUME TypeOK, NEW m \in Methods, NEW n \in Updates, NEW b \in Builders, SetBuilder(m, n, b)
  PROVE  builder' \in [Methods -> [Updates -> Builders]]
  BY DEF TypeOK, SetBuilder

(* What a step does not touch. *)
LEMMA RegisterKeeps ==
  ASSUME Register
  PROVE  UNCHANGED <<snapshot, remaining, current, loaderVars, updaterVars, callerVars, field, hasUpdate, builder>>
  BY DEF Register, fields

LEMMA InterceptionKeeps ==
  ASSUME NEW t \in Interceptors, Interception(t)
  PROVE  UNCHANGED <<registryVars, loaderVars, updaterVars, callerVars, hasUpdate, crossed>>
  BY DEF Interception, Enumerate, SetInterceptor, WriteInterceptor, EnumerateFields, InterceptField,
     EndInterception, fields

LEMMA LoadKeeps ==
  ASSUME Load
  PROVE  /\ UNCHANGED <<updaterVars, snapshot, remaining, current, registryVars, callerVars, hasUpdate, crossed>>
         /\ FindHandler \/ EndMapping \/ UNCHANGED stage
  BY DEF Load, CreateContext, Map, Sign, LookInVain, LookUp, AttachHeld, FindNothing, FindHandler, EndMapping,
     EndLoading, registrarVars, interceptorVars, fields

LEMMA CallKeeps ==
  ASSUME Call PROVE UNCHANGED <<loaderVars, updaterVars, registrarVars, fields, builder, crossed>>
  BY DEF Call, Enter, Invoke, CheckVersion, Return

UpdaterStep ==
  ReceiveInVain \/ (\E doc \in SUBSET Methods \ {{}} : Receive(doc)) \/ Update

LEMMA UpdaterKeeps ==
  ASSUME UpdaterStep PROVE UNCHANGED <<loaderVars, registrarVars, callerVars>>
  BY DEF UpdaterStep, Update, Deserialize, BeginProcess, ProcessUpdate, BeginInitialize, InitializeDelegate,
     InterceptNew, TryUpdateDelegateField, EndUpdate, ReceiveInVain, Receive

LEMMA Steps ==
  ASSUME [Next]_vars
  PROVE  \/ Load
         \/ UpdaterStep
         \/ Register
         \/ \E t \in Interceptors : Interception(t)
         \/ Call
         \/ UNCHANGED vars
  BY DEF Next, UpdaterStep

LEMMA LoadTypes == ASSUME Typing, Load PROVE Typing'
<1> USE MethodUpdateAssumption DEF Typing, Located, Delegates
<1>0. "loader" \in Interceptors
  BY DEF Interceptors
<1>1. ASSUME CreateContext \/ (\E m \in Methods : Map(m)) \/ Sign \/ LookInVain \/ FindNothing \/ EndLoading
      PROVE  Typing'
  <2>1. UNCHANGED <<updaterVars, registrarVars, callerVars, fields, builder, crossed, held>>
    BY <1>1 DEF CreateContext, Map, Sign, LookInVain, FindNothing, EndLoading
  <2>2. Enumerated'
    BY <2>1 DEF Enumerated, updaterVars, registrarVars, interceptorVars
  <2>3. TypeOK'
    BY <1>1, <2>1 DEF TypeOK, CreateContext, Map, Sign, LookInVain, FindNothing, EndLoading,
       fields, updaterVars, registrarVars, interceptorVars, registryVars, callerVars
  <2>4. Located'
    BY <1>1, <2>1 DEF TypeOK, CreateContext, Map, Sign, LookInVain, FindNothing, EndLoading,
       updaterVars, registrarVars, interceptorVars, callerVars
  <2> QED BY <2>2, <2>3, <2>4
<1>2. CASE FindHandler \/ EndMapping
  <2>1. /\ UNCHANGED <<updaterVars, snapshot, remaining, current, registryVars, callerVars, fields, builder,
                       crossed, held, mapped, signed>>
        /\ \/ /\ loader = "handler" /\ loader' = "intercept" /\ loading' = loading
              /\ stage["loader"] = "idle" /\ stage' = [stage EXCEPT !["loader"] = "enumerate"]
           \/ /\ loader = "intercept" /\ loader' = "idle" /\ loading' = None
              /\ stage["loader"] = "done" /\ stage' = [stage EXCEPT !["loader"] = "idle"]
    BY <1>2 DEF FindHandler, EndMapping
  <2>2. /\ stage' \in [Interceptors -> {"idle", "enumerate", "infos", "fields", "done", "failed"}]
        /\ \A t \in Interceptors : stage'[t] = IF t = "loader" THEN stage'["loader"] ELSE stage[t]
        /\ stage'["loader"] = IF loader' = "intercept" THEN "enumerate" ELSE "idle"
    BY <1>0, <2>1 DEF TypeOK
  <2>3. Enumerated'
    BY <1>0, <2>1, <2>2 DEF Enumerated, updaterVars
  <2>4. TypeOK'
    BY <2>1, <2>2 DEF TypeOK, fields, updaterVars, registryVars, callerVars
  <2>5. Located'
    BY <2>1, <2>2 DEF updaterVars, callerVars
  <2> QED BY <2>3, <2>4, <2>5
<1>5. CASE AttachHeld
  <2>1. field' \in [Methods -> Delegates] /\ held' \in Delegates
    BY <1>5, NullTypes DEF AttachHeld, TypeOK
  <2>2. UNCHANGED <<loading, mapped, signed, updaterVars, registrarVars, callerVars, hasUpdate, builder, crossed>>
        /\ loader = "attach" /\ loader' = "handler"
    BY <1>5 DEF AttachHeld
  <2>3. Enumerated'
    BY <2>2 DEF Enumerated, updaterVars, registrarVars, interceptorVars
  <2>4. TypeOK' /\ Located'
    BY <2>1, <2>2 DEF TypeOK, updaterVars, registrarVars, interceptorVars, registryVars, callerVars
  <2> QED BY <2>3, <2>4
<1>7. CASE LookUp
  <2> DEFINE n == allMethods[loading]
             b == Typed(loading, builder[loading][n])
             built == IF b.made THEN b ELSE Intercepted(Compiled(b))
  <2>1. loading \in Methods /\ n \in Updates
    BY <1>7 DEF LookUp, TypeOK, Updates
  <2>2. b \in Builders /\ built \in Builders
    BY <2>1, BuilderOf, BuilderTypes
  <2>3. Attached(loading, n, built) \in [Methods -> Delegates]
    BY <2>1, <2>2, AttachedTypes
  <2>4. builder' \in [Methods -> [Updates -> Builders]]
    BY <1>7, <2>1, <2>2, SetBuilderTypes DEF LookUp
  <2>5. field' \in [Methods -> Delegates]
    BY <1>7, <2>3 DEF LookUp, TypeOK
  <2>6. built.intercepted \in BOOLEAN /\ n \in 0..MaxUpdates
    BY <2>1, <2>2 DEF Builders, Updates
  <2>7. held' \in Delegates
    BY <1>7, <2>6 DEF LookUp, TypeOK
  <2>8. loader = "look" /\ loader' \in {"attach", "handler", "failed"}
    BY <1>7 DEF LookUp
  <2>9. UNCHANGED <<loading, mapped, signed, updaterVars, registrarVars, callerVars, hasUpdate, crossed>>
    BY <1>7 DEF LookUp
  <2>10. Enumerated'
    BY <2>9 DEF Enumerated, updaterVars, registrarVars, interceptorVars
  <2>11. TypeOK' /\ Located'
    BY <2>4, <2>5, <2>7, <2>8, <2>9
       DEF TypeOK, updaterVars, registrarVars, interceptorVars, registryVars, callerVars
  <2> QED BY <2>10, <2>11
<1> QED BY <1>1, <1>2, <1>5, <1>7 DEF Load

LEMMA UpdateTypes == ASSUME Typing, UpdaterStep PROVE Typing'
<1> USE MethodUpdateAssumption DEF Typing, Located, Delegates
<1>0. UNCHANGED <<loaderVars, stage, snapshot, remaining, current, handler, earlier, callerVars>>
  BY UpdaterKeeps DEF registrarVars, interceptorVars, registryVars
<1>1. ASSUME UNCHANGED allMethods \/ \A m \in Methods : allMethods[m] # 0 => allMethods'[m] # 0
      PROVE  Enumerated'
  BY <1>0, <1>1 DEF Enumerated
<1>2. ASSUME ReceiveInVain \/ (\E doc \in SUBSET Methods \ {{}} : Receive(doc)) \/ BeginProcess
             \/ (\E m \in Methods : ProcessUpdate(m)) \/ BeginInitialize \/ EndUpdate
      PROVE  Typing'
  <2>1. UNCHANGED <<allMethods, field, builder, crossed>>
    BY <1>2 DEF ReceiveInVain, Receive, BeginProcess, ProcessUpdate, BeginInitialize, EndUpdate, fields
  <2>2. TypeOK'
    BY <1>0, <1>2, <2>1 DEF TypeOK, ReceiveInVain, Receive, BeginProcess, ProcessUpdate, BeginInitialize,
       EndUpdate, fields, loaderVars, callerVars
  <2>3. Located'
    BY <1>0, <1>2 DEF TypeOK, ReceiveInVain, Receive, BeginProcess, ProcessUpdate, BeginInitialize,
       EndUpdate, loaderVars, callerVars
  <2> QED BY <1>1, <2>1, <2>2, <2>3
<1>3. ASSUME NEW m \in Methods, NEW kind \in Kinds, Deserialize(m, kind) PROVE Typing'
  <2>1. latest \in Updates /\ latest \in 0..MaxUpdates
    BY <1>3 DEF Deserialize, TypeOK, Updates
  <2>2. NewBuilder(kind) \in Builders
    BY DEF NewBuilder, Builders
  <2>3. builder' \in [Methods -> [Updates -> Builders]]
    BY <1>3, <2>1, <2>2, SetBuilderTypes DEF Deserialize
  <2>4. allMethods' \in [Methods -> 0..MaxUpdates]
        /\ \A k \in Methods : allMethods[k] # 0 => allMethods'[k] # 0
    BY <1>3, <2>1 DEF Deserialize, TypeOK, Updates
  <2>5. crossed' \subseteq Methods /\ rest' \subseteq Methods /\ updater = "deserialize"
    BY <1>3 DEF Deserialize, TypeOK
  <2>6. UNCHANGED <<updater, document, initializing, latest, fields>>
    BY <1>3 DEF Deserialize
  <2>7. TypeOK' /\ Located'
    BY <1>0, <2>3, <2>4, <2>5, <2>6 DEF TypeOK, fields, loaderVars, callerVars
  <2> QED BY <1>1, <2>4, <2>7
<1>7. ASSUME NEW m \in Methods, InitializeDelegate(m) PROVE Typing'
  <2> DEFINE b == Typed(m, builder[m][latest])
  <2>1. latest \in Updates
    BY <1>7 DEF InitializeDelegate, TypeOK, Updates
  <2>2. b \in Builders
    BY <2>1, BuilderOf, BuilderTypes
  <2>3. Compiled(b) \in Builders
    BY <2>2, BuilderTypes
  <2>4. builder' \in [Methods -> [Updates -> Builders]]
    <3>1. SetBuilder(m, latest, b) \/ SetBuilder(m, latest, Compiled(b))
      BY <1>7, Zenon DEF InitializeDelegate
    <3> QED BY <2>1, <2>2, <2>3, <3>1, SetBuilderTypes
  <2>5. /\ updater = "initialize"
        /\ \/ updater' = "idle" /\ document' = {} /\ rest' = {} /\ UNCHANGED initializing
           \/ updater' = "intercept" /\ rest' = rest \ {m} /\ initializing' = m /\ UNCHANGED document
        /\ UNCHANGED <<latest, allMethods, fields, crossed>>
    BY <1>7, Zenon DEF InitializeDelegate
  <2>6. TypeOK' /\ Located'
    BY <1>0, <2>4, <2>5 DEF TypeOK, fields, loaderVars, callerVars
  <2> QED BY <1>1, <2>5, <2>6
<1>8. CASE InterceptNew
  <2>1. initializing \in Methods /\ latest \in Updates
    BY <1>8 DEF InterceptNew, TypeOK, Updates
  <2>2. Intercepted(builder[initializing][latest]) \in Builders
    BY <2>1, BuilderOf, BuilderTypes
  <2>3. builder' \in [Methods -> [Updates -> Builders]]
    BY <1>8, <2>1, <2>2, SetBuilderTypes DEF InterceptNew
  <2>4. updater = "intercept" /\ updater' = "attach"
        /\ UNCHANGED <<document, rest, initializing, latest, allMethods, fields, crossed>>
    BY <1>8 DEF InterceptNew
  <2>5. TypeOK' /\ Located'
    BY <1>0, <2>3, <2>4 DEF TypeOK, fields, loaderVars, callerVars
  <2> QED BY <1>1, <2>4, <2>5
<1>9. CASE TryUpdateDelegateField
  <2>1. initializing \in Methods /\ latest \in Updates
    BY <1>9 DEF TryUpdateDelegateField, TypeOK, Updates
  <2>2. field' \in [Methods -> Delegates]
    BY <1>9, <2>1, BuilderOf, AttachedTypes DEF TryUpdateDelegateField
  <2>3. updater = "attach" /\ initializing' = None /\ updater' = "initialize"
        /\ UNCHANGED <<document, rest, latest, allMethods, hasUpdate, builder, crossed>>
    BY <1>9 DEF TryUpdateDelegateField
  <2>4. TypeOK' /\ Located'
    BY <1>0, <2>2, <2>3 DEF TypeOK, loaderVars, callerVars
  <2> QED BY <1>1, <2>3, <2>4
<1> QED BY <1>2, <1>3, <1>7, <1>8, <1>9 DEF Update, UpdaterStep

LEMMA RegisterTypes == ASSUME Typing, Register PROVE Typing'
<1> USE MethodUpdateAssumption DEF Typing, Located, Interceptors
<1>1. /\ UNCHANGED <<snapshot, remaining, current, loaderVars, updaterVars, callerVars, field, hasUpdate, builder>>
      /\ handler' = TRUE /\ earlier' \subseteq Methods /\ crossed' \subseteq Methods
      /\ stage["registrar"] = "idle" /\ stage' = [stage EXCEPT !["registrar"] = "enumerate"]
  BY RegisterKeeps DEF Register, TypeOK
<1>2. /\ stage' \in [Interceptors -> {"idle", "enumerate", "infos", "fields", "done", "failed"}]
      /\ stage'["registrar"] = "enumerate" /\ stage'["loader"] = stage["loader"]
  BY <1>1 DEF TypeOK
<1>3. Enumerated'
  BY <1>1, <1>2 DEF Enumerated, updaterVars
<1>4. TypeOK' /\ Located'
  BY <1>1, <1>2 DEF TypeOK, loaderVars, updaterVars, callerVars
<1> QED BY <1>3, <1>4

(* What a thread that writes interceptors has at hand. *)
LEMMA InHandOf ==
  ASSUME Typing, NEW t \in Interceptors
  PROVE  /\ \A m \in remaining[t] : stage[t] = "infos" => m \in Methods /\ snapshot[t][m] \in Updates
         /\ current[t] # None => current[t] \in Methods /\ snapshot[t][current[t]] \in Updates
<1>1. \A m \in Methods : snapshot[t][m] \in 0..MaxUpdates
  BY DEF Typing, TypeOK
<1>2. remaining[t] \subseteq Methods /\ current[t] \in Methods \cup {None}
  BY DEF Typing, TypeOK
<1> QED BY <1>1, <1>2, MethodUpdateAssumption DEF Typing, Enumerated, Updates

LEMMA InterceptionTypes == ASSUME Typing, NEW t \in Interceptors, Interception(t) PROVE Typing'
<1> USE MethodUpdateAssumption DEF Typing, Delegates
<1> DEFINE Stages == {"idle", "enumerate", "infos", "fields", "done", "failed"}
<1>0. UNCHANGED <<handler, earlier, loaderVars, updaterVars, callerVars, hasUpdate, crossed>>
  BY InterceptionKeeps DEF registryVars
<1>1. ASSUME stage' \in [Interceptors -> Stages], stage'["loader"] = "idle" <=> stage["loader"] = "idle",
             snapshot' \in [Interceptors -> [Methods -> 0..MaxUpdates]],
             remaining' \in [Interceptors -> SUBSET Methods], current' \in [Interceptors -> Methods \cup {None}],
             builder' \in [Methods -> [Updates -> Builders]], field' \in [Methods -> Delegates], Enumerated'
      PROVE  Typing'
  BY <1>0, <1>1 DEF TypeOK, Located, loaderVars, updaterVars, callerVars
<1>2. ASSUME NEW s \in Stages, stage[t] # "idle", s # "idle", stage' = [stage EXCEPT ![t] = s]
      PROVE  /\ stage' \in [Interceptors -> Stages] /\ (stage'["loader"] = "idle" <=> stage["loader"] = "idle")
             /\ stage'[t] = s /\ \A u \in Interceptors : u # t => stage'[u] = stage[u]
  BY <1>2 DEF TypeOK, Interceptors
\* The other thread is where it was.
<1>9. ASSUME \A u \in Interceptors : u # t =>
               stage'[u] = stage[u] /\ snapshot'[u] = snapshot[u] /\ remaining'[u] = remaining[u]
               /\ current'[u] = current[u],
             \A m \in Methods : snapshot'[t][m] # 0 => allMethods[m] # 0,
             remaining'[t] = {} \/ stage'[t] = "fields" \/ \A m \in remaining'[t] : snapshot'[t][m] # 0,
             current'[t] # None => stage'[t] = "infos" /\ snapshot'[t][current'[t]] # 0
      PROVE  Enumerated'
  BY <1>0, <1>9 DEF Enumerated, updaterVars
<1>3. CASE Enumerate(t)
  <2> DEFINE s == IF loader = "outside" THEN "done" ELSE "infos"
             all == [m \in Methods |-> IF m \in Matching(t) THEN allMethods[m] ELSE 0]
             them == {m \in Matching(t) : allMethods[m] # 0}
  <2>1. /\ stage[t] = "enumerate" /\ stage' = [stage EXCEPT ![t] = s]
        /\ snapshot' = [snapshot EXCEPT ![t] = all] /\ remaining' = [remaining EXCEPT ![t] = them]
        /\ UNCHANGED <<current, fields, builder>>
    BY <1>3 DEF Enumerate
  <2>2. all \in [Methods -> 0..MaxUpdates] /\ them \subseteq Methods
    BY DEF TypeOK, Matching
  <2>3. \A m \in Methods : (all[m] # 0 => allMethods[m] # 0) /\ (m \in them => all[m] # 0)
    OBVIOUS
  <2> HIDE DEF all, them
  <2>4. /\ snapshot' \in [Interceptors -> [Methods -> 0..MaxUpdates]]
        /\ remaining' \in [Interceptors -> SUBSET Methods]
        /\ snapshot'[t] = all /\ remaining'[t] = them
        /\ \A u \in Interceptors : u # t => snapshot'[u] = snapshot[u] /\ remaining'[u] = remaining[u]
    BY <2>1, <2>2 DEF TypeOK
  <2>5. /\ stage' \in [Interceptors -> Stages] /\ (stage'["loader"] = "idle" <=> stage["loader"] = "idle")
        /\ \A u \in Interceptors : u # t => stage'[u] = stage[u]
    BY <1>2, <2>1
  <2>6. Enumerated'
    <3>1. current[t] = None
      BY <2>1 DEF Enumerated
    <3> QED BY <1>9, <2>1, <2>3, <2>4, <2>5, <3>1
  <2> QED BY <1>1, <2>1, <2>4, <2>5, <2>6 DEF TypeOK, fields
<1>4. ASSUME NEW m \in Methods, SetInterceptor(t, m) PROVE Typing'
  <2> DEFINE n == snapshot[t][m]
             b == Typed(m, builder[m][n])
             set == [b EXCEPT !.intercepted = TRUE]
  <2>1. n \in Updates /\ stage[t] = "infos" /\ m \in remaining[t] /\ UNCHANGED <<snapshot, fields>>
    BY <1>4, InHandOf DEF SetInterceptor
  <2>2. b \in Builders /\ set \in Builders
    BY <2>1, BuilderOf, BuilderTypes
  <2>3. \/ /\ SetBuilder(m, n, set) /\ current' = [current EXCEPT ![t] = m]
           /\ remaining' = [remaining EXCEPT ![t] = remaining[t] \ {m}] /\ stage' = stage
        \/ /\ SetBuilder(m, n, b) /\ stage' = [stage EXCEPT ![t] = "failed"]
           /\ remaining' = [remaining EXCEPT ![t] = {}] /\ current' = current
    BY <1>4, Zenon DEF SetInterceptor, Throw
  <2>4. builder' \in [Methods -> [Updates -> Builders]]
    BY <2>1, <2>2, <2>3, SetBuilderTypes
  <2>5. current[t] = None
    BY <1>4 DEF SetInterceptor
  <2>6. n # 0
    BY <2>1 DEF Updates
  <2>7. Enumerated' /\ stage' \in [Interceptors -> Stages] /\ (stage'["loader"] = "idle" <=> stage["loader"] = "idle")
        /\ remaining' \in [Interceptors -> SUBSET Methods] /\ current' \in [Interceptors -> Methods \cup {None}]
    <3> HIDE DEF b, set
    <3>1. CASE stage' = stage
      <4>1. /\ current' = [current EXCEPT ![t] = m]
            /\ remaining' = [remaining EXCEPT ![t] = remaining[t] \ {m}]
        <5>1. stage[t] # "failed" /\ stage' = stage
          BY <2>1, <3>1
        <5>2. stage' # [stage EXCEPT ![t] = "failed"]
          BY <5>1 DEF TypeOK
        <5> QED BY <2>3, <5>2
      <4>2. /\ current'[t] = m /\ remaining'[t] = remaining[t] \ {m}
            /\ \A u \in Interceptors : u # t => current'[u] = current[u] /\ remaining'[u] = remaining[u]
            /\ remaining' \in [Interceptors -> SUBSET Methods] /\ current' \in [Interceptors -> Methods \cup {None}]
        BY <4>1 DEF TypeOK
      <4>3. remaining[t] = {} \/ \A k \in remaining[t] : snapshot[t][k] # 0
        BY <2>1 DEF Enumerated
      <4>4. \A k \in Methods : snapshot[t][k] # 0 => allMethods[k] # 0
        BY DEF Enumerated
      <4>5. Enumerated'
        BY <1>9, <2>1, <2>6, <3>1, <4>2, <4>3, <4>4
      <4> QED BY <3>1, <4>2, <4>5 DEF TypeOK
    <3>2. CASE /\ stage' = [stage EXCEPT ![t] = "failed"]
               /\ remaining' = [remaining EXCEPT ![t] = {}] /\ current' = current
      <4>1. /\ stage' \in [Interceptors -> Stages] /\ (stage'["loader"] = "idle" <=> stage["loader"] = "idle")
            /\ \A u \in Interceptors : u # t => stage'[u] = stage[u]
        BY <1>2, <2>1, <3>2
      <4>2. /\ remaining'[t] = {} /\ \A u \in Interceptors : u # t => remaining'[u] = remaining[u]
            /\ remaining' \in [Interceptors -> SUBSET Methods] /\ current' \in [Interceptors -> Methods \cup {None}]
        BY <3>2 DEF TypeOK
      <4>4. \A k \in Methods : snapshot[t][k] # 0 => allMethods[k] # 0
        BY DEF Enumerated
      <4>5. Enumerated'
        BY <1>9, <2>1, <2>5, <3>2, <4>1, <4>2, <4>4
      <4> QED BY <4>1, <4>2, <4>5
    <3> QED BY <2>3, <3>1, <3>2
  <2> QED BY <1>1, <2>1, <2>4, <2>7 DEF TypeOK, fields
<1>5. CASE WriteInterceptor(t)
  <2> DEFINE m == current[t]
  <2>1. /\ m \in Methods /\ snapshot[t][m] \in Updates
        /\ field' = Attached(m, snapshot[t][m], builder[m][snapshot[t][m]])
        /\ current' = [current EXCEPT ![t] = None] /\ UNCHANGED <<stage, snapshot, remaining, builder>>
    BY <1>5, InHandOf DEF WriteInterceptor
  <2>2. field' \in [Methods -> Delegates]
    BY <2>1, BuilderOf, AttachedTypes
  <2>3. /\ current'[t] = None /\ \A u \in Interceptors : u # t => current'[u] = current[u]
        /\ current' \in [Interceptors -> Methods \cup {None}]
    BY <2>1 DEF TypeOK
  <2>4. Enumerated'
    BY <1>9, <2>1, <2>3 DEF Enumerated
  <2>5. /\ stage' \in [Interceptors -> Stages] /\ builder' \in [Methods -> [Updates -> Builders]]
        /\ snapshot' \in [Interceptors -> [Methods -> 0..MaxUpdates]]
        /\ remaining' \in [Interceptors -> SUBSET Methods] /\ stage' = stage
    BY <2>1 DEF TypeOK
  <2> QED BY <1>1, <2>2, <2>3, <2>4, <2>5
<1>6. CASE EnumerateFields(t)
  <2>1. /\ stage[t] = "infos" /\ current[t] = None /\ stage' = [stage EXCEPT ![t] = "fields"]
        /\ remaining' = [remaining EXCEPT ![t] = {m \in mapped \cap Matching(t) : snapshot[t][m] = 0}]
        /\ UNCHANGED <<snapshot, current, fields, builder>>
    BY <1>6 DEF EnumerateFields
  <2>2. /\ stage' \in [Interceptors -> Stages] /\ (stage'["loader"] = "idle" <=> stage["loader"] = "idle")
        /\ stage'[t] = "fields" /\ \A u \in Interceptors : u # t => stage'[u] = stage[u]
    BY <1>2, <2>1
  <2>3. remaining' \in [Interceptors -> SUBSET Methods]
    BY <2>1 DEF TypeOK
  <2>4. \A u \in Interceptors : u # t => remaining'[u] = remaining[u]
    BY <2>1 DEF TypeOK
  <2>5. Enumerated'
    BY <1>9, <2>1, <2>2, <2>4 DEF Enumerated
  <2> QED BY <1>1, <2>1, <2>2, <2>3, <2>5 DEF TypeOK, fields
<1>7. ASSUME NEW m \in Methods, InterceptField(t, m) PROVE Typing'
  <2>1. stage[t] = "fields" /\ UNCHANGED <<snapshot, current, builder>>
    BY <1>7 DEF InterceptField
  <2>2. current[t] = None
    BY <2>1 DEF Enumerated
  <2>3. CASE m \in signed
    <3>1. /\ field' = [field EXCEPT ![m] = InterceptorOnly] /\ stage' = stage
          /\ remaining' = [remaining EXCEPT ![t] = remaining[t] \ {m}]
      BY <1>7, <2>3 DEF InterceptField
    <3>2. /\ remaining' \in [Interceptors -> SUBSET Methods]
          /\ \A u \in Interceptors : u # t => remaining'[u] = remaining[u]
      BY <3>1 DEF TypeOK
    <3>3. Enumerated'
      BY <1>9, <2>1, <2>2, <3>1, <3>2 DEF Enumerated
    <3>4. field' \in [Methods -> Delegates]
      BY <3>1, NullTypes DEF TypeOK
    <3>5. /\ stage' \in [Interceptors -> Stages] /\ snapshot' \in [Interceptors -> [Methods -> 0..MaxUpdates]]
          /\ current' \in [Interceptors -> Methods \cup {None}] /\ builder' \in [Methods -> [Updates -> Builders]]
      BY <2>1, <3>1 DEF TypeOK
    <3> QED BY <1>1, <3>1, <3>2, <3>3, <3>4, <3>5
  <2>4. CASE m \notin signed
    <3>1. /\ stage' = [stage EXCEPT ![t] = "failed"] /\ remaining' = [remaining EXCEPT ![t] = {}]
          /\ field' = field
      BY <1>7, <2>4 DEF InterceptField, Throw
    <3>2. /\ stage' \in [Interceptors -> Stages] /\ (stage'["loader"] = "idle" <=> stage["loader"] = "idle")
          /\ \A u \in Interceptors : u # t => stage'[u] = stage[u]
      BY <1>2, <2>1, <3>1
    <3>3. /\ remaining'[t] = {} /\ remaining' \in [Interceptors -> SUBSET Methods]
          /\ \A u \in Interceptors : u # t => remaining'[u] = remaining[u]
      BY <3>1 DEF TypeOK
    <3>4. Enumerated'
      BY <1>9, <2>1, <2>2, <3>2, <3>3 DEF Enumerated
    <3> QED BY <1>1, <2>1, <3>1, <3>2, <3>3, <3>4 DEF TypeOK
  <2> QED BY <2>3, <2>4
<1>8. CASE EndInterception(t)
  <2>1. /\ stage[t] = "fields" /\ remaining[t] = {} /\ stage' = [stage EXCEPT ![t] = "done"]
        /\ snapshot' = [snapshot EXCEPT ![t] = [m \in Methods |-> 0]]
        /\ UNCHANGED <<remaining, current, fields, builder>>
    BY <1>8 DEF EndInterception
  <2>2. /\ stage' \in [Interceptors -> Stages] /\ (stage'["loader"] = "idle" <=> stage["loader"] = "idle")
        /\ \A u \in Interceptors : u # t => stage'[u] = stage[u]
    BY <1>2, <2>1
  <2>3. snapshot' \in [Interceptors -> [Methods -> 0..MaxUpdates]]
    BY <2>1 DEF TypeOK
  <2>4. Enumerated'
    <3>1. current[t] = None
      BY <2>1 DEF Enumerated
    <3>2. /\ \A m \in Methods : snapshot'[t][m] = 0
          /\ \A u \in Interceptors : u # t => snapshot'[u] = snapshot[u]
      BY <2>1 DEF TypeOK
    <3> QED BY <1>9, <2>1, <2>2, <3>1, <3>2
  <2> QED BY <1>1, <2>1, <2>2, <2>3, <2>4 DEF TypeOK, fields
<1> QED BY <1>3, <1>4, <1>5, <1>6, <1>7, <1>8 DEF Interception

LEMMA CallTypes == ASSUME Typing, Call PROVE Typing'
<1> USE MethodUpdateAssumption DEF Typing
<1>0. UNCHANGED <<loaderVars, updaterVars, registrarVars, fields, builder, crossed>>
  BY CallKeeps
<1>1. ASSUME caller' \in {"idle", "invoke", "check", "return"}, called' \in Methods \cup {None},
             caller' = "idle" <=> called' = None, ran' \subseteq 0..MaxUpdates,
             before' \in [Methods -> 0..MaxUpdates]
      PROVE  Typing'
  <2>1. TypeOK'
    BY <1>0, <1>1 DEF TypeOK, loaderVars, updaterVars, registrarVars, interceptorVars, registryVars, fields
  <2>2. Located'
    BY <1>0, <1>1 DEF Located, loaderVars, updaterVars, registrarVars, interceptorVars
  <2>3. Enumerated'
    BY <1>0 DEF Enumerated, updaterVars, registrarVars, interceptorVars
  <2> QED BY <2>1, <2>2, <2>3
<1>2. ASSUME NEW m \in Methods, Enter(m) PROVE Typing'
  BY <1>1, <1>2 DEF TypeOK, Enter
<1>3. CASE Invoke
  <2>1. called \in Methods
    BY <1>3 DEF Invoke, TypeOK, Located
  <2>2. field[called].body \in 0..MaxUpdates
    BY <2>1 DEF TypeOK
  <2> QED BY <1>1, <1>3, <2>1, <2>2 DEF TypeOK, Invoke
<1>4. CASE CheckVersion
  BY <1>1, <1>4 DEF TypeOK, Located, CheckVersion
<1>5. CASE Return
  <2>1. called \in Methods
    BY <1>5 DEF Return, TypeOK, Located
  <2>2. before' \in [Methods -> 0..MaxUpdates]
    BY <1>5, <2>1 DEF Return, TypeOK
  <2> QED BY <1>1, <1>5, <2>2 DEF Return
<1> QED BY <1>2, <1>3, <1>4, <1>5 DEF Call

LEMMA TypingInit == ASSUME Init PROVE Typing
<1>1. NewBuilder("good") \in Builders
  BY DEF NewBuilder, Builders, Kinds
<1>2. builder \in [Methods -> [Updates -> Builders]]
  BY <1>1 DEF Init
<1>3. field \in [Methods -> Delegates] /\ held \in Delegates
  BY NullTypes DEF Init
<1>4. handler \in BOOLEAN
  BY DEF Init
<1>5. /\ loader = "outside" /\ loading = None /\ mapped = {} /\ signed = {} /\ updater = "idle"
      /\ document = {} /\ rest = {} /\ initializing = None /\ latest = 0 /\ earlier = {}
      /\ hasUpdate = {} /\ caller = "idle" /\ called = None /\ ran = {} /\ crossed = {}
      /\ allMethods \in [Methods -> 0..MaxUpdates] /\ before \in [Methods -> 0..MaxUpdates]
  BY MethodUpdateAssumption DEF Init
<1>6. /\ stage \in [Interceptors -> {"idle", "enumerate", "infos", "fields", "done", "failed"}]
      /\ stage["loader"] = "idle"
  BY DEF Init, Interceptors
<1>7. snapshot \in [Interceptors -> [Methods -> 0..MaxUpdates]]
  BY MethodUpdateAssumption DEF Init
<1>8. remaining \in [Interceptors -> SUBSET Methods] /\ current \in [Interceptors -> Methods \cup {None}]
  BY DEF Init
<1>9. \A t \in Interceptors :
        /\ remaining[t] = {} /\ current[t] = None /\ \A m \in Methods : snapshot[t][m] = 0
  BY DEF Init
<1>10. TypeOK
  BY <1>2, <1>3, <1>4, <1>5, <1>6, <1>7, <1>8, MethodUpdateAssumption DEF TypeOK, Delegates
<1> QED BY <1>5, <1>6, <1>9, <1>10, MethodUpdateAssumption DEF Typing, Located, Enumerated

LEMMA TypingStep == ASSUME Typing, [Next]_vars PROVE Typing'
<1>1. ASSUME UNCHANGED vars PROVE Typing'
  <2>1. UNCHANGED <<loaderVars, updaterVars, registrarVars, callerVars, fields, builder, crossed>>
    BY <1>1 DEF vars
  <2>2. TypeOK'
    BY <2>1 DEF Typing, TypeOK, loaderVars, updaterVars, registrarVars, interceptorVars, registryVars,
       callerVars, fields
  <2>3. Located' /\ Enumerated'
    BY <2>1 DEF Typing, Located, Enumerated, loaderVars, updaterVars, registrarVars, interceptorVars,
       callerVars
  <2> QED BY <2>2, <2>3 DEF Typing
<1> QED BY <1>1, Steps, LoadTypes, UpdateTypes, RegisterTypes, InterceptionTypes, CallTypes

(* The variables of the runtime's update of methods keep their types, for   *)
(* any number of methods and documents.                                     *)
THEOREM TypeCorrect == Spec => []TypeOK
<1>1. Init => Typing
  BY TypingInit
<1>2. Typing /\ [Next]_vars => Typing'
  BY TypingStep
<1>3. Typing => TypeOK
  BY DEF Typing
<1> QED BY <1>1, <1>2, <1>3, PTL DEF Spec

-----------------------------------------------------------------------------
(* The builders.  Only the module initializer can have missed an update,    *)
(* and has then crossed it; so the field's type is known when the delegate  *)
(* is built.                                                                *)
Met == \A m \in Methods : allMethods[m] # 0 => m \in crossed \/ Linked(m)

Fitting ==
  \A m \in Methods \ crossed : \A n \in Updates :
    builder[m][n].type = "other" => builder[m][n].kind = "changed"

(* A kind is chosen once. *)
Fresh ==
  \A m \in Methods : \A n \in Updates :
    n > latest \/ (n = latest /\ updater = "deserialize" /\ m \in rest) =>
      builder[m][n].kind = "good"

Linking ==
  /\ \A m \in Methods : Linked(m) => m \in signed
  /\ loader \in {"look", "attach", "handler", "intercept"} => loading \in signed
  /\ loader = "outside" => mapped = {}
  /\ loader = "intercept" => handler
  /\ handler <=> stage["registrar"] # "idle"

InDocument ==
  /\ updater # "process" => rest \subseteq document
  /\ updater \in {"intercept", "attach"} => initializing \in document
  /\ \A m \in document : ~(updater = "deserialize" /\ m \in rest) => allMethods[m] # 0

(* A delegate is made of a body that compiles, and for its field only if    *)
(* the return type is the compiled one.                                     *)
Sane ==
  \A m \in Methods : \A n \in Updates :
    /\ builder[m][n].made => builder[m][n].type # "unset" /\ builder[m][n].kind # "broken"
    /\ builder[m][n].type = "field" => builder[m][n].kind # "changed"

(* Only what has been received is made, and the document that is handled is *)
(* the latest of each of its methods.                                       *)
Received ==
  /\ updater = "idle" => document = {}
  /\ \A m \in Methods :
       /\ allMethods[m] <= latest
       /\ m \in document =>
            IF updater = "deserialize" /\ m \in rest THEN allMethods[m] < latest ELSE allMethods[m] = latest
       /\ \A n \in Updates : builder[m][n].made => n <= allMethods[m]

KeptInv == Met /\ Fitting /\ Fresh /\ Linking /\ InDocument /\ Sane /\ Received

(* A step leaves the builders alone, receives a method, or works on a       *)
(* builder of a method that has been received; only receiving sets a kind.  *)
(* A delegate is made by the module initializer or the receiving thread.    *)
Makes(m, n, b) ==
  /\ b.made /\ b.kind # "broken"
  /\ b.type = Typed(m, builder[m][n]).type
  /\ \/ m = loading /\ n = allMethods[m]
     \/ /\ n = latest /\ updater = "initialize" /\ m \in document
        /\ initializing' = m /\ updater' = "intercept"

Works(m, n, b) ==
  /\ builder' = [builder EXCEPT ![m][n] = b]
  /\ b.kind = builder[m][n].kind
  /\ b.type = builder[m][n].type \/ b.type = Typed(m, builder[m][n]).type
  /\ b.made = builder[m][n].made \/ Makes(m, n, b)
  /\ allMethods[m] # 0
  /\ UNCHANGED <<latest, allMethods, crossed>>
  /\ updater' = "deserialize" => updater = "deserialize" /\ rest' = rest

LEMMA TypedKeeps ==
  ASSUME NEW m, NEW b \in Builders
  PROVE  /\ Typed(m, b).kind = b.kind
         /\ [Typed(m, b) EXCEPT !.intercepted = TRUE].kind = b.kind
         /\ [Typed(m, b) EXCEPT !.intercepted = TRUE].type = Typed(m, b).type
         /\ Compiled(Typed(m, b)).kind = b.kind
         /\ Compiled(Typed(m, b)).type = Typed(m, b).type
         /\ Intercepted(Compiled(Typed(m, b))).kind = b.kind
         /\ Intercepted(Compiled(Typed(m, b))).type = Typed(m, b).type
         /\ Compiled(Typed(m, b)).made /\ Intercepted(Compiled(Typed(m, b))).made
         /\ Intercepted(b).kind = b.kind /\ Intercepted(b).type = b.type
         /\ Typed(m, b).made = b.made /\ Intercepted(b).made = b.made
         /\ [Typed(m, b) EXCEPT !.intercepted = TRUE].made = b.made
  BY DEF Typed, Compiled, Intercepted, Builders

LEMMA BuilderStep ==
  ASSUME Typing, InDocument, [Next]_vars
  PROVE  \/ UNCHANGED builder /\ UNCHANGED latest
            /\ (updater' = "deserialize" => updater = "deserialize" /\ rest' = rest)
         \/ \E doc \in SUBSET Methods : Receive(doc)
         \/ ReceiveInVain
         \/ \E m \in Methods, kind \in Kinds : Deserialize(m, kind)
         \/ \E m \in Methods, n \in Updates, b \in Builders : Works(m, n, b)
<1> USE MethodUpdateAssumption
<1>1. CASE UNCHANGED vars
  BY <1>1 DEF vars, updaterVars
<1>2. CASE LookUp
  <2> DEFINE n == allMethods[loading]
             b == Typed(loading, builder[loading][n])
             built == IF b.made THEN b ELSE Intercepted(Compiled(b))
  <2>1. loading \in Methods /\ n \in Updates
    BY <1>2 DEF LookUp, Typing, Located, TypeOK, Updates
  <2>2. builder[loading][n] \in Builders
    BY <2>1, BuilderOf DEF Typing
  <2>3. b \in Builders /\ built \in Builders
    BY <2>1, <2>2, BuilderTypes DEF Typing
  <2>4. SetBuilder(loading, n, b) \/ SetBuilder(loading, n, built)
    BY <1>2, Zenon DEF LookUp
  <2>5. n # 0 /\ UNCHANGED <<updater, rest, latest, allMethods, crossed>>
    BY <1>2 DEF LookUp, updaterVars
  <2>6. b.kind = builder[loading][n].kind /\ built.kind = builder[loading][n].kind
        /\ built.type = b.type /\ b.made = builder[loading][n].made /\ built.made
    BY <2>2, TypedKeeps
  <2>10. SetBuilder(loading, n, built) => built.made = builder[loading][n].made \/ b.kind # "broken"
    <3>1. (b.made \/ b.kind # "broken") \/ SetBuilder(loading, n, b)
      BY <1>2, Zenon DEF LookUp
    <3>2. CASE b.made
      BY <2>6, <3>2
    <3>3. CASE ~b.made /\ b.kind = "broken"
      <4>1. SetBuilder(loading, n, b)
        BY <3>1, <3>3
      <4>2. builder'[loading][n] = b
        BY <2>1, <2>3, <4>1 DEF SetBuilder, Typing, TypeOK
      <4>3. SetBuilder(loading, n, built) => builder'[loading][n] = built
        BY <2>1, <2>3 DEF SetBuilder, Typing, TypeOK
      <4> HIDE DEF built, b
      <4> QED BY <2>6, <3>3, <4>2, <4>3
    <3> QED BY <3>2, <3>3
  <2>7. Works(loading, n, b) \/ Works(loading, n, built)
    <3> HIDE DEF b, built
    <3>1. SetBuilder(loading, n, b) => Works(loading, n, b)
      BY <2>1, <2>5, <2>6 DEF Works, SetBuilder, b
    <3>2. SetBuilder(loading, n, built) => Works(loading, n, built)
      <4>1. built.made = builder[loading][n].made \/ b.kind # "broken" => 
            built.made = builder[loading][n].made \/ Makes(loading, n, built)
        BY <2>6 DEF Makes, b, n
      <4> QED BY <2>1, <2>5, <2>6, <2>10, <4>1 DEF Works, SetBuilder, b
    <3> QED BY <2>4, <3>1, <3>2
  <2> QED BY <2>1, <2>3, <2>7
<1>4. ASSUME NEW m \in Methods, InitializeDelegate(m)
      PROVE  \E n \in Updates, b \in Builders : Works(m, n, b)
  <2> DEFINE b == Typed(m, builder[m][latest])
  <2>1. latest \in Updates /\ m \in document /\ updater = "initialize" /\ updater' # "deserialize"
    BY <1>4 DEF InitializeDelegate, Typing, Located, TypeOK, Updates, InDocument
  <2>2. builder[m][latest] \in Builders
    BY <2>1, BuilderOf DEF Typing
  <2>3. b \in Builders /\ Compiled(b) \in Builders
    BY <2>2, BuilderTypes DEF Typing
  <2>4. SetBuilder(m, latest, b) \/ SetBuilder(m, latest, Compiled(b))
    BY <1>4, Zenon DEF InitializeDelegate
  <2>5. allMethods[m] # 0 /\ UNCHANGED <<latest, allMethods, crossed>>
    BY <1>4, <2>1 DEF InDocument, InitializeDelegate
  <2>6. Works(m, latest, b) \/ Works(m, latest, Compiled(b))
    <3>1. CASE b.kind = "broken"
      <4>1. SetBuilder(m, latest, b)
        BY <1>4, <3>1, Zenon DEF InitializeDelegate
      <4> QED BY <2>1, <2>2, <2>5, <4>1, TypedKeeps DEF Works, SetBuilder
    <3>2. CASE b.kind # "broken"
      <4>1. SetBuilder(m, latest, Compiled(b)) /\ initializing' = m /\ updater' = "intercept"
        BY <1>4, <3>2, Zenon DEF InitializeDelegate
      <4>2. Compiled(b).kind = b.kind /\ Compiled(b).type = b.type /\ Compiled(b).made
        BY <2>2, TypedKeeps
      <4>3. Makes(m, latest, Compiled(b))
        BY <2>1, <3>2, <4>1, <4>2 DEF Makes
      <4>4. Compiled(b).kind = builder[m][latest].kind
        BY <2>2, TypedKeeps
      <4> HIDE DEF b
      <4> QED BY <2>1, <2>5, <4>1, <4>2, <4>3, <4>4 DEF Works, SetBuilder, Makes
    <3> QED BY <3>1, <3>2
  <2> QED BY <2>1, <2>3, <2>6
<1>5. CASE InterceptNew
  <2> DEFINE b == Intercepted(builder[initializing][latest])
  <2>1. initializing \in Methods /\ latest \in Updates /\ initializing \in document
        /\ updater = "intercept" /\ updater' # "deserialize"
    BY <1>5 DEF InterceptNew, Typing, Located, TypeOK, Updates, InDocument
  <2>2. builder[initializing][latest] \in Builders
    BY <2>1, BuilderOf DEF Typing
  <2>3. b \in Builders
    BY <2>1, <2>2, BuilderTypes DEF Typing
  <2>4. allMethods[initializing] # 0 /\ UNCHANGED <<latest, allMethods, crossed>>
        /\ SetBuilder(initializing, latest, b)
    BY <1>5, <2>1 DEF InDocument, InterceptNew
  <2>5. Works(initializing, latest, b)
    BY <2>1, <2>2, <2>4, TypedKeeps DEF Works, SetBuilder
  <2> QED BY <2>1, <2>3, <2>5
<1>6. ASSUME NEW t \in Interceptors, Interception(t)
      PROVE  \/ UNCHANGED <<builder, latest, updater, rest>>
             \/ \E m \in Methods, n \in Updates, b \in Builders : Works(m, n, b)
  <2>1. UNCHANGED <<updater, rest, latest, allMethods, crossed>>
    BY <1>6, InterceptionKeeps DEF updaterVars
  <2>2. ASSUME NEW m \in Methods, SetInterceptor(t, m)
        PROVE  \E n \in Updates, b \in Builders : Works(m, n, b)
    <3> DEFINE n == snapshot[t][m]
               b == Typed(m, builder[m][n])
               set == [b EXCEPT !.intercepted = TRUE]
    <3>1. n \in Updates /\ allMethods[m] # 0
      BY <2>2, InHandOf DEF SetInterceptor, Typing, Enumerated, Updates
    <3>2. builder[m][n] \in Builders
      BY <3>1, BuilderOf DEF Typing
    <3>3. b \in Builders /\ set \in Builders
      BY <3>1, <3>2, BuilderTypes DEF Typing
    <3>4. SetBuilder(m, n, b) \/ SetBuilder(m, n, set)
      BY <2>2, Zenon DEF SetInterceptor
    <3>5. SetBuilder(m, n, b) => Works(m, n, b)
      BY <2>1, <3>1, <3>2, TypedKeeps DEF Works, SetBuilder
    <3>6. SetBuilder(m, n, set) => Works(m, n, set)
      BY <2>1, <3>1, <3>2, TypedKeeps DEF Works, SetBuilder
    <3> QED BY <3>1, <3>3, <3>4, <3>5, <3>6
  <2>3. CASE Enumerate(t) \/ WriteInterceptor(t) \/ EnumerateFields(t) \/ EndInterception(t)
             \/ \E m \in Methods : InterceptField(t, m)
    BY <2>1, <2>3 DEF Enumerate, WriteInterceptor, EnumerateFields, EndInterception, InterceptField
  <2> QED BY <1>6, <2>2, <2>3 DEF Interception
<1>7. CASE CreateContext \/ (\E m \in Methods : Map(m)) \/ Sign \/ LookInVain \/ AttachHeld \/ FindNothing
           \/ FindHandler \/ EndMapping \/ EndLoading
  BY <1>7 DEF CreateContext, Map, Sign, LookInVain, AttachHeld, FindNothing, FindHandler, EndMapping, EndLoading,
     updaterVars
<1>8. CASE BeginProcess \/ (\E m \in Methods : ProcessUpdate(m)) \/ BeginInitialize
           \/ TryUpdateDelegateField \/ EndUpdate
  BY <1>8 DEF BeginProcess, ProcessUpdate, BeginInitialize, TryUpdateDelegateField, EndUpdate
<1>9. CASE Register
  BY <1>9, RegisterKeeps DEF updaterVars
<1>10. CASE Call
  BY <1>10, CallKeeps DEF updaterVars
<1> QED BY <1>1, <1>2, <1>4, <1>5, <1>6, <1>7, <1>8, <1>9, <1>10 DEF Next, Load, Update

LEMMA OthersStep ==
  ASSUME Load \/ Register \/ (\E t \in Interceptors : Interception(t)) \/ Call \/ UNCHANGED vars
  PROVE  UNCHANGED updaterVars
<1>1. UNCHANGED vars => UNCHANGED updaterVars
  BY DEF vars
<1> QED BY <1>1, LoadKeeps, RegisterKeeps, InterceptionKeeps, CallKeeps

LEMMA InDocumentStep == ASSUME Typing, InDocument, [Next]_vars PROVE InDocument'
<1> USE MethodUpdateAssumption DEF InDocument, Typing, Located
<1>1. CASE Load \/ Register \/ (\E t \in Interceptors : Interception(t)) \/ Call \/ UNCHANGED vars
  <2>1. UNCHANGED updaterVars
    BY <1>1, OthersStep
  <2> QED BY <2>1 DEF updaterVars
<1>3. CASE ReceiveInVain \/ \E doc \in SUBSET Methods \ {{}} : Receive(doc)
  BY <1>3 DEF ReceiveInVain, Receive
<1>4. ASSUME NEW m \in Methods, NEW kind \in Kinds, Deserialize(m, kind) PROVE InDocument'
  <2>1. \A k \in Methods : allMethods'[k] = IF k = m THEN latest ELSE allMethods[k]
    BY <1>4 DEF Deserialize, TypeOK
  <2> QED BY <1>4, <2>1 DEF Deserialize, TypeOK
<1>5. CASE BeginProcess \/ BeginInitialize \/ InterceptNew \/ TryUpdateDelegateField \/ EndUpdate
           \/ \E m \in Methods : ProcessUpdate(m) \/ InitializeDelegate(m)
  BY <1>5 DEF BeginProcess, BeginInitialize, InterceptNew, TryUpdateDelegateField, EndUpdate,
     ProcessUpdate, InitializeDelegate
<1> QED BY <1>1, <1>3, <1>4, <1>5, Steps DEF UpdaterStep, Update

LEMMA LinkingStep == ASSUME Typing, Linking, [Next]_vars PROVE Linking'
<1> USE MethodUpdateAssumption DEF Linking, Linked, Typing, Located
<1>1. CASE Load
  <2>1. handler' = handler /\ stage'["registrar"] = stage["registrar"]
    <3>1. handler' = handler /\ (FindHandler \/ EndMapping \/ UNCHANGED stage)
      BY <1>1, LoadKeeps DEF registryVars
    <3> QED BY <3>1 DEF FindHandler, EndMapping, TypeOK, Interceptors
  <2> QED BY <1>1, <2>1 DEF Load, CreateContext, Map, Sign, LookInVain, LookUp, AttachHeld, FindNothing,
       FindHandler, EndMapping, EndLoading
<1>2. CASE Register
  BY <1>2, RegisterKeeps DEF Register, loaderVars, TypeOK, Interceptors
<1>3. ASSUME NEW t \in Interceptors, Interception(t) PROVE Linking'
  <2>1. UNCHANGED <<loaderVars, handler>>
    BY <1>3, InterceptionKeeps DEF registryVars
  <2>2. stage'["registrar"] = "idle" <=> stage["registrar"] = "idle"
    BY <1>3 DEF Interception, Enumerate, SetInterceptor, WriteInterceptor, EnumerateFields, InterceptField,
       EndInterception, Throw, TypeOK, Interceptors
  <2> QED BY <2>1, <2>2 DEF loaderVars
<1>4. CASE UpdaterStep \/ Call \/ UNCHANGED vars
  <2>1. UNCHANGED <<loaderVars, registrarVars>>
    BY <1>4, UpdaterKeeps, CallKeeps DEF vars
  <2> QED BY <2>1 DEF loaderVars, registrarVars, interceptorVars, registryVars
<1> QED BY <1>1, <1>2, <1>3, <1>4, Steps

(* What is linked stays linked, and what is crossed stays crossed. *)
LEMMA LinkedStays ==
  ASSUME Typing, [Next]_vars
  PROVE  crossed \subseteq crossed' /\ \A m \in Methods : Linked(m) => Linked(m)'
<1> USE MethodUpdateAssumption DEF Linked, Typing, Located
<1>1. CASE Load
  BY <1>1 DEF Load, CreateContext, Map, Sign, LookInVain, LookUp, AttachHeld, FindNothing, FindHandler,
     EndMapping, EndLoading
<1>2. CASE ~Load
  <2>1. UNCHANGED loaderVars
    BY <1>2, Steps, UpdaterKeeps, RegisterKeeps, InterceptionKeeps, CallKeeps DEF vars
  <2>2. crossed \subseteq crossed'
    <3>1. CASE UpdaterStep
      BY <3>1 DEF UpdaterStep, Update, Deserialize, BeginProcess, ProcessUpdate, BeginInitialize,
         InitializeDelegate, InterceptNew, TryUpdateDelegateField, EndUpdate, ReceiveInVain, Receive
    <3>2. CASE Register
      BY <3>2 DEF Register
    <3>3. UNCHANGED vars => crossed' = crossed
      BY DEF vars
    <3> QED BY <1>2, <3>1, <3>2, <3>3, Steps, InterceptionKeeps, CallKeeps
  <2> QED BY <2>1, <2>2 DEF loaderVars
<1> QED BY <1>1, <1>2

LEMMA MetStep == ASSUME Typing, Met, [Next]_vars PROVE Met'
<1>1. CASE UNCHANGED allMethods
  BY <1>1, LinkedStays DEF Met
<1>2. ASSUME NEW m \in Methods, NEW kind \in Kinds, Deserialize(m, kind) PROVE Met'
  <2>1. \A k \in Methods : allMethods'[k] = IF k = m THEN latest ELSE allMethods[k]
    BY <1>2 DEF Deserialize, Typing, TypeOK
  <2>2. m \in crossed' \/ Linked(m)
    BY <1>2 DEF Deserialize
  <2> QED BY <2>1, <2>2, LinkedStays DEF Met
<1>3. UNCHANGED allMethods \/ \E m \in Methods, kind \in Kinds : Deserialize(m, kind)
  <2>1. CASE UpdaterStep
    BY <2>1 DEF UpdaterStep, ReceiveInVain, Receive, Update, BeginProcess, ProcessUpdate, BeginInitialize,
       InitializeDelegate, InterceptNew, TryUpdateDelegateField, EndUpdate
  <2> QED BY <2>1, Steps, OthersStep DEF updaterVars
<1> QED BY <1>1, <1>2, <1>3

(* Kinds do not change once they are chosen. *)
LEMMA KindStep ==
  ASSUME Typing, InDocument, Fresh, [Next]_vars
  PROVE  Fresh' /\ \A m \in Methods : Reshaped(m) => Reshaped(m)'
<1> USE MethodUpdateAssumption DEF Typing
<1>1. CASE UNCHANGED builder /\ UNCHANGED latest
           /\ (updater' = "deserialize" => updater = "deserialize" /\ rest' = rest)
  BY <1>1 DEF Fresh, Reshaped
<1>2. CASE ReceiveInVain \/ \E doc \in SUBSET Methods : Receive(doc)
  <2>1. UNCHANGED builder /\ latest' = latest + 1 /\ latest \in Nat
    BY <1>2 DEF ReceiveInVain, Receive, TypeOK
  <2>2. \A n \in Updates : n > latest' \/ n = latest' => n > latest
    BY <2>1 DEF Updates
  <2> QED BY <2>1, <2>2 DEF Fresh, Reshaped
<1>3. ASSUME NEW m \in Methods, NEW kind \in Kinds, Deserialize(m, kind)
      PROVE  Fresh' /\ \A k \in Methods : Reshaped(k) => Reshaped(k)'
  <2>1. /\ latest' = latest /\ updater = "deserialize" /\ m \in rest /\ rest' = rest \ {m}
        /\ builder' = [builder EXCEPT ![m][latest] = NewBuilder(kind)]
        /\ latest \in Updates
    BY <1>3 DEF Deserialize, SetBuilder, TypeOK, Located, Updates
  <2>2. builder[m][latest].kind = "good"
    BY <2>1 DEF Fresh
  <2>3. \A k \in Methods : \A n \in Updates : ~(k = m /\ n = latest) => builder'[k][n] = builder[k][n]
    BY <2>1 DEF TypeOK
  <2>4. Fresh'
    BY <2>1, <2>3 DEF Fresh, Updates
  <2> QED BY <2>2, <2>3, <2>4 DEF Reshaped
<1>4. ASSUME NEW m \in Methods, NEW n \in Updates, NEW b \in Builders, Works(m, n, b)
      PROVE  Fresh' /\ \A k \in Methods : Reshaped(k) => Reshaped(k)'
  <2>1. \A k \in Methods : \A i \in Updates : builder'[k][i].kind = builder[k][i].kind
    BY <1>4 DEF Works, TypeOK
  <2>2. latest' = latest /\ (updater' = "deserialize" => updater = "deserialize" /\ rest' = rest)
    BY <1>4 DEF Works
  <2> QED BY <2>1, <2>2 DEF Fresh, Reshaped
<1> QED BY <1>1, <1>2, <1>3, <1>4, BuilderStep

LEMMA FittingStep ==
  ASSUME Typing, InDocument, Met, Linking, Fitting, [Next]_vars PROVE Fitting'
<1> USE DEF Typing
<1>1. CASE UNCHANGED builder
  BY <1>1, LinkedStays DEF Fitting
<1>2. ASSUME NEW m \in Methods, NEW kind \in Kinds, Deserialize(m, kind) PROVE Fitting'
  <2>1. builder' = [builder EXCEPT ![m][latest] = NewBuilder(kind)]
    BY <1>2 DEF Deserialize, SetBuilder
  <2>2. \A k \in Methods : \A n \in Updates :
          builder'[k][n] = builder[k][n] \/ builder'[k][n].type = "unset"
    BY <2>1 DEF TypeOK, NewBuilder
  <2> QED BY <2>2, LinkedStays DEF Fitting
<1>3. ASSUME NEW m \in Methods, NEW n \in Updates, NEW b \in Builders, Works(m, n, b) PROVE Fitting'
  <2>1. m \notin crossed => m \in mapped \cap signed
    BY <1>3 DEF Works, Met, Linking, Linked
  <2>2. builder[m][n] \in Builders
    BY BuilderOf
  <2>3. m \notin crossed /\ b.type = "other" => b.kind = "changed"
    BY <1>3, <2>1, <2>2 DEF Works, Typed, Builders, Fitting
  <2>4. \A k \in Methods : \A i \in Updates :
          builder'[k][i] = IF k = m /\ i = n THEN b ELSE builder[k][i]
    BY <1>3 DEF Works, TypeOK
  <2> QED BY <2>3, <2>4, LinkedStays DEF Fitting
<1>4. CASE ReceiveInVain \/ \E doc \in SUBSET Methods : Receive(doc)
  <2>1. UNCHANGED builder
    BY <1>4 DEF ReceiveInVain, Receive
  <2> QED BY <1>1, <2>1
<1> QED BY <1>1, <1>2, <1>3, <1>4, BuilderStep

(* Deciding the type of a builder keeps it sane, and decides. *)
LEMMA TypedDecides ==
  ASSUME NEW m, NEW b \in Builders
  PROVE  /\ Typed(m, b).type # "unset"
         /\ Typed(m, b).type = b.type \/ b.type = "unset"
         /\ Typed(m, b).type = "field" /\ b.type = "unset" => b.kind # "changed"
  BY DEF Typed, Builders

LEMMA SaneStep == ASSUME Typing, InDocument, Sane, [Next]_vars PROVE Sane'
<1> USE DEF Typing
<1>1. CASE UNCHANGED builder
  BY <1>1 DEF Sane
<1>2. ASSUME NEW m \in Methods, NEW kind \in Kinds, Deserialize(m, kind) PROVE Sane'
  <2>1. \A k \in Methods : \A n \in Updates :
          builder'[k][n] = builder[k][n] \/ builder'[k][n] = NewBuilder(kind)
    BY <1>2 DEF Deserialize, SetBuilder, TypeOK
  <2>2. NewBuilder(kind).made = FALSE /\ NewBuilder(kind).type = "unset"
    BY DEF NewBuilder
  <2> QED BY <2>1, <2>2 DEF Sane
<1>3. ASSUME NEW m \in Methods, NEW n \in Updates, NEW b \in Builders, Works(m, n, b) PROVE Sane'
  <2>1. \A k \in Methods : \A i \in Updates :
          builder'[k][i] = IF k = m /\ i = n THEN b ELSE builder[k][i]
    BY <1>3 DEF Works, TypeOK
  <2>2. builder[m][n] \in Builders
    BY BuilderOf
  <2>3. b.made => b.type # "unset" /\ b.kind # "broken"
    <3>1. Typed(m, builder[m][n]).type # "unset"
      BY <2>2, TypedDecides
    <3>2. CASE b.made = builder[m][n].made
      BY <1>3, <3>1, <3>2 DEF Works, Sane
    <3>3. CASE Makes(m, n, b)
      BY <3>1, <3>3 DEF Makes
    <3> QED BY <1>3, <3>2, <3>3 DEF Works
  <2>4. b.type = "field" => b.kind # "changed"
    BY <1>3, <2>2, TypedDecides DEF Works, Sane
  <2> QED BY <2>1, <2>3, <2>4 DEF Sane
<1>4. CASE ReceiveInVain \/ \E doc \in SUBSET Methods : Receive(doc)
  BY <1>4 DEF ReceiveInVain, Receive, Sane
<1> QED BY <1>1, <1>2, <1>3, <1>4, BuilderStep

(* What is made stays made, and what is new is the module initializer's or  *)
(* the receiving thread's.                                                  *)
Make(m, n) ==
  /\ n = latest /\ updater = "initialize" /\ m \in document
  /\ latest' = latest /\ initializing' = m /\ updater' = "intercept"
  /\ allMethods' = allMethods

LEMMA MadeBefore ==
  ASSUME Typing, InDocument, [Next]_vars, NEW m \in Methods, NEW n \in Updates, builder'[m][n].made
  PROVE  \/ builder[m][n].made /\ builder'[m][n].kind = builder[m][n].kind
         \/ m = loading /\ n = allMethods[m] /\ allMethods' = allMethods
         \/ Make(m, n)
<1> USE DEF Typing
<1>1. ASSUME NEW k \in Methods, NEW kind \in Kinds, Deserialize(k, kind)
      PROVE  builder[m][n].made /\ builder'[m][n].kind = builder[m][n].kind
  <2>1. builder'[m][n] = builder[m][n] \/ builder'[m][n] = NewBuilder(kind)
    BY <1>1 DEF Deserialize, SetBuilder, TypeOK
  <2> QED BY <2>1 DEF NewBuilder
<1>2. ASSUME NEW k \in Methods, NEW i \in Updates, NEW b \in Builders, Works(k, i, b)
      PROVE  \/ builder[m][n].made /\ builder'[m][n].kind = builder[m][n].kind
             \/ m = loading /\ n = allMethods[m] /\ allMethods' = allMethods
             \/ Make(m, n)
  <2>1. builder'[m][n] = IF k = m /\ i = n THEN b ELSE builder[m][n]
    BY <1>2 DEF Works, TypeOK
  <2>2. UNCHANGED <<latest, allMethods>>
    BY <1>2 DEF Works
  <2> QED BY <1>2, <2>1, <2>2 DEF Works, Makes, Make
<1>3. CASE UNCHANGED builder
  BY <1>3
<1>4. CASE ReceiveInVain \/ \E doc \in SUBSET Methods : Receive(doc)
  BY <1>4 DEF ReceiveInVain, Receive
<1> QED BY <1>1, <1>2, <1>3, <1>4, BuilderStep

LEMMA MadeStays ==
  ASSUME Typing, InDocument, Received, [Next]_vars, NEW m \in Methods, NEW n \in Updates, builder[m][n].made
  PROVE  builder'[m][n].made /\ builder'[m][n].kind = builder[m][n].kind
<1> USE DEF Typing
<1>1. ASSUME NEW k \in Methods, NEW kind \in Kinds, Deserialize(k, kind)
      PROVE  builder'[m][n] = builder[m][n]
  <2>1. /\ builder' = [builder EXCEPT ![k][latest] = NewBuilder(kind)]
        /\ updater = "deserialize" /\ k \in rest /\ rest \subseteq document
    BY <1>1 DEF Deserialize, SetBuilder, InDocument
  <2>2. ~(k = m /\ latest = n)
    <3>1. m \in rest /\ updater = "deserialize" => allMethods[m] < latest
      BY <2>1 DEF Received
    <3>2. n <= allMethods[m] /\ n \in Nat /\ latest \in Nat /\ allMethods[m] \in Nat
      BY MethodUpdateAssumption DEF Received, TypeOK, Updates
    <3> QED BY <2>1, <3>1, <3>2
  <2> QED BY <2>1, <2>2 DEF TypeOK
<1>2. ASSUME NEW k \in Methods, NEW i \in Updates, NEW b \in Builders, Works(k, i, b)
      PROVE  builder'[m][n].made /\ builder'[m][n].kind = builder[m][n].kind
  <2>1. builder'[m][n] = IF k = m /\ i = n THEN b ELSE builder[m][n]
    BY <1>2 DEF Works, TypeOK
  <2> QED BY <1>2, <2>1 DEF Works, Makes
<1>3. CASE UNCHANGED builder
  BY <1>3
<1>4. CASE ReceiveInVain \/ \E doc \in SUBSET Methods : Receive(doc)
  BY <1>4 DEF ReceiveInVain, Receive
<1> QED BY <1>1, <1>2, <1>3, <1>4, BuilderStep
-----------------------------------------------------------------------------
(* Documents. *)

InHand == updater \in {"intercept", "attach"}

(* The delegate that the receiving thread holds has been made, and those    *)
(* that it has yet to make have not.                                        *)
Made == InHand => builder[initializing][latest].made

Unmade ==
  \A m \in document \ crossed :
    updater \in {"deserialize", "process"} \/ m \in rest => ~builder[m][latest].made

(* A document's versions have been bumped before its delegates are made.    *)
Versioned ==
  \A m \in document \ crossed :
    /\ updater = "process" => m \in rest \/ m \in hasUpdate
    /\ updater \in {"initialize", "intercept", "attach"} => m \in hasUpdate

(* What a thread that writes interceptors has enumerated is what there is:  *)
(* whatever was received in between is crossed.                             *)
Copied ==
  \A t \in Interceptors :
    /\ stage[t] \in {"infos", "fields"} => \A m \in Matching(t) \ crossed : snapshot[t][m] = allMethods[m]
    /\ stage[t] = "infos" => remaining[t] \subseteq Matching(t)
    /\ stage[t] = "fields" => \A m \in remaining[t] : m \in Matching(t) /\ snapshot[t][m] = 0
    /\ current[t] # None => current[t] \in Matching(t)

(* The module initializer attaches what it has found, that is, an update    *)
(* that came before the mapping.                                            *)
Holding == loader = "attach" => allMethods[loading] # 0

Arrives(m) ==
  /\ updater = "deserialize" /\ m \in rest /\ updater' = updater /\ rest' = rest \ {m}
  /\ allMethods'[m] = latest /\ UNCHANGED <<latest, document>>
  /\ m \in crossed' \/ ~Intercepting(m)

LEMMA AllStep ==
  ASSUME Typing, [Next]_vars, NEW m \in Methods PROVE allMethods'[m] = allMethods[m] \/ Arrives(m)
<1>1. CASE Load \/ Register \/ (\E t \in Interceptors : Interception(t)) \/ Call \/ UNCHANGED vars
  BY <1>1, OthersStep DEF updaterVars
<1>2. CASE ReceiveInVain \/ (\E doc \in SUBSET Methods \ {{}} : Receive(doc)) \/ BeginProcess \/ BeginInitialize
           \/ InterceptNew \/ TryUpdateDelegateField \/ EndUpdate
           \/ \E k \in Methods : ProcessUpdate(k) \/ InitializeDelegate(k)
  BY <1>2 DEF ReceiveInVain, Receive, BeginProcess, BeginInitialize, InterceptNew, TryUpdateDelegateField,
     EndUpdate, ProcessUpdate, InitializeDelegate
<1>3. ASSUME NEW k \in Methods, NEW kind \in Kinds, Deserialize(k, kind)
      PROVE  allMethods'[m] = allMethods[m] \/ Arrives(m)
  <2>1. allMethods'[m] = IF k = m THEN latest ELSE allMethods[m]
    BY <1>3 DEF Deserialize, Typing, TypeOK
  <2>2. k = m => m \in crossed' \/ ~Intercepting(m)
    BY <1>3 DEF Deserialize
  <2> QED BY <1>3, <2>1, <2>2 DEF Deserialize, Arrives
<1> QED BY <1>1, <1>2, <1>3 DEF Next, Update

LEMMA ReceivedStep == ASSUME Typing, InDocument, Received, [Next]_vars PROVE Received'
<1> USE MethodUpdateAssumption
<1>0. latest \in Nat /\ \A m \in Methods : allMethods[m] \in Nat
  BY DEF Typing, TypeOK
<1>1. ASSUME NEW m \in Methods, NEW n \in Updates, builder'[m][n].made PROVE n <= allMethods'[m]
  <2>1. n <= allMethods[m]
    BY <1>0, <1>1, MadeBefore DEF Received, Make, Updates
  <2>2. allMethods[m] <= allMethods'[m]
    BY <1>0, AllStep DEF Arrives, Received
  <2>3. allMethods'[m] \in Nat /\ n \in Nat
    BY <1>0, AllStep DEF Arrives, Updates
  <2> QED BY <1>0, <2>1, <2>2, <2>3
<1>2. /\ updater' = "idle" => document' = {}
      /\ \A m \in Methods :
           /\ allMethods'[m] <= latest'
           /\ m \in document' =>
                IF updater' = "deserialize" /\ m \in rest' THEN allMethods'[m] < latest' ELSE allMethods'[m] = latest'
  <2>1. CASE Load \/ Register \/ (\E t \in Interceptors : Interception(t)) \/ Call \/ UNCHANGED vars
    BY <2>1, OthersStep DEF Received, updaterVars
  <2>2. CASE ReceiveInVain
    BY <1>0, <2>2 DEF ReceiveInVain, Received
  <2>3. ASSUME NEW doc \in SUBSET Methods, Receive(doc)
        PROVE  /\ updater' = "idle" => document' = {}
               /\ \A m \in Methods :
                    /\ allMethods'[m] <= latest'
                    /\ m \in document' =>
                         IF updater' = "deserialize" /\ m \in rest' THEN allMethods'[m] < latest'
                         ELSE allMethods'[m] = latest'
    BY <1>0, <2>3 DEF Receive, Received
  <2>4. ASSUME NEW k \in Methods, NEW kind \in Kinds, Deserialize(k, kind)
        PROVE  /\ updater' = "idle" => document' = {}
               /\ \A m \in Methods :
                    /\ allMethods'[m] <= latest'
                    /\ m \in document' =>
                         IF updater' = "deserialize" /\ m \in rest' THEN allMethods'[m] < latest'
                         ELSE allMethods'[m] = latest'
    <3>1. \A m \in Methods : allMethods'[m] = IF k = m THEN latest ELSE allMethods[m]
      BY <2>4 DEF Deserialize, Typing, TypeOK
    <3>2. updater = "deserialize" /\ UNCHANGED <<updater, document, latest>> /\ rest' = rest \ {k}
      BY <2>4 DEF Deserialize
    <3> QED BY <1>0, <3>1, <3>2 DEF Received
  <2>5. CASE BeginProcess
    BY <2>5 DEF BeginProcess, Received
  <2>6. CASE BeginInitialize \/ InterceptNew \/ TryUpdateDelegateField \/ EndUpdate
             \/ \E k \in Methods : ProcessUpdate(k) \/ InitializeDelegate(k)
    BY <2>6 DEF BeginInitialize, InterceptNew, TryUpdateDelegateField, EndUpdate, ProcessUpdate,
       InitializeDelegate, Received
  <2> QED BY <2>1, <2>2, <2>3, <2>4, <2>5, <2>6, Steps DEF UpdaterStep, Update
<1> QED BY <1>1, <1>2 DEF Received

LEMMA MadeStep == ASSUME Typing, InDocument, Received, Made, [Next]_vars PROVE Made'
<1>1. CASE InHand /\ UNCHANGED <<initializing, latest>>
  <2>1. initializing \in Methods /\ latest \in Updates
    BY <1>1, MethodUpdateAssumption DEF InHand, Typing, TypeOK, Located, Updates
  <2> QED BY <1>1, <2>1, MadeStays DEF Made
<1>2. ASSUME NEW m \in Methods, InitializeDelegate(m) PROVE Made'
  <2> DEFINE b == Typed(m, builder[m][latest])
  <2>1. latest \in Updates
    BY <1>2, MethodUpdateAssumption DEF InitializeDelegate, Typing, TypeOK, Located, Updates
  <2>2. CASE b.kind = "broken"
    BY <1>2, <2>2 DEF InitializeDelegate, Made, InHand
  <2>3. CASE b.kind # "broken"
    <3>1. SetBuilder(m, latest, Compiled(b)) /\ initializing' = m /\ latest' = latest
      BY <1>2, <2>3, Zenon DEF InitializeDelegate
    <3>2. builder[m][latest] \in Builders
      BY <2>1, BuilderOf DEF Typing
    <3>3. Compiled(b).made
      BY <3>2, TypedKeeps
    <3> HIDE DEF b
    <3>4. builder'[m][latest] = Compiled(b)
      BY <2>1, <3>1 DEF SetBuilder, Typing, TypeOK
    <3> QED BY <3>1, <3>3, <3>4 DEF Made
  <2> QED BY <2>2, <2>3
<1>3. CASE Load \/ Register \/ (\E t \in Interceptors : Interception(t)) \/ Call \/ UNCHANGED vars
  <2>1. UNCHANGED updaterVars
    BY <1>3, OthersStep
  <2> QED BY <1>1, <2>1 DEF updaterVars, Made, InHand
<1>4. CASE InterceptNew
  BY <1>1, <1>4 DEF InterceptNew, InHand
<1>5. CASE ReceiveInVain \/ (\E doc \in SUBSET Methods \ {{}} : Receive(doc)) \/ BeginProcess \/ BeginInitialize
           \/ TryUpdateDelegateField \/ EndUpdate \/ (\E k \in Methods : ProcessUpdate(k))
           \/ \E k \in Methods, kind \in Kinds : Deserialize(k, kind)
  BY <1>5 DEF ReceiveInVain, Receive, BeginProcess, BeginInitialize, TryUpdateDelegateField, EndUpdate,
     ProcessUpdate, Deserialize, Made, InHand
<1> QED BY <1>2, <1>3, <1>4, <1>5, Steps DEF UpdaterStep, Update

LEMMA UnmadeStep ==
  ASSUME Typing, Met, InDocument, Received, Unmade, [Next]_vars PROVE Unmade'
<1> USE MethodUpdateAssumption
<1> SUFFICES ASSUME NEW m \in document' \ crossed',
                    updater' \in {"deserialize", "process"} \/ m \in rest', builder'[m][latest'].made
             PROVE  FALSE
  BY DEF Unmade
<1>1. m \in Methods /\ m \notin crossed /\ latest \in Nat
  <2>1. TypeOK'
    BY TypingStep DEF Typing
  <2> QED BY <2>1, LinkedStays DEF Typing, TypeOK
<1>2. m = loading => allMethods[m] = 0
  BY <1>1 DEF Met, Linked
<1>3. \A n \in Updates : builder[m][n].made => n <= latest
  <2>1. allMethods[m] \in Nat /\ allMethods[m] <= latest
    BY <1>1 DEF Typing, TypeOK, Received
  <2>2. \A n \in Updates : builder[m][n].made => n <= allMethods[m]
    BY <1>1 DEF Received
  <2> QED BY <1>1, <2>1, <2>2 DEF Updates
<1>4. CASE Load \/ Register \/ (\E t \in Interceptors : Interception(t)) \/ Call \/ UNCHANGED vars
  <2>1. UNCHANGED <<updater, document, rest, initializing, latest>>
    BY <1>4, OthersStep DEF updaterVars
  <2>2. latest \in Updates
    <3>1. m \in document /\ document # {}
      BY <2>1
    <3>2. latest # 0 /\ latest \in 0..MaxUpdates
      BY <3>1 DEF Received, Typing, Located, TypeOK
    <3> QED BY <3>2 DEF Updates
  <2>3. ~builder[m][latest].made
    BY <1>1, <2>1 DEF Unmade
  <2> QED BY <1>1, <1>2, <2>1, <2>2, <2>3, MadeBefore DEF Make, Updates
<1>5. CASE ReceiveInVain
  BY <1>1, <1>5 DEF ReceiveInVain, Received
<1>6. CASE \E doc \in SUBSET Methods \ {{}} : Receive(doc)
  <2>1. latest' = latest + 1 /\ builder' = builder /\ latest < MaxUpdates
    BY <1>6 DEF Receive
  <2>2. latest' \in Updates
    BY <1>1, <2>1 DEF Updates
  <2> QED BY <1>1, <1>3, <2>1, <2>2
<1>7. ASSUME NEW k \in Methods, NEW kind \in Kinds, Deserialize(k, kind) PROVE FALSE
  <2>1. /\ UNCHANGED <<latest, updater, document>> /\ updater = "deserialize" /\ latest \in Updates
        /\ builder' = [builder EXCEPT ![k][latest] = NewBuilder(kind)]
    BY <1>7 DEF Deserialize, SetBuilder, Typing, Located, TypeOK, Updates
  <2>2. ~builder[m][latest].made
    BY <1>1, <2>1 DEF Unmade
  <2>3. ~NewBuilder(kind).made
    BY DEF NewBuilder
  <2>4. builder'[m][latest] = builder[m][latest] \/ builder'[m][latest] = NewBuilder(kind)
    BY <1>1, <2>1 DEF Typing, TypeOK
  <2> QED BY <2>1, <2>2, <2>3, <2>4
<1>8. CASE BeginProcess \/ BeginInitialize \/ TryUpdateDelegateField \/ EndUpdate
           \/ \E k \in Methods : ProcessUpdate(k)
  <2>1. updater' \in {"deserialize", "process"} \/ m \in rest' =>
          updater \in {"deserialize", "process"} \/ m \in rest
    BY <1>8 DEF BeginProcess, BeginInitialize, TryUpdateDelegateField, EndUpdate, ProcessUpdate
  <2>2. UNCHANGED <<latest, builder>> /\ (m \in document' => m \in document)
    BY <1>8 DEF BeginProcess, BeginInitialize, TryUpdateDelegateField, EndUpdate, ProcessUpdate
  <2> QED BY <1>1, <2>1, <2>2 DEF Unmade
<1>9. CASE InterceptNew \/ \E k \in Methods : InitializeDelegate(k)
  <2>1. /\ UNCHANGED latest /\ (m \in document' => m \in document) /\ (m \in rest' => m \in rest)
        /\ updater' \notin {"deserialize", "process"} /\ latest # 0
        /\ updater' = "intercept" => initializing' \notin rest'
    BY <1>9 DEF InterceptNew, InitializeDelegate, Typing, Located
  <2>2. m \in document /\ m \in rest /\ latest \in Updates
    BY <1>1, <2>1 DEF Updates, Typing, TypeOK
  <2>3. ~builder[m][latest].made
    BY <1>1, <2>2 DEF Unmade
  <2> QED BY <1>1, <1>2, <2>1, <2>2, <2>3, MadeBefore DEF Make, Updates
<1> QED BY <1>4, <1>5, <1>6, <1>7, <1>8, <1>9, Steps DEF UpdaterStep, Update

LEMMA VersionsGrow == ASSUME [Next]_vars PROVE hasUpdate \subseteq hasUpdate'
<1>1. CASE UpdaterStep
  BY <1>1 DEF UpdaterStep, Update, Deserialize, BeginProcess, ProcessUpdate, BeginInitialize,
     InitializeDelegate, InterceptNew, TryUpdateDelegateField, EndUpdate, ReceiveInVain, Receive, fields
<1>2. UNCHANGED vars => hasUpdate' = hasUpdate
  BY DEF vars, fields
<1>3. Call => hasUpdate' = hasUpdate
  BY CallKeeps DEF fields
<1> QED BY <1>1, <1>2, <1>3, Steps, LoadKeeps, RegisterKeeps, InterceptionKeeps

LEMMA VersionedStep == ASSUME Typing, Met, InDocument, Versioned, [Next]_vars PROVE Versioned'
<1> SUFFICES ASSUME NEW m \in document' \ crossed'
             PROVE  /\ updater' = "process" => m \in rest' \/ m \in hasUpdate'
                    /\ updater' \in {"initialize", "intercept", "attach"} => m \in hasUpdate'
  BY DEF Versioned
<1>0. m \notin crossed /\ hasUpdate \subseteq hasUpdate'
  BY LinkedStays, VersionsGrow
<1>1. CASE Load \/ Register \/ (\E t \in Interceptors : Interception(t)) \/ Call \/ UNCHANGED vars
  BY <1>0, <1>1, OthersStep DEF Versioned, updaterVars
<1>2. CASE ReceiveInVain \/ (\E doc \in SUBSET Methods \ {{}} : Receive(doc))
           \/ \E k \in Methods, kind \in Kinds : Deserialize(k, kind)
  BY <1>2 DEF ReceiveInVain, Receive, Deserialize
<1>3. CASE BeginProcess
  BY <1>3 DEF BeginProcess, InDocument, Typing, TypeOK
<1>4. ASSUME NEW k \in Methods, ProcessUpdate(k)
      PROVE  updater' = "process" /\ (m \in rest' \/ m \in hasUpdate')
  <2>1. m \in rest \/ m \in hasUpdate
    BY <1>0, <1>4 DEF ProcessUpdate, Versioned
  <2>2. m \in mapped
    BY <1>0, <1>4 DEF ProcessUpdate, InDocument, Met, Linked, Typing, TypeOK
  <2> QED BY <1>4, <2>1, <2>2 DEF ProcessUpdate
<1>5. CASE BeginInitialize
  BY <1>0, <1>5 DEF BeginInitialize, Versioned
<1>6. CASE InterceptNew \/ TryUpdateDelegateField \/ EndUpdate \/ \E k \in Methods : InitializeDelegate(k)
  BY <1>0, <1>6 DEF InterceptNew, TryUpdateDelegateField, EndUpdate, InitializeDelegate, Versioned
<1>7. (\E k \in Methods : ProcessUpdate(k)) => updater' = "process"
  BY DEF ProcessUpdate
<1> QED BY <1>1, <1>2, <1>3, <1>4, <1>5, <1>6, <1>7, Steps DEF UpdaterStep, Update

(* The methods a thread intercepts stay the same while it does.             *)
LEMMA MatchingStays ==
  ASSUME Typing, [Next]_vars, NEW t \in Interceptors, stage[t] # "idle", stage'[t] # "idle"
  PROVE  Matching(t)' = Matching(t)
<1>1. CASE t = "registrar"
  BY <1>1 DEF Matching
<1>2. CASE t = "loader"
  <2>1. loader = "intercept" /\ loader' = "intercept"
    <3>1. Typing'
      BY TypingStep
    <3> QED BY <1>2, <3>1 DEF Typing, Located
  <2>2. loading' = loading
    <3>1. CASE Load
      BY <2>1, <3>1 DEF Load, CreateContext, Map, Sign, LookInVain, LookUp, AttachHeld, FindNothing, FindHandler,
         EndMapping, EndLoading
    <3>2. CASE ~Load
      <4>1. UNCHANGED loaderVars
        BY <3>2, Steps, UpdaterKeeps, RegisterKeeps, InterceptionKeeps, CallKeeps DEF vars
      <4> QED BY <4>1 DEF loaderVars
    <3> QED BY <3>1, <3>2
  <2> QED BY <1>2, <2>2 DEF Matching
<1> QED BY <1>1, <1>2 DEF Interceptors

LEMMA CopiedStep == ASSUME Typing, Copied, [Next]_vars PROVE Copied'
<1> SUFFICES ASSUME NEW t \in Interceptors
             PROVE  /\ stage'[t] \in {"infos", "fields"} =>
                         \A m \in Matching(t)' \ crossed' : snapshot'[t][m] = allMethods'[m]
                    /\ stage'[t] = "infos" => remaining'[t] \subseteq Matching(t)'
                    /\ stage'[t] = "fields" => \A m \in remaining'[t] : m \in Matching(t)' /\ snapshot'[t][m] = 0
                    /\ current'[t] # None => current'[t] \in Matching(t)'
  BY DEF Copied
<1>0. /\ stage[t] \in {"infos", "fields"} => \A m \in Matching(t) \ crossed : snapshot[t][m] = allMethods[m]
      /\ stage[t] = "infos" => remaining[t] \subseteq Matching(t)
      /\ stage[t] = "fields" => \A m \in remaining[t] : m \in Matching(t) /\ snapshot[t][m] = 0
      /\ current[t] # None => current[t] \in Matching(t)
      /\ current[t] # None => stage[t] = "infos"
      /\ Matching(t) \subseteq Methods
  BY DEF Copied, Typing, Enumerated, Matching
<1>1. crossed \subseteq crossed' /\ (stage[t] # "idle" /\ stage'[t] # "idle" => Matching(t)' = Matching(t))
  BY LinkedStays, MatchingStays
<1>2. CASE UNCHANGED <<stage[t], snapshot[t], remaining[t], current[t]>>
  <2>1. ASSUME NEW m \in Matching(t), m \notin crossed', stage[t] \in {"infos", "fields"}
        PROVE  allMethods'[m] = allMethods[m]
    BY <1>0, <2>1, AllStep DEF Arrives, Intercepting
  <2>2. stage[t] # "idle" => Matching(t)' = Matching(t)
    BY <1>1, <1>2
  <2>3. stage[t] = "idle" => current[t] = None
    BY <1>0
  <2> QED BY <1>0, <1>1, <1>2, <2>1, <2>2, <2>3
<1>3. CASE UNCHANGED <<snapshot[t], remaining[t], current[t]>> /\ stage'[t] \in {"idle", "enumerate"}
           /\ stage[t] \notin {"infos", "fields"}
  BY <1>0, <1>3
<1>4. CASE Interception(t)
  <2>1. UNCHANGED <<crossed, updaterVars>>
    BY <1>4, InterceptionKeeps
  <2>2. CASE Enumerate(t)
    <3>1. /\ stage'[t] \in {"infos", "done"} /\ stage[t] = "enumerate"
          /\ \A m \in Matching(t) : snapshot'[t][m] = allMethods[m]
          /\ remaining'[t] \subseteq Matching(t) /\ current'[t] = current[t]
      BY <1>0, <2>2 DEF Enumerate, Typing, TypeOK
    <3> QED BY <1>0, <1>1, <2>1, <3>1 DEF updaterVars
  <2>3. ASSUME NEW m \in Methods, SetInterceptor(t, m)
        PROVE  /\ snapshot' = snapshot /\ m \in Matching(t)
               /\ \/ stage'[t] = "infos" /\ remaining'[t] \subseteq remaining[t] /\ current'[t] = m
                  \/ stage'[t] = "failed" /\ current'[t] = current[t]
    BY <1>0, <2>3 DEF SetInterceptor, Throw, Typing, TypeOK
  <2>4. ASSUME NEW m \in Methods, InterceptField(t, m)
        PROVE  /\ snapshot' = snapshot /\ stage[t] = "fields" /\ current'[t] = current[t]
               /\ (stage'[t] = "fields" /\ remaining'[t] \subseteq remaining[t]) \/ stage'[t] = "failed"
    BY <2>4 DEF InterceptField, Throw, Typing, TypeOK
  <2>5. CASE \E m \in Methods : SetInterceptor(t, m)
    <3>1. stage[t] = "infos"
      BY <2>5 DEF SetInterceptor
    <3> QED BY <1>0, <1>1, <2>1, <2>3, <2>5, <3>1 DEF updaterVars
  <2>6. CASE \E m \in Methods : InterceptField(t, m)
    BY <1>0, <1>1, <2>1, <2>4, <2>6 DEF updaterVars
  <2>7. CASE WriteInterceptor(t)
    <3>1. /\ UNCHANGED <<stage, snapshot, remaining>> /\ current'[t] = None /\ stage[t] = "infos"
      BY <1>0, <2>7 DEF WriteInterceptor, Typing, TypeOK
    <3> QED BY <1>0, <1>1, <2>1, <3>1 DEF updaterVars
  <2>8. CASE EnumerateFields(t)
    <3>1. /\ UNCHANGED <<snapshot, current>> /\ stage'[t] = "fields" /\ stage[t] = "infos"
          /\ \A m \in remaining'[t] : m \in Matching(t) /\ snapshot[t][m] = 0
      BY <2>8 DEF EnumerateFields, Typing, TypeOK
    <3> QED BY <1>0, <1>1, <2>1, <3>1 DEF updaterVars
  <2>9. CASE EndInterception(t)
    <3>1. stage'[t] = "done" /\ current' = current /\ stage[t] = "fields"
      BY <2>9 DEF EndInterception, Typing, TypeOK
    <3> QED BY <1>0, <3>1
  <2> QED BY <1>4, <2>2, <2>5, <2>6, <2>7, <2>8, <2>9 DEF Interception
<1>5. ASSUME NEW u \in Interceptors, u # t, Interception(u)
      PROVE  UNCHANGED <<stage[t], snapshot[t], remaining[t], current[t]>>
  BY <1>5 DEF Interception, Enumerate, SetInterceptor, WriteInterceptor, EnumerateFields, InterceptField,
     EndInterception, Throw, Typing, TypeOK
<1>6. CASE Load
  <2>1. UNCHANGED <<snapshot, remaining, current>> /\ (FindHandler \/ EndMapping \/ UNCHANGED stage)
    BY <1>6, LoadKeeps
  <2>2. FindHandler \/ EndMapping =>
          UNCHANGED stage[t] \/ (stage'[t] \in {"idle", "enumerate"} /\ stage[t] \notin {"infos", "fields"})
    BY DEF FindHandler, EndMapping, Typing, TypeOK, Located
  <2> QED BY <1>2, <1>3, <2>1, <2>2
<1>7. CASE Register
  <2>1. UNCHANGED <<snapshot, remaining, current>>
    BY <1>7, RegisterKeeps
  <2>2. UNCHANGED stage[t] \/ (stage'[t] = "enumerate" /\ stage[t] \notin {"infos", "fields"})
    BY <1>7 DEF Register, Typing, TypeOK
  <2> QED BY <1>2, <1>3, <2>1, <2>2
<1>8. CASE UpdaterStep \/ Call \/ UNCHANGED vars
  <2>1. UNCHANGED registrarVars
    BY <1>8, UpdaterKeeps, CallKeeps DEF vars
  <2> QED BY <1>2, <2>1 DEF registrarVars, interceptorVars
<1> QED BY <1>2, <1>4, <1>5, <1>6, <1>7, <1>8, Steps

LEMMA HoldingStep == ASSUME Typing, Holding, [Next]_vars PROVE Holding'
<1>1. CASE Load
  <2>1. UNCHANGED updaterVars
    BY <1>1, OthersStep
  <2>2. loader' = "attach" => LookUp
    BY <1>1 DEF Load, CreateContext, Map, Sign, LookInVain, AttachHeld, FindNothing, FindHandler, EndMapping,
       EndLoading
  <2>3. LookUp => allMethods[loading] # 0 /\ loading' = loading
    BY DEF LookUp
  <2> QED BY <2>1, <2>2, <2>3 DEF Holding, updaterVars
<1>2. CASE Register \/ (\E t \in Interceptors : Interception(t)) \/ Call \/ UNCHANGED vars
  <2>1. UNCHANGED <<updaterVars, loaderVars>>
    BY <1>2, OthersStep, RegisterKeeps, InterceptionKeeps, CallKeeps DEF vars
  <2> QED BY <2>1 DEF Holding, updaterVars, loaderVars
<1>3. CASE UpdaterStep
  <2>1. UNCHANGED loaderVars
    BY <1>3, UpdaterKeeps
  <2>2. ASSUME loader = "attach" PROVE allMethods'[loading] # 0
    <3>1. loading \in Methods /\ allMethods[loading] # 0
      BY <2>2 DEF Typing, TypeOK, Located, Holding
    <3> QED BY <3>1, AllStep DEF Arrives, Typing, Located
  <2> QED BY <2>1, <2>2 DEF Holding, loaderVars
<1> QED BY <1>1, <1>2, <1>3, Steps

-----------------------------------------------------------------------------
(* The interceptor. *)

Attaching ==
  updater = "attach" /\ handler =>
    initializing \in crossed \/ builder[initializing][latest].intercepted

(* What a thread has intercepted but not written yet calls the handler.     *)
Writing ==
  \A t \in Interceptors :
    current[t] # None /\ current[t] \notin crossed =>
      LET b == builder[current[t]][snapshot[t][current[t]]] IN b.made /\ b.intercepted

(* A thread has the method before it, or has failed.                        *)
Due(t, m) ==
  \/ stage[t] \in {"enumerate", "failed"}
  \/ stage[t] = "infos" /\ (m \in remaining[t] \/ current[t] = m \/ snapshot[t][m] = 0)
  \/ stage[t] = "fields" /\ m \in remaining[t]

(* A method that is linked, has not been crossed and keeps its return type  *)
(* calls the registered handler already; or it was linked before, and the   *)
(* registering thread has it before it.                                     *)
Kept ==
  handler => \A m \in Methods : Linked(m) /\ m \notin crossed /\ ~Reshaped(m) =>
    field[m].intercepted \/ (m \in earlier /\ Due("registrar", m))

(* So does the one that is being loaded, or the module initializer has it   *)
(* before it.                                                               *)
Caught ==
  loader = "intercept" /\ loading \notin crossed /\ ~Reshaped(loading) =>
    field[loading].intercepted \/ Due("loader", loading)

InterceptionInv == KeptInv /\ Unmade /\ Copied /\ Holding /\ Attaching /\ Writing

(* An interceptor that has been set stays, and is set only on delegates     *)
(* that have been built.                                                    *)
LEMMA InterceptorStays ==
  ASSUME Typing, KeptInv, Unmade, [Next]_vars, NEW m \in Methods, m \notin crossed', NEW n \in Updates,
         handler, builder[m][n].made, builder[m][n].intercepted
  PROVE  builder'[m][n].intercepted
<1>0. TypeOK /\ m \notin crossed
  BY LinkedStays DEF Typing
<1>1. builder[m][n] \in Builders
  BY <1>0, BuilderOf
<1>2. ASSUME NEW k \in Methods, NEW i \in Updates, NEW b \in Builders, builder' = [builder EXCEPT ![k][i] = b],
             k = m /\ i = n => b.intercepted
      PROVE  builder'[m][n].intercepted
  BY <1>0, <1>2 DEF TypeOK
<1>3. CASE LookUp
  <2>1. loading \in Methods /\ loading # m
    BY <1>0, <1>3 DEF LookUp, TypeOK, Typing, Located, KeptInv, Met, Linked
  <2>2. builder'[m] = builder[m]
    BY <1>0, <1>3, <2>1 DEF LookUp, SetBuilder, TypeOK
  <2> QED BY <2>2
<1>4. ASSUME NEW t \in Interceptors, NEW k \in Methods, SetInterceptor(t, k)
      PROVE  builder'[m][n].intercepted
  <2> DEFINE i == snapshot[t][k]
             b == Typed(k, builder[k][i])
             set == [b EXCEPT !.intercepted = TRUE]
  <2>1. i \in Updates
    BY <1>4, InHandOf DEF SetInterceptor
  <2>2. builder[k][i] \in Builders
    BY <1>0, <2>1, BuilderOf
  <2>3. b \in Builders /\ set \in Builders
    BY <1>0, <2>2, BuilderTypes
  <2>4. SetBuilder(k, i, b) \/ SetBuilder(k, i, set)
    BY <1>4, Zenon DEF SetInterceptor
  <2>5. set.intercepted /\ (builder[k][i].intercepted => b.intercepted)
    BY <2>2, <2>3 DEF Typed, Builders
  <2> HIDE DEF b, set
  <2> QED BY <1>2, <2>1, <2>3, <2>4, <2>5 DEF SetBuilder
<1>5. ASSUME NEW k \in Methods, NEW kind \in Kinds, Deserialize(k, kind) PROVE builder'[m][n].intercepted
  <2>1. /\ builder' = [builder EXCEPT ![k][latest] = NewBuilder(kind)] /\ latest \in Updates
        /\ updater = "deserialize" /\ k \in rest /\ k \in document
    BY <1>0, <1>5, MethodUpdateAssumption
       DEF Deserialize, SetBuilder, KeptInv, InDocument, Typing, Located, TypeOK, Updates
  <2>2. ~(k = m /\ latest = n)
    <3>1. n <= allMethods[m] /\ n \in Nat /\ latest \in Nat /\ allMethods[m] \in Nat
      BY <1>0, MethodUpdateAssumption DEF KeptInv, Received, TypeOK, Updates
    <3>2. k = m => allMethods[m] < latest
      BY <2>1 DEF KeptInv, Received
    <3> QED BY <3>1, <3>2
  <2>3. NewBuilder(kind) \in Builders
    BY DEF NewBuilder, Builders
  <2> QED BY <1>2, <2>1, <2>2, <2>3
<1>6. ASSUME NEW k \in Methods, InitializeDelegate(k) PROVE builder'[m][n].intercepted
  <2>1. k \in rest /\ k \in document /\ latest \in Updates
    BY <1>0, <1>6, MethodUpdateAssumption
       DEF InitializeDelegate, KeptInv, InDocument, Typing, Located, TypeOK, Updates
  <2>2. ~(k = m /\ latest = n)
    BY <1>0, <2>1 DEF Unmade
  <2> DEFINE b == Typed(k, builder[k][latest])
  <2>3. b \in Builders /\ Compiled(b) \in Builders
    BY <1>0, <2>1, BuilderOf, BuilderTypes
  <2>4. SetBuilder(k, latest, b) \/ SetBuilder(k, latest, Compiled(b))
    BY <1>6, Zenon DEF InitializeDelegate
  <2> HIDE DEF b
  <2> QED BY <1>2, <2>1, <2>2, <2>3, <2>4 DEF SetBuilder
<1>7. CASE InterceptNew
  <2>1. initializing \in Methods /\ latest \in Updates
    BY <1>0, <1>7, MethodUpdateAssumption DEF InterceptNew, Typing, Located, TypeOK, Updates
  <2>2. builder[initializing][latest] \in Builders
    BY <1>0, <2>1, BuilderOf
  <2>3. Intercepted(builder[initializing][latest]) \in Builders
        /\ Intercepted(builder[initializing][latest]).intercepted
    BY <1>0, <2>2, BuilderTypes DEF Intercepted, Builders
  <2> QED BY <1>2, <1>7, <2>1, <2>3 DEF InterceptNew, SetBuilder
<1>8. CASE UNCHANGED builder
  BY <1>8
<1>9. CASE Load /\ ~LookUp
  BY <1>9 DEF Load, CreateContext, Map, Sign, LookInVain, AttachHeld, FindNothing, FindHandler, EndMapping,
     EndLoading
<1>10. CASE ReceiveInVain \/ (\E doc \in SUBSET Methods \ {{}} : Receive(doc)) \/ BeginProcess \/ BeginInitialize
            \/ TryUpdateDelegateField \/ EndUpdate \/ \E k \in Methods : ProcessUpdate(k)
  BY <1>10 DEF ReceiveInVain, Receive, BeginProcess, BeginInitialize, TryUpdateDelegateField, EndUpdate,
     ProcessUpdate
<1>11. ASSUME NEW t \in Interceptors, Interception(t) PROVE builder'[m][n].intercepted
  <2>1. (\E k \in Methods : SetInterceptor(t, k)) \/ UNCHANGED builder
    BY <1>11 DEF Interception, Enumerate, WriteInterceptor, EnumerateFields, InterceptField, EndInterception
  <2> QED BY <1>4, <2>1
<1>12. CASE Register \/ Call \/ UNCHANGED vars
  BY <1>12, RegisterKeeps, CallKeeps DEF vars
<1> QED BY <1>3, <1>5, <1>6, <1>7, <1>8, <1>9, <1>10, <1>11, <1>12, Steps DEF UpdaterStep, Update

(* When a delegate is about to be attached it calls the handler: either the *)
(* handler was there to be found, or its registration has crossed the       *)
(* document.                                                                *)
LEMMA AttachingStep ==
  ASSUME Typing, KeptInv, Unmade, Made, Attaching, [Next]_vars PROVE Attaching'
<1> USE MethodUpdateAssumption DEF Typing, Located
<1>1. CASE InterceptNew
  <2>1. initializing \in Methods /\ latest \in Updates
    BY <1>1 DEF InterceptNew, TypeOK, Updates
  <2>2. builder[initializing][latest] \in Builders
    BY <2>1, BuilderOf
  <2>3. builder'[initializing][latest] = Intercepted(builder[initializing][latest])
    BY <1>1, <2>1 DEF InterceptNew, SetBuilder, TypeOK
  <2>4. builder'[initializing][latest].intercepted = handler
    BY <2>2, <2>3 DEF Intercepted, Builders
  <2> QED BY <1>1, <2>4 DEF InterceptNew, registrarVars, registryVars, Attaching
<1>2. CASE Register
  BY <1>2, RegisterKeeps DEF Register, KeptInv, InDocument, updaterVars, Attaching
<1>3. CASE Load \/ (\E t \in Interceptors : Interception(t)) \/ Call \/ UNCHANGED vars
  <2>1. UNCHANGED <<updater, initializing, latest, handler, crossed>>
    <3>1. UNCHANGED vars => UNCHANGED <<handler, crossed>>
      BY DEF vars, registrarVars, registryVars
    <3>2. Call => UNCHANGED <<handler, crossed>>
      BY CallKeeps DEF registrarVars, registryVars
    <3> QED BY <1>3, <3>1, <3>2, OthersStep, LoadKeeps, InterceptionKeeps DEF updaterVars, registryVars
  <2>2. ASSUME updater = "attach", handler, initializing \notin crossed
        PROVE  builder'[initializing][latest].intercepted
    <3>1. initializing \in Methods /\ latest \in Updates
      BY <2>2 DEF TypeOK, Updates
    <3>2. builder[initializing][latest].made /\ builder[initializing][latest].intercepted
      BY <2>2 DEF Made, InHand, Attaching
    <3> QED BY <2>1, <2>2, <3>1, <3>2, InterceptorStays
  <2> QED BY <2>1, <2>2 DEF Attaching
<1>4. CASE UpdaterStep /\ ~InterceptNew
  <2>1. updater' # "attach"
    BY <1>4 DEF UpdaterStep, ReceiveInVain, Receive, Update, Deserialize, BeginProcess, ProcessUpdate,
       BeginInitialize, InitializeDelegate, TryUpdateDelegateField, EndUpdate
  <2> QED BY <2>1 DEF Attaching
<1> QED BY <1>1, <1>2, <1>3, <1>4, Steps

LEMMA WritingStep ==
  ASSUME Typing, KeptInv, Unmade, Copied, Writing, [Next]_vars PROVE Writing'
<1> SUFFICES ASSUME NEW t \in Interceptors, current'[t] # None, current'[t] \notin crossed'
             PROVE  LET b == builder'[current'[t]][snapshot'[t][current'[t]]] IN b.made /\ b.intercepted
  BY DEF Writing
<1>0. TypeOK /\ current[t] \in Methods \cup {None} /\ (current[t] # None => stage[t] = "infos")
  BY DEF Typing, TypeOK, Enumerated
<1>1. CASE UNCHANGED <<current[t], snapshot[t]>>
  <2> DEFINE m == current[t]
             n == snapshot[t][m]
  <2>1. m \in Methods /\ n \in Updates /\ m \notin crossed
    BY <1>0, <1>1, InHandOf, LinkedStays
  <2>2. builder[m][n].made /\ builder[m][n].intercepted
    BY <1>1, <2>1 DEF Writing
  <2>3. handler
    <3>1. stage[t] = "infos"
      BY <1>0, <1>1
    <3> QED BY <3>1 DEF KeptInv, Linking, Typing, Located, Interceptors
  <2>4. builder'[m][n].intercepted
    BY <1>1, <2>1, <2>2, <2>3, InterceptorStays
  <2>5. builder'[m][n].made
    BY <2>1, <2>2, MadeStays DEF KeptInv
  <2> QED BY <1>1, <2>4, <2>5
<1>2. ASSUME NEW m \in Methods, SetInterceptor(t, m)
      PROVE  LET b == builder'[current'[t]][snapshot'[t][current'[t]]] IN b.made /\ b.intercepted
  <2> DEFINE n == snapshot[t][m]
             b == Typed(m, builder[m][n])
             set == [b EXCEPT !.intercepted = TRUE]
  <2>1. n \in Updates /\ snapshot' = snapshot /\ current[t] = None
    BY <1>2, InHandOf DEF SetInterceptor
  <2>2. b \in Builders /\ set \in Builders
    BY <1>0, <2>1, BuilderOf, BuilderTypes
  <2>3. b.made
    <3>1. ~b.made => current' = current
      BY <1>2, Zenon DEF SetInterceptor
    <3> QED BY <2>1, <3>1
  <2>4. SetBuilder(m, n, set) /\ current' = [current EXCEPT ![t] = m]
    BY <1>2, <2>3, Zenon DEF SetInterceptor
  <2>5. set.made /\ set.intercepted
    BY <2>2, <2>3 DEF Builders
  <2> HIDE DEF b, set
  <2>6. builder'[m][n] = set /\ current'[t] = m
    BY <1>0, <2>1, <2>4 DEF SetBuilder, TypeOK
  <2> QED BY <2>1, <2>5, <2>6
<1>3. CASE Interception(t) /\ ~(\E m \in Methods : SetInterceptor(t, m))
  <2>1. CASE WriteInterceptor(t)
    BY <1>0, <2>1 DEF WriteInterceptor, TypeOK
  <2>2. CASE Enumerate(t) \/ EndInterception(t)
    BY <1>0, <2>2 DEF Enumerate, EndInterception
  <2>3. CASE EnumerateFields(t) \/ \E m \in Methods : InterceptField(t, m)
    BY <1>1, <2>3 DEF EnumerateFields, InterceptField
  <2> QED BY <1>3, <2>1, <2>2, <2>3 DEF Interception
<1>4. ASSUME NEW u \in Interceptors, u # t, Interception(u) PROVE UNCHANGED <<current[t], snapshot[t]>>
  BY <1>0, <1>4 DEF Interception, Enumerate, SetInterceptor, WriteInterceptor, EnumerateFields, InterceptField,
     EndInterception, Throw, TypeOK
<1>5. CASE Load \/ Register \/ UpdaterStep \/ Call \/ UNCHANGED vars
  <2>1. UNCHANGED <<snapshot, current>>
    BY <1>5, LoadKeeps, RegisterKeeps, UpdaterKeeps, CallKeeps DEF vars, registrarVars, interceptorVars
  <2> QED BY <1>1, <2>1
<1> QED BY <1>1, <1>2, <1>3, <1>4, <1>5, Steps

LEMMA AttachedOther ==
  ASSUME TypeOK, NEW k \in Methods, NEW m \in Methods, k # m, NEW n, NEW b
  PROVE  Attached(k, n, b)[m] = field[m]
  BY DEF Attached, TypeOK

LEMMA AttachedSame ==
  ASSUME TypeOK, NEW m \in Methods, NEW n, NEW b
  PROVE  IF m \in mapped /\ b.type = "field"
         THEN Attached(m, n, b)[m] = [body |-> n, intercepted |-> b.intercepted]
         ELSE Attached(m, n, b) = field
<1>1. CASE m \in mapped /\ b.type = "field"
  <2>1. Attached(m, n, b) = [field EXCEPT ![m] = [body |-> n, intercepted |-> b.intercepted]]
    BY <1>1 DEF Attached
  <2> QED BY <1>1, <2>1 DEF TypeOK
<1> QED BY <1>1 DEF Attached

LEMMA AttachedBody ==
  ASSUME TypeOK, NEW m \in Methods, NEW n, NEW b
  PROVE  IF m \in mapped /\ b.type = "field"
         THEN Attached(m, n, b)[m].body = n
         ELSE Attached(m, n, b) = field
<1>1. [body |-> n, intercepted |-> b.intercepted].body = n
  OBVIOUS
<1> QED BY <1>1, AttachedSame

(* The module initializer writes the fields of methods that are crossed.    *)
LEMMA LoadWrites ==
  ASSUME Typing, Met, Holding, Load, NEW m \in Methods \ crossed PROVE field'[m] = field[m]
<1>0. TypeOK
  BY DEF Typing
<1>1. m = loading => allMethods[m] = 0
  BY DEF Met, Linked
<1>2. CASE LookUp
  <2>1. loading \in Methods /\ loading # m
    BY <1>1, <1>2 DEF LookUp, Typing, TypeOK, Located
  <2> DEFINE n == allMethods[loading]
             b == Typed(loading, builder[loading][n])
             built == IF b.made THEN b ELSE Intercepted(Compiled(b))
  <2>2. field' = field \/ field' = Attached(loading, n, built)
    BY <1>2, Zenon DEF LookUp
  <2> HIDE DEF n, built
  <2> QED BY <1>0, <2>1, <2>2, AttachedOther
<1>3. CASE AttachHeld
  <2>1. loading \in Methods /\ loading # m
    BY <1>1, <1>3 DEF AttachHeld, Holding, Typing, TypeOK, Located
  <2> QED BY <1>0, <1>3, <2>1 DEF AttachHeld, TypeOK
<1>4. CASE Load /\ ~LookUp /\ ~AttachHeld
  BY <1>4 DEF Load, CreateContext, Map, Sign, LookInVain, FindNothing, FindHandler, EndMapping, EndLoading, fields
<1> QED BY <1>2, <1>3, <1>4

LEMMA HandlerStays == ASSUME [Next]_vars, handler PROVE handler'
<1>1. Register => handler'
  BY DEF Register
<1>2. Load \/ (\E t \in Interceptors : Interception(t)) => handler' = handler
  BY LoadKeeps, InterceptionKeeps DEF registryVars
<1>3. UpdaterStep \/ Call \/ UNCHANGED vars => UNCHANGED registrarVars
  BY UpdaterKeeps, CallKeeps DEF vars
<1> QED BY <1>1, <1>2, <1>3, Steps DEF registrarVars, registryVars

(* The handler is not taken out of a delegate.                              *)
LEMMA FieldKept ==
  ASSUME Typing, InterceptionInv, [Next]_vars, NEW m \in Methods, m \notin crossed', handler, field[m].intercepted
  PROVE  field'[m].intercepted
<1>0. TypeOK /\ m \notin crossed
  BY LinkedStays DEF Typing
<1>1. CASE Load
  BY <1>0, <1>1, LoadWrites DEF InterceptionInv, KeptInv
<1>2. CASE TryUpdateDelegateField
  <2> DEFINE b == builder[initializing][latest]
  <2>1. field' = Attached(initializing, latest, b) /\ updater = "attach" /\ initializing \in Methods
    BY <1>0, <1>2 DEF TryUpdateDelegateField, Typing, Located, TypeOK
  <2>2. m = initializing => b.intercepted
    BY <1>0, <2>1 DEF InterceptionInv, Attaching
  <2> HIDE DEF b
  <2>3. m # initializing => field'[m] = field[m]
    BY <1>0, <2>1, AttachedOther
  <2>4. m = initializing => field'[m] = field[m] \/ field'[m] = [body |-> latest, intercepted |-> b.intercepted]
    BY <1>0, <2>1, AttachedSame
  <2> QED BY <2>2, <2>3, <2>4
<1>3. ASSUME NEW t \in Interceptors, WriteInterceptor(t) PROVE field'[m].intercepted
  <2> DEFINE k == current[t]
             b == builder[k][snapshot[t][k]]
  <2>1. k \in Methods /\ field' = Attached(k, snapshot[t][k], b)
    BY <1>3, InHandOf DEF WriteInterceptor
  <2>2. k = m => b.intercepted
    BY <1>0, <1>3 DEF WriteInterceptor, InterceptionInv, Writing
  <2> HIDE DEF b, k
  <2>3. m # k => field'[m] = field[m]
    BY <1>0, <2>1, AttachedOther
  <2>4. m = k => field'[m] = field[m] \/ field'[m] = [body |-> snapshot[t][k], intercepted |-> b.intercepted]
    BY <1>0, <2>1, AttachedSame
  <2> QED BY <2>2, <2>3, <2>4
<1>4. ASSUME NEW t \in Interceptors, NEW k \in Methods, InterceptField(t, k) PROVE field'[m].intercepted
  <2>1. field' = field \/ field' = [field EXCEPT ![k] = InterceptorOnly]
    BY <1>4, Zenon DEF InterceptField
  <2> QED BY <1>0, <2>1 DEF TypeOK, InterceptorOnly
<1>5. ASSUME NEW t \in Interceptors, Interception(t) PROVE field'[m].intercepted
  <2>1. CASE Enumerate(t) \/ EnumerateFields(t) \/ EndInterception(t) \/ \E k \in Methods : SetInterceptor(t, k)
    BY <2>1 DEF Enumerate, EnumerateFields, EndInterception, SetInterceptor, fields
  <2> QED BY <1>3, <1>4, <1>5, <2>1 DEF Interception
<1>6. CASE UpdaterStep /\ ~TryUpdateDelegateField
  BY <1>6 DEF UpdaterStep, ReceiveInVain, Receive, Update, Deserialize, BeginProcess, ProcessUpdate,
     BeginInitialize, InitializeDelegate, InterceptNew, EndUpdate, fields
<1>7. CASE Register \/ Call \/ UNCHANGED vars
  BY <1>7, RegisterKeeps, CallKeeps DEF vars, fields
<1> QED BY <1>1, <1>2, <1>5, <1>6, <1>7, Steps

(* A thread that has a method before it intercepts it.                      *)
LEMMA DueStep ==
  ASSUME Typing, InterceptionInv, [Next]_vars, NEW t \in Interceptors, Interception(t),
         NEW m \in Matching(t), m \in mapped, m \in signed, m \notin crossed, ~Reshaped(m), Due(t, m)
  PROVE  Due(t, m)' \/ field'[m].intercepted
<1>0. TypeOK /\ m \in Methods
  BY DEF Typing, Matching
<1>1. CASE Enumerate(t)
  <2>1. loader # "outside"
    BY DEF InterceptionInv, KeptInv, Linking
  <2>2. stage'[t] = "infos" /\ snapshot'[t][m] = allMethods[m]
        /\ (allMethods[m] # 0 => m \in remaining'[t])
    BY <1>0, <1>1, <2>1 DEF Enumerate, TypeOK
  <2> QED BY <2>2 DEF Due
<1>2. ASSUME NEW k \in Methods, SetInterceptor(t, k) PROVE Due(t, m)'
  <2>1. /\ snapshot' = snapshot /\ stage[t] = "infos" /\ current[t] = None
        /\ \/ stage'[t] = "infos" /\ remaining'[t] = remaining[t] \ {k} /\ current'[t] = k
           \/ stage'[t] = "failed"
    BY <1>0, <1>2 DEF SetInterceptor, Throw, TypeOK
  <2> QED BY <1>0, <2>1, MethodUpdateAssumption DEF Due
<1>3. CASE WriteInterceptor(t)
  <2> DEFINE k == current[t]
             n == snapshot[t][k]
             b == builder[k][n]
  <2>1. /\ k \in Methods /\ n \in Updates /\ field' = Attached(k, n, b) /\ UNCHANGED <<stage, snapshot, remaining>>
        /\ stage[t] = "infos"
    BY <1>3, InHandOf DEF WriteInterceptor, Typing, Enumerated
  <2>2. CASE k = m
    <3>1. b.made /\ b.intercepted
      BY <2>1, <2>2, MethodUpdateAssumption DEF InterceptionInv, Writing
    <3>2. b \in Builders
      BY <1>0, <2>1, BuilderOf
    <3>3. b.type # "unset" /\ b.type # "other"
      BY <2>1, <2>2, <3>1 DEF InterceptionInv, KeptInv, Sane, Fitting, Reshaped
    <3>4. b.type = "field"
      BY <3>2, <3>3 DEF Builders
    <3> HIDE DEF b, k
    <3>5. field'[m] = [body |-> n, intercepted |-> b.intercepted]
      BY <1>0, <2>1, <2>2, <3>4, AttachedSame
    <3> QED BY <3>1, <3>5
  <2>3. CASE k # m
    <3>1. m \in remaining[t] \/ snapshot[t][m] = 0
      BY <2>1, <2>3 DEF Due
    <3> QED BY <2>1, <3>1 DEF Due
  <2> QED BY <2>2, <2>3
<1>4. CASE EnumerateFields(t)
  <2>1. stage[t] = "infos" /\ current[t] = None /\ remaining[t] = {}
        /\ remaining'[t] = {k \in mapped \cap Matching(t) : snapshot[t][k] = 0} /\ stage'[t] = "fields"
    BY <1>0, <1>4 DEF EnumerateFields, TypeOK
  <2>2. snapshot[t][m] = 0
    BY <1>0, <2>1, MethodUpdateAssumption DEF Due
  <2> QED BY <2>1, <2>2 DEF Due
<1>5. ASSUME NEW k \in Methods, InterceptField(t, k) PROVE Due(t, m)' \/ field'[m].intercepted
  <2>1. stage[t] = "fields" /\ m \in remaining[t]
    BY <1>5 DEF InterceptField, Due
  <2>2. CASE k = m
    <3>1. field' = [field EXCEPT ![m] = InterceptorOnly]
      BY <1>5, <2>2 DEF InterceptField
    <3> QED BY <1>0, <3>1 DEF TypeOK, InterceptorOnly
  <2>3. CASE k # m
    <3>1. stage'[t] = "failed" \/ (stage'[t] = "fields" /\ remaining'[t] = remaining[t] \ {k})
      BY <1>0, <1>5, <2>1 DEF InterceptField, Throw, TypeOK
    <3> QED BY <2>1, <2>3, <3>1 DEF Due
  <2> QED BY <2>2, <2>3
<1>6. CASE EndInterception(t)
  BY <1>6 DEF EndInterception, Due
<1> QED BY <1>1, <1>2, <1>3, <1>4, <1>5, <1>6 DEF Interception

LEMMA OtherThread ==
  ASSUME Typing, NEW t \in Interceptors, NEW u \in Interceptors, u # t, Interception(u)
  PROVE  UNCHANGED <<stage[t], snapshot[t], remaining[t], current[t]>>
  BY DEF Interception, Enumerate, SetInterceptor, WriteInterceptor, EnumerateFields, InterceptField,
     EndInterception, Throw, Typing, TypeOK

LEMMA DueBeside ==
  ASSUME Typing, [Next]_vars, NEW t \in Interceptors, NEW m, Due(t, m), ~Interception(t)
  PROVE  Due(t, m)' \/ (t = "loader" /\ (FindHandler \/ EndMapping))
<1>1. CASE UNCHANGED <<stage[t], snapshot[t], remaining[t], current[t]>>
  BY <1>1 DEF Due
<1>2. CASE \E u \in Interceptors : Interception(u)
  BY <1>1, <1>2, OtherThread
<1>3. CASE Load
  <2>1. UNCHANGED <<snapshot, remaining, current>> /\ (FindHandler \/ EndMapping \/ UNCHANGED stage)
    BY <1>3, LoadKeeps
  <2>2. (FindHandler \/ EndMapping) /\ t # "loader" => UNCHANGED stage[t]
    BY DEF FindHandler, EndMapping, Typing, TypeOK
  <2> QED BY <1>1, <2>1, <2>2
<1>4. CASE Register
  <2>1. UNCHANGED <<snapshot, remaining, current>> /\ (UNCHANGED stage[t] \/ stage'[t] = "enumerate")
    BY <1>4, RegisterKeeps DEF Register, Typing, TypeOK
  <2> QED BY <1>1, <2>1 DEF Due
<1>5. CASE UpdaterStep \/ Call \/ UNCHANGED vars
  <2>1. UNCHANGED registrarVars
    BY <1>5, UpdaterKeeps, CallKeeps DEF vars
  <2> QED BY <1>1, <2>1 DEF registrarVars, interceptorVars
<1> QED BY <1>2, <1>3, <1>4, <1>5, Steps

LEMMA KeptStep == ASSUME Typing, InterceptionInv, Kept, Caught, [Next]_vars PROVE Kept'
<1> SUFFICES ASSUME NEW m \in Methods, handler', Linked(m)', m \notin crossed', ~Reshaped(m)'
             PROVE  field'[m].intercepted \/ (m \in earlier' /\ Due("registrar", m)')
  BY DEF Kept
<1>1. m \notin crossed /\ ~Reshaped(m) /\ "registrar" \in Interceptors /\ m \in Matching("registrar")
  BY LinkedStays, KindStep DEF InterceptionInv, KeptInv, Interceptors, Matching
<1>2. CASE Register
  <2>1. UNCHANGED loaderVars /\ stage'["registrar"] = "enumerate" /\ earlier' = {k \in Methods : Linked(k)}
    BY <1>2, RegisterKeeps DEF Register, Typing, TypeOK, Interceptors
  <2>2. Linked(m)
    BY <2>1 DEF Linked, loaderVars
  <2> QED BY <2>1, <2>2 DEF Due
<1>3. CASE ~Register
  <2>1. handler' = handler /\ earlier' = earlier
    <3>1. UpdaterStep \/ Call \/ UNCHANGED vars => UNCHANGED registrarVars
      BY UpdaterKeeps, CallKeeps DEF vars
    <3> QED BY <1>3, <3>1, Steps, LoadKeeps, InterceptionKeeps DEF registrarVars, registryVars
  <2>2. CASE field[m].intercepted
    BY <1>1, <2>1, <2>2, FieldKept
  <2>3. CASE Linked(m) /\ m \in earlier /\ Due("registrar", m)
    <3>1. CASE Interception("registrar")
      <4>1. m \in mapped /\ m \in signed
        BY <2>3 DEF Linked, InterceptionInv, KeptInv, Linking
      <4> QED BY <1>1, <2>1, <2>3, <3>1, <4>1, DueStep
    <3>2. CASE ~Interception("registrar")
      <4>1. Due("registrar", m)'
        BY <1>1, <2>3, <3>2, DueBeside
      <4> QED BY <2>1, <2>3, <4>1
    <3> QED BY <3>1, <3>2
  <2>4. CASE ~Linked(m)
    <3>1. CASE Load
      <4>1. EndMapping /\ m = loading
        BY <2>1, <2>4, <3>1, MethodUpdateAssumption
           DEF Load, CreateContext, Map, Sign, LookInVain, LookUp, AttachHeld, FindNothing, FindHandler,
               EndMapping, EndLoading, Linked, Typing, Located
      <4>2. loader = "intercept" /\ stage["loader"] = "done"
        BY <4>1 DEF EndMapping
      <4>3. field[m].intercepted
        BY <1>1, <4>1, <4>2 DEF Caught, Due
      <4> QED BY <2>2, <4>3
    <3>2. CASE ~Load
      <4>1. UNCHANGED loaderVars
        BY <3>2, Steps, UpdaterKeeps, RegisterKeeps, InterceptionKeeps, CallKeeps DEF vars
      <4> QED BY <2>4, <4>1 DEF Linked, loaderVars
    <3> QED BY <3>1, <3>2
  <2> QED BY <1>1, <2>1, <2>2, <2>3, <2>4 DEF Kept
<1> QED BY <1>2, <1>3

LEMMA CaughtStep == ASSUME Typing, InterceptionInv, Caught, [Next]_vars PROVE Caught'
<1> SUFFICES ASSUME NEW m \in Methods, m = loading', loader' = "intercept", m \notin crossed', ~Reshaped(m)'
             PROVE  field'[m].intercepted \/ Due("loader", m)'
  <2>1. loader' = "intercept" => loading' \in Methods
    BY TypingStep DEF Typing, TypeOK, Located
  <2>2. ASSUME NEW m \in Methods, m = loading'
        PROVE  /\ Reshaped(loading)' = Reshaped(m)'
               /\ Due("loader", loading)' = Due("loader", m)'
    BY <2>2 DEF Reshaped, Due
  <2> QED BY <2>1, <2>2 DEF Caught
<1>0. "loader" \in Interceptors
  BY DEF Interceptors
<1>1. CASE FindHandler
  BY <1>0, <1>1 DEF FindHandler, Due, Typing, TypeOK
<1>2. CASE ~FindHandler
  <2>1. loader = "intercept" /\ loading' = loading /\ ~EndMapping
    <3>1. CASE Load
      BY <1>2, <3>1 DEF Load, CreateContext, Map, Sign, LookInVain, LookUp, AttachHeld, FindNothing, EndMapping,
         EndLoading
    <3>2. CASE ~Load
      <4>1. UNCHANGED loaderVars
        BY <3>2, Steps, UpdaterKeeps, RegisterKeeps, InterceptionKeeps, CallKeeps DEF vars
      <4> QED BY <3>2, <4>1 DEF loaderVars, Load
    <3> QED BY <3>1, <3>2
  <2>2. m \in Methods /\ m \in mapped /\ m \in signed /\ m \in Matching("loader") /\ handler /\ m = loading
    BY <2>1 DEF Typing, TypeOK, Located, InterceptionInv, KeptInv, Linking, Matching
  <2>3. m \notin crossed /\ ~Reshaped(m)
    BY <2>2, LinkedStays, KindStep DEF InterceptionInv, KeptInv
  <2>4. CASE field[m].intercepted
    BY <2>2, <2>4, FieldKept
  <2>5. CASE Due("loader", m) /\ Interception("loader")
    BY <1>0, <2>2, <2>3, <2>5, DueStep
  <2>6. CASE Due("loader", m) /\ ~Interception("loader")
    BY <1>0, <1>2, <2>1, <2>6, DueBeside
  <2> QED BY <2>1, <2>2, <2>3, <2>4, <2>5, <2>6 DEF Caught
<1> QED BY <1>1, <1>2

HeldInv == InterceptionInv /\ Made /\ Kept /\ Caught

LEMMA HeldInit == ASSUME Init PROVE Typing /\ HeldInv
<1>1. /\ Typing /\ ~handler /\ mapped = {} /\ loader = "outside" /\ updater = "idle"
      /\ document = {} /\ rest = {} /\ latest = 0
  BY TypingInit DEF Init
<1>2. \A m \in Methods : allMethods[m] = 0 /\ \A n \in Updates : builder[m][n] = NewBuilder("good")
  BY DEF Init
<1>3. \A t \in Interceptors : stage[t] = "idle" /\ remaining[t] = {} /\ current[t] = None
  BY DEF Init
<1>4. KeptInv
  <2>1. stage["registrar"] = "idle"
    BY <1>3 DEF Interceptors
  <2> QED BY <1>1, <1>2, <2>1 DEF KeptInv, Met, Fitting, Fresh, Linking, InDocument, Sane, Received, Linked, NewBuilder
<1>5. Unmade /\ Holding /\ Attaching /\ Kept /\ Caught /\ Made
  BY <1>1 DEF Unmade, Holding, Attaching, Kept, Caught, Made, InHand
<1>6. Copied /\ Writing
  BY <1>3 DEF Copied, Writing
<1> QED BY <1>1, <1>4, <1>5, <1>6 DEF HeldInv, InterceptionInv

LEMMA HeldStep == ASSUME Typing, HeldInv, [Next]_vars PROVE Typing' /\ HeldInv'
<1>1. Typing'
  BY TypingStep
<1>2. KeptInv'
  BY MetStep, FittingStep, KindStep, LinkingStep, InDocumentStep, SaneStep, ReceivedStep
     DEF HeldInv, InterceptionInv, KeptInv
<1>3. Unmade' /\ Copied' /\ Holding' /\ Made'
  BY UnmadeStep, CopiedStep, HoldingStep, MadeStep DEF HeldInv, InterceptionInv, KeptInv
<1>4. Attaching' /\ Writing'
  BY AttachingStep, WritingStep DEF HeldInv, InterceptionInv
<1>5. Kept' /\ Caught'
  BY KeptStep, CaughtStep DEF HeldInv
<1> QED BY <1>1, <1>2, <1>3, <1>4, <1>5 DEF HeldInv, InterceptionInv

(* Whatever the module initializer, the documents and the registration do   *)
(* in which order, the handler is called for every method that is loaded    *)
(* after it has been registered, even if the registration throws, and for   *)
(* every one of the assembly once the registration has ended - unless an    *)
(* update of the method meets its loading or a thread that is writing       *)
(* interceptors, or changes the return type.                                *)
THEOREM InterceptorSafe == Spec => []InterceptorKept
<1>1. Init => Typing /\ HeldInv
  BY HeldInit
<1>2. Typing /\ HeldInv /\ [Next]_vars => (Typing /\ HeldInv)'
  BY HeldStep
<1>3. Typing /\ HeldInv => InterceptorKept
  <2>1. HeldInv => (stage["registrar"] = "done" => handler)
    BY DEF HeldInv, InterceptionInv, KeptInv, Linking
  <2> QED BY <2>1 DEF HeldInv, Kept, InterceptorKept, Due
<1> QED BY <1>1, <1>2, <1>3, PTL DEF Spec

-----------------------------------------------------------------------------
(* The fields. *)

(* The field has the newest usable body, or that is still being attached.   *)
InEffect(m) ==
  /\ field[m].body \in Usable(m) \cup {0}
  /\ \A n \in Usable(m) :
       /\ m \in hasUpdate
       /\ n <= field[m].body \/ (InHand /\ initializing = m /\ n = latest)
  /\ field[m].body = 0 /\ field[m].intercepted => handler

Effect == \A m \in Methods \ crossed : InEffect(m)

Updated == HeldInv /\ Versioned

LEMMA UpdatedStep == ASSUME Typing, Updated, [Next]_vars PROVE Typing' /\ Updated'
  BY HeldStep, VersionedStep DEF Updated, HeldInv, InterceptionInv, KeptInv

(* What a step leaves in the field of a method that is not crossed: what    *)
(* was there, the bare interceptor if there is no update of it, or the      *)
(* latest update.                                                           *)
Writes(m) ==
  \/ field'[m] = field[m]
  \/ field'[m] = InterceptorOnly /\ allMethods[m] = 0 /\ handler
  \/ /\ allMethods[m] \in Updates /\ field'[m].body = allMethods[m]
     /\ builder[m][allMethods[m]].made /\ builder[m][allMethods[m]].kind = "good"

LEMMA InterceptionWrites ==
  ASSUME Typing, InterceptionInv, NEW t \in Interceptors, Interception(t), NEW m \in Methods \ crossed
  PROVE  Writes(m)
<1>0. TypeOK
  BY DEF Typing
<1>1. CASE WriteInterceptor(t)
  <2> DEFINE k == current[t]
             n == snapshot[t][k]
             b == builder[k][n]
  <2>1. k \in Methods /\ n \in Updates /\ field' = Attached(k, n, b) /\ stage[t] = "infos" /\ k # None
    BY <1>1, InHandOf DEF WriteInterceptor, Typing, Enumerated
  <2>2. CASE k # m
    <3> HIDE DEF k, n, b
    <3> QED BY <1>0, <2>1, <2>2, AttachedOther DEF Writes
  <2>3. CASE k = m
    <3>1. k \in Matching(t) /\ n = allMethods[m]
      BY <2>1, <2>3 DEF InterceptionInv, Copied
    <3>2. b.made
      BY <2>1, <2>3 DEF InterceptionInv, Writing
    <3>3. b \in Builders
      BY <1>0, <2>1, BuilderOf
    <3>4. b.type = "field" => b.kind = "good"
      <4>1. b.kind # "broken" /\ (b.type = "field" => b.kind # "changed") /\ b.kind \in Kinds
        BY <2>1, <3>2, <3>3 DEF InterceptionInv, KeptInv, Sane, Builders
      <4> QED BY <4>1 DEF Kinds
    <3>5. field'[m] = field[m] \/ (b.type = "field" /\ field'[m].body = n)
      <4> HIDE DEF n, b
      <4> QED BY <1>0, <2>1, <2>3, AttachedBody
    <3> QED BY <2>1, <2>3, <3>1, <3>2, <3>4, <3>5 DEF Writes
  <2> QED BY <2>2, <2>3
<1>2. ASSUME NEW k \in Methods, InterceptField(t, k) PROVE Writes(m)
  <2>1. field' = field \/ field' = [field EXCEPT ![k] = InterceptorOnly]
    BY <1>2, Zenon DEF InterceptField
  <2>2. handler
    BY <1>2 DEF InterceptField, InterceptionInv, KeptInv, Linking, Typing, Located, Interceptors
  <2>3. k = m => allMethods[m] = 0
    BY <1>2 DEF InterceptField, InterceptionInv, Copied
  <2> QED BY <1>0, <2>1, <2>2, <2>3 DEF TypeOK, Writes
<1>3. CASE Enumerate(t) \/ EnumerateFields(t) \/ EndInterception(t) \/ \E k \in Methods : SetInterceptor(t, k)
  BY <1>3 DEF Enumerate, EnumerateFields, EndInterception, SetInterceptor, Writes, fields
<1> QED BY <1>1, <1>2, <1>3 DEF Interception

LEMMA TryWrites ==
  ASSUME Typing, InDocument, Sane, Received, Made, TryUpdateDelegateField, NEW m \in Methods PROVE Writes(m)
<1>0. TypeOK
  BY DEF Typing
<1> DEFINE b == builder[initializing][latest]
<1>1. /\ field' = Attached(initializing, latest, b) /\ initializing \in Methods /\ latest \in Updates
      /\ b.made /\ initializing \in document /\ updater = "attach"
  BY MethodUpdateAssumption
     DEF TryUpdateDelegateField, Typing, TypeOK, Located, Updates, Made, InHand, InDocument
<1>2. allMethods[initializing] = latest
  BY <1>1 DEF Received
<1>3. b \in Builders
  BY <1>0, <1>1, BuilderOf
<1>4. b.type = "field" => b.kind = "good"
  <2>1. b.kind # "broken" /\ (b.type = "field" => b.kind # "changed") /\ b.kind \in Kinds
    BY <1>1, <1>3 DEF Sane, Builders
  <2> QED BY <2>1 DEF Kinds
<1>5. CASE m = initializing
  <2>1. field'[m] = field[m] \/ (b.type = "field" /\ field'[m].body = latest)
    <3> HIDE DEF b
    <3>1. Attached(m, latest, b)[m] = field[m]
          \/ (b.type = "field" /\ Attached(m, latest, b)[m].body = latest)
      BY <1>0, AttachedBody
    <3> QED BY <1>1, <1>5, <3>1
  <2> QED BY <1>1, <1>2, <1>4, <1>5, <2>1 DEF Writes
<1>6. CASE m # initializing
  <2> HIDE DEF b
  <2> QED BY <1>0, <1>1, <1>6, AttachedOther DEF Writes
<1> QED BY <1>5, <1>6

LEMMA FieldStep ==
  ASSUME Typing, Updated, [Next]_vars, NEW m \in Methods, m \notin crossed' PROVE Writes(m)
<1>0. m \in Methods \ crossed
  BY LinkedStays
<1>1. CASE Load
  BY <1>0, <1>1, LoadWrites DEF Updated, HeldInv, InterceptionInv, KeptInv, Writes
<1>2. CASE \E t \in Interceptors : Interception(t)
  BY <1>0, <1>2, InterceptionWrites DEF Updated, HeldInv
<1>3. CASE TryUpdateDelegateField
  BY <1>3, TryWrites DEF Updated, HeldInv, InterceptionInv, KeptInv
<1>4. CASE UpdaterStep /\ ~TryUpdateDelegateField
  BY <1>4 DEF UpdaterStep, Update, ReceiveInVain, Receive, Deserialize, BeginProcess, BeginInitialize,
     InterceptNew, EndUpdate, ProcessUpdate, InitializeDelegate, fields, Writes
<1>5. CASE Register \/ Call \/ UNCHANGED vars
  <2>1. field' = field
    BY <1>5, RegisterKeeps, CallKeeps DEF vars, fields
  <2> QED BY <2>1 DEF Writes
<1> QED BY <1>1, <1>2, <1>3, <1>4, <1>5, Steps

(* What the receiving thread has made it attaches. *)
LEMMA HandStep ==
  ASSUME Typing, Updated, [Next]_vars, NEW m \in Methods, m \notin crossed',
         InHand, initializing = m, latest \in Usable(m)
  PROVE  \/ InHand' /\ initializing' = m /\ latest' = latest
         \/ field'[m].body = latest
<1>1. CASE Load \/ Register \/ (\E t \in Interceptors : Interception(t)) \/ Call \/ UNCHANGED vars
  BY <1>1, OthersStep DEF updaterVars, InHand
<1>2. CASE TryUpdateDelegateField
  <2> DEFINE b == builder[m][latest]
  <2>1. b.type = "field"
    <3>1. b.made /\ b.kind = "good" /\ latest \in Updates
      BY DEF Usable
    <3>2. b.type # "unset" /\ b \in Builders
      BY <3>1, BuilderOf DEF Updated, HeldInv, InterceptionInv, KeptInv, Sane, Typing
    <3>3. b.type # "other"
      BY <3>1, LinkedStays DEF Updated, HeldInv, InterceptionInv, KeptInv, Fitting
    <3> HIDE DEF b
    <3> QED BY <3>2, <3>3 DEF Builders
  <2>2. m \in mapped
    <3>1. allMethods[m] # 0
      BY DEF Updated, HeldInv, InterceptionInv, KeptInv, InDocument, InHand
    <3> QED BY <3>1, LinkedStays DEF Updated, HeldInv, InterceptionInv, KeptInv, Met, Linked
  <2>3. field' = Attached(m, latest, b)
    BY <1>2 DEF TryUpdateDelegateField
  <2> HIDE DEF b
  <2>4. Attached(m, latest, b)[m].body = latest
    BY <2>1, <2>2, AttachedBody DEF Typing
  <2> QED BY <2>3, <2>4
<1>3. CASE InterceptNew
  BY <1>3 DEF InterceptNew, InHand
<1>4. CASE ReceiveInVain \/ (\E doc \in SUBSET Methods \ {{}} : Receive(doc)) \/ BeginProcess \/ BeginInitialize
           \/ EndUpdate \/ (\E k \in Methods : ProcessUpdate(k) \/ InitializeDelegate(k))
           \/ \E k \in Methods, kind \in Kinds : Deserialize(k, kind)
  BY <1>4 DEF ReceiveInVain, Receive, BeginProcess, BeginInitialize, EndUpdate, ProcessUpdate, Deserialize,
     InitializeDelegate, InHand
<1> QED BY <1>1, <1>2, <1>3, <1>4, Steps DEF UpdaterStep, Update
-----------------------------------------------------------------------------
(* The newest body. *)

(* What has been usable stays so, and what is new is in hand. *)
LEMMA UsableStep ==
  ASSUME Typing, Updated, [Next]_vars, NEW m \in Methods, m \notin crossed', NEW n \in Updates
  PROVE  /\ n \in Usable(m) => builder'[m][n].made /\ builder'[m][n].kind = "good"
         /\ builder'[m][n].made /\ builder'[m][n].kind = "good" => n \in Usable(m) \/ Make(m, n)
<1>1. n \in Usable(m) => builder'[m][n].made /\ builder'[m][n].kind = "good"
  BY MadeStays DEF Usable, KeptInv, InterceptionInv, HeldInv, Updated
<1>2. m = loading => allMethods[m] = 0
  BY LinkedStays DEF KeptInv, InterceptionInv, HeldInv, Updated, Met, Linked
<1>3. builder'[m][n].made /\ builder'[m][n].kind = "good" => n \in Usable(m) \/ Make(m, n)
  BY <1>2, MadeBefore DEF Usable, KeptInv, InterceptionInv, HeldInv, Updated, Updates
<1> QED BY <1>1, <1>3

LEMMA UsableBound ==
  ASSUME Typing, Updated, NEW m \in Methods, InEffect(m)
  PROVE  /\ field[m].body \in 0..allMethods[m] /\ allMethods[m] \in Nat
         /\ \A n \in Usable(m) : n <= allMethods[m] /\ n \in Nat \ {0}
<1>1. allMethods[m] \in Nat /\ \A n \in Usable(m) : n <= allMethods[m] /\ n \in Nat \ {0}
  <2>1. allMethods[m] \in Nat
    BY MethodUpdateAssumption DEF Typing, TypeOK
  <2>2. \A n \in Usable(m) : n \in Updates /\ n <= allMethods[m]
    BY DEF Updated, HeldInv, InterceptionInv, KeptInv, Received, Usable
  <2> QED BY <2>1, <2>2, MethodUpdateAssumption DEF Updates
<1>2. field[m].body \in Usable(m) \cup {0}
  BY DEF InEffect
<1> QED BY <1>1, <1>2

(* What is in effect is never replaced by anything older. *)
LEMMA BodyGrows ==
  ASSUME Typing, Updated, Effect, [Next]_vars, NEW m \in Methods, m \notin crossed'
  PROVE  field[m].body <= field'[m].body /\ (field[m] # Null => field'[m] # Null)
<1>1. InEffect(m)
  BY LinkedStays DEF Effect
<1>2. /\ field[m].body \in 0..allMethods[m] /\ allMethods[m] \in Nat
      /\ Writes(m)
  BY <1>1, UsableBound, FieldStep
<1>3. InterceptorOnly # Null /\ InterceptorOnly.body = 0 /\ Null.body = 0
  BY DEF InterceptorOnly, Null
<1>4. CASE allMethods[m] \in Updates /\ field'[m].body = allMethods[m]
  <2>1. field'[m].body # 0
    BY <1>4 DEF Updates
  <2> QED BY <1>2, <1>3, <1>4, <2>1
<1>5. CASE field'[m] = InterceptorOnly /\ allMethods[m] = 0
  BY <1>2, <1>3, <1>5
<1>6. CASE field'[m] = field[m]
  BY <1>2, <1>6
<1> QED BY <1>2, <1>4, <1>5, <1>6 DEF Writes

LEMMA EffectStep == ASSUME Typing, Updated, Effect, [Next]_vars PROVE Effect'
<1> SUFFICES ASSUME NEW m \in Methods, m \notin crossed' PROVE InEffect(m)'
  BY DEF Effect
<1>1. InEffect(m) /\ m \notin crossed
  BY LinkedStays DEF Effect
<1>2. Writes(m)
  BY FieldStep
<1>3. field'[m].body \in Usable(m)' \cup {0}
  <2>1. CASE field'[m] = field[m]
    <3>1. field'[m].body \in Usable(m) \cup {0}
      BY <1>1, <2>1 DEF InEffect
    <3>2. field'[m].body \in Usable(m) => field'[m].body \in Updates
      BY DEF Usable
    <3> QED BY <3>1, <3>2, UsableStep DEF Usable
  <2>2. CASE field'[m] = InterceptorOnly
    BY <2>2 DEF InterceptorOnly
  <2>3. CASE /\ allMethods[m] \in Updates /\ field'[m].body = allMethods[m]
             /\ builder[m][allMethods[m]].made /\ builder[m][allMethods[m]].kind = "good"
    <3>1. allMethods[m] \in Usable(m)
      BY <2>3 DEF Usable
    <3> QED BY <2>3, <3>1, UsableStep DEF Usable
  <2> QED BY <1>2, <2>1, <2>2, <2>3 DEF Writes
<1>4. ASSUME NEW n \in Usable(m)'
      PROVE  m \in hasUpdate' /\ (n <= field'[m].body \/ (InHand' /\ initializing' = m /\ n = latest'))
  <2>1. n \in Updates /\ (n \in Usable(m) \/ Make(m, n))
    BY <1>4, UsableStep DEF Usable
  <2>2. CASE Make(m, n)
    <3>1. m \in hasUpdate
      BY <1>1, <2>2 DEF Make, Updated, Versioned
    <3> QED BY <2>2, <3>1, VersionsGrow DEF Make, InHand
  <2>3. CASE n \in Usable(m) /\ n <= field[m].body
    <3>1. field[m].body <= field'[m].body /\ field[m].body \in Nat /\ n \in Nat
      BY <1>1, <2>3, BodyGrows, UsableBound
    <3>2. field'[m].body \in Nat
      BY <1>3, MethodUpdateAssumption DEF Usable, Updates
    <3> QED BY <1>1, <2>3, <3>1, <3>2, VersionsGrow DEF InEffect
  <2>4. CASE n \in Usable(m) /\ InHand /\ initializing = m /\ n = latest
    <3>1. (InHand' /\ initializing' = m /\ n = latest') \/ field'[m].body = n
      BY <2>4, HandStep
    <3>2. n \in Nat /\ m \in hasUpdate
      BY <1>1, <2>4, UsableBound DEF InEffect
    <3> QED BY <3>1, <3>2, VersionsGrow
  <2> QED BY <1>1, <2>1, <2>2, <2>3, <2>4 DEF InEffect
<1>5. field'[m].body = 0 /\ field'[m].intercepted => handler'
  BY <1>1, <1>2, HandlerStays DEF Writes, InEffect, Updates
<1> QED BY <1>3, <1>4, <1>5 DEF InEffect

EffectInv == Updated /\ Effect

LEMMA EffectInit == ASSUME Init PROVE Typing /\ EffectInv
<1>1. \A m \in Methods : field[m] = Null /\ \A n \in Updates : builder[m][n] = NewBuilder("good")
  BY DEF Init
<1>2. Versioned
  BY DEF Init, Versioned
<1>3. Effect
  BY <1>1 DEF Effect, InEffect, Usable, Null, NewBuilder
<1> QED BY HeldInit, <1>2, <1>3 DEF EffectInv, Updated

LEMMA EffectInvStep == ASSUME Typing, EffectInv, [Next]_vars PROVE Typing' /\ EffectInv'
  BY UpdatedStep, EffectStep DEF EffectInv

(* When no document is being handled, the newest usable body of a method is *)
(* in its field and its version is bumped, whatever failed to compile, had  *)
(* another return type or was intercepted since, by the registration or by  *)
(* the loading of an overload - unless an update of it met its loading or a *)
(* thread that had enumerated its info and was still writing interceptors.  *)
THEOREM NewestSafe == Spec => []NewestInEffect
<1>1. Init => Typing /\ EffectInv
  BY EffectInit
<1>2. Typing /\ EffectInv /\ [Next]_vars => (Typing /\ EffectInv)'
  BY EffectInvStep
<1>3. Typing /\ EffectInv => NewestInEffect
  <2> SUFFICES ASSUME Typing, EffectInv, NEW m \in Methods, updater = "idle", m \notin crossed, NEW k \in Usable(m)
               PROVE  /\ m \in hasUpdate
                      /\ field[m].body \in Usable(m)
                      /\ \A n \in Usable(m) : n <= field[m].body
    BY DEF NewestInEffect
  <2>1. InEffect(m)
    BY DEF EffectInv, Effect
  <2>2. \A n \in Usable(m) : n <= field[m].body /\ m \in hasUpdate
    BY <2>1 DEF InEffect, InHand
  <2>3. k \in Nat \ {0} /\ field[m].body \in Nat
    BY <2>1, UsableBound DEF EffectInv
  <2>4. field[m].body # 0
    BY <2>2, <2>3
  <2> QED BY <2>1, <2>2, <2>4 DEF InEffect
<1> QED BY <1>1, <1>2, <1>3, PTL DEF Spec
-----------------------------------------------------------------------------
(* The callers. *)

(* A call has run no body yet, or one that is between what earlier calls    *)
(* have run and what is in effect now.                                      *)
Calling(m) ==
  /\ before[m] <= field[m].body
  /\ m = called =>
       /\ \A n \in ran : before[m] <= n /\ n <= field[m].body
       /\ caller = "invoke" => field[m] # Null
       /\ caller = "check" => IF ran = {} THEN handler ELSE m \in hasUpdate /\ \E n \in ran : ran = {n}
       /\ caller = "return" => IF ran = {} THEN handler ELSE \E n \in ran : ran = {n}

Runs == \A m \in Methods \ crossed : Calling(m)

(* While a call goes on, the others may only replace what is in effect by   *)
(* something newer.                                                         *)
LEMMA RunsBeside ==
  ASSUME Typing, Updated, Effect, Runs, [Next]_vars, UNCHANGED callerVars PROVE Runs'
<1> SUFFICES ASSUME NEW m \in Methods, m \notin crossed' PROVE Calling(m)'
  BY DEF Runs
<1>1. Calling(m) /\ m \notin crossed
  BY LinkedStays DEF Runs
<1>2. field[m].body <= field'[m].body /\ (field[m] # Null => field'[m] # Null)
  BY BodyGrows
<1>3. hasUpdate \subseteq hasUpdate' /\ (handler => handler')
  BY VersionsGrow, HandlerStays
<1>4. field[m].body \in Nat /\ field'[m].body \in Nat /\ before[m] \in Nat /\ ran \subseteq Nat
  <2>1. TypeOK /\ TypeOK'
    BY TypingStep DEF Typing
  <2>2. field'[m].body \in 0..MaxUpdates
    BY <2>1 DEF TypeOK
  <2> QED BY <2>1, <2>2, MethodUpdateAssumption DEF TypeOK
<1>5. UNCHANGED <<caller, called, ran, before>>
  BY DEF callerVars
<1>6. before'[m] <= field'[m].body
  BY <1>1, <1>2, <1>4, <1>5 DEF Calling
<1>7. ASSUME m = called', NEW n \in ran' PROVE before'[m] <= n /\ n <= field'[m].body
  BY <1>1, <1>2, <1>4, <1>5, <1>7 DEF Calling
<1>8. ASSUME m = called'
      PROVE  /\ caller' = "invoke" => field'[m] # Null
             /\ caller' = "check" => IF ran' = {} THEN handler' ELSE m \in hasUpdate' /\ \E n \in ran' : ran' = {n}
             /\ caller' = "return" => IF ran' = {} THEN handler' ELSE \E n \in ran' : ran' = {n}
  BY <1>1, <1>2, <1>3, <1>5, <1>8 DEF Calling
<1> QED BY <1>6, <1>7, <1>8 DEF Calling

LEMMA RunsCall ==
  ASSUME Typing, Updated, Effect, Runs, Call PROVE Runs'
<1>0. TypeOK
  BY DEF Typing
<1> SUFFICES ASSUME NEW m \in Methods \ crossed PROVE Calling(m)'
  BY CallKeeps DEF Runs
<1>1. Calling(m) /\ InEffect(m)
  BY DEF Runs, Effect
<1>2. field[m].body \in Nat /\ before[m] \in Nat /\ before[m] <= field[m].body
  BY <1>0, <1>1, MethodUpdateAssumption DEF TypeOK, Calling
<1>3. UNCHANGED <<field, hasUpdate, handler>>
  BY CallKeeps DEF fields, registrarVars, registryVars
\* Without a usable update the field has no body.
<1>4. m \notin hasUpdate => field[m].body = 0
  BY <1>1 DEF InEffect
<1>5. ASSUME NEW k \in Methods, Enter(k) PROVE Calling(m)'
  <2>1. called' = k /\ before' = before
        /\ \/ k = m /\ field[m] = Null /\ caller' = "return" /\ ran' = {0}
           \/ k = m /\ field[m] # Null /\ caller' = "invoke" /\ ran' = {}
           \/ k # m
    BY <1>5 DEF Enter
  <2>2. field[m] = Null => field[m].body = 0
    BY DEF Null
  <2> QED BY <1>2, <1>3, <2>1, <2>2 DEF Calling
<1>6. CASE Invoke
  <2>1. caller = "invoke" /\ caller' = "check" /\ called' = called /\ before' = before
        /\ ran' = {field[called].body} \ {0}
    BY <1>6 DEF Invoke
  <2>2. CASE called = m /\ field[m].body = 0
    <3>1. field[m] # Null
      BY <1>1, <2>1, <2>2 DEF Calling
    <3>2. field[m].intercepted
      BY <1>0, <2>2, <3>1 DEF TypeOK, Null
    <3>3. handler /\ ran' = {}
      BY <1>1, <2>1, <2>2, <3>2 DEF InEffect
    <3> QED BY <1>2, <1>3, <2>1, <3>3 DEF Calling
  <2>3. CASE called = m /\ field[m].body # 0
    <3>1. m \in hasUpdate /\ ran' = {field[m].body}
      BY <1>4, <2>1, <2>3
    <3> QED BY <1>2, <1>3, <2>1, <3>1 DEF Calling
  <2>4. CASE called # m
    BY <1>2, <1>3, <2>1, <2>4 DEF Calling
  <2> QED BY <2>2, <2>3, <2>4
<1>7. CASE CheckVersion
  <2>1. caller = "check" /\ caller' = "return" /\ called' = called /\ before' = before
        /\ ran' = IF called \in hasUpdate THEN ran ELSE ran \cup {0}
    BY <1>7 DEF CheckVersion
  <2>2. CASE called = m /\ m \in hasUpdate
    <3>1. ran' = ran
      BY <2>1, <2>2
    <3>2. \A n \in ran : before[m] <= n /\ n <= field[m].body
      BY <1>1, <2>2 DEF Calling
    <3>3. IF ran = {} THEN handler ELSE \E n \in ran : ran = {n}
      BY <1>1, <2>1, <2>2 DEF Calling
    <3> QED BY <1>2, <1>3, <2>1, <3>1, <3>2, <3>3 DEF Calling
  <2>3. CASE called = m /\ m \notin hasUpdate
    <3>1. ran' = {0} /\ field[m].body = 0
      BY <1>1, <1>4, <2>1, <2>3 DEF Calling
    <3> QED BY <1>2, <1>3, <2>1, <3>1 DEF Calling
  <2>4. CASE called # m
    BY <1>2, <1>3, <2>1, <2>4 DEF Calling
  <2> QED BY <2>2, <2>3, <2>4
<1>8. CASE Return
  <2>1. called' = None /\ called \in Methods
    BY <1>0, <1>8 DEF Return, Typing, Located, TypeOK
  <2>2. PICK n \in ran \cup {before[called]} : before' = [before EXCEPT ![called] = n]
    BY <1>8 DEF Return
  <2>3. called = m => n <= field[m].body
    BY <1>1, <1>2, <2>2 DEF Calling
  <2>4. before'[m] <= field[m].body
    BY <1>0, <1>2, <2>1, <2>2, <2>3 DEF TypeOK
  <2>5. m # called'
    BY <2>1, MethodUpdateAssumption
  <2> QED BY <1>3, <2>4, <2>5 DEF Calling
<1> QED BY <1>5, <1>6, <1>7, <1>8 DEF Call

LEMMA RunsStep == ASSUME Typing, EffectInv, Runs, [Next]_vars PROVE Runs'
<1>1. CASE Call
  BY <1>1, RunsCall DEF EffectInv
<1>2. CASE ~Call
  <2>1. UNCHANGED callerVars
    <3>1. UNCHANGED vars => UNCHANGED callerVars
      BY DEF vars
    <3> QED BY <1>2, <3>1, Steps, UpdaterKeeps, LoadKeeps, RegisterKeeps, InterceptionKeeps
  <2> QED BY <2>1, RunsBeside DEF EffectInv
<1> QED BY <1>1, <1>2

LEMMA RunsInit == ASSUME Init PROVE Runs
<1>1. caller = "idle" /\ called = None /\ ran = {} /\ \A m \in Methods : before[m] = 0 /\ field[m] = Null
  BY DEF Init
<1>2. Null.body = 0
  BY DEF Null
<1> QED BY <1>1, <1>2, MethodUpdateAssumption DEF Runs, Calling

(* A call runs one body, whatever is loaded, received and registered while  *)
(* it goes on; and none only if the handler is registered.                  *)
THEOREM OneBodyOnly == Spec => []OneBody
<1>1. Init => Typing /\ EffectInv /\ Runs
  BY EffectInit, RunsInit
<1>2. Typing /\ EffectInv /\ Runs /\ [Next]_vars => (Typing /\ EffectInv /\ Runs)'
  BY EffectInvStep, RunsStep
<1>3. Typing /\ EffectInv /\ Runs => OneBody
  <2> SUFFICES ASSUME Typing, Runs, caller = "return", called \notin crossed
               PROVE  Cardinality(ran) <= 1 /\ (~handler => ran # {})
    BY DEF OneBody
  <2>1. called \in Methods
    BY DEF Typing, TypeOK, Located
  <2>2. IF ran = {} THEN handler ELSE \E n \in ran : ran = {n}
    BY <2>1 DEF Runs, Calling
  <2>3. Cardinality(ran) = 0 \/ Cardinality(ran) = 1
    BY <2>2, FS_EmptySet, FS_Singleton
  <2> QED BY <2>2, <2>3
<1> QED BY <1>1, <1>2, <1>3, PTL DEF Spec

(* No call runs an older body than an earlier call of the method has run -  *)
(* unless an update of the method met its loading or a thread that was      *)
(* writing interceptors, which can take its delegate back to an older one.  *)
THEOREM NeverOlder == Spec => []NeverBackwards
<1>1. Init => Typing /\ EffectInv /\ Runs
  BY EffectInit, RunsInit
<1>2. Typing /\ EffectInv /\ Runs /\ [Next]_vars => (Typing /\ EffectInv /\ Runs)'
  BY EffectInvStep, RunsStep
<1>3. Typing /\ EffectInv /\ Runs => NeverBackwards
  <2> SUFFICES ASSUME Typing, Runs, caller = "return", called \notin crossed, NEW n \in ran
               PROVE  before[called] <= n
    BY DEF NeverBackwards
  <2>1. called \in Methods
    BY DEF Typing, TypeOK, Located
  <2> QED BY <2>1 DEF Runs, Calling
<1> QED BY <1>1, <1>2, <1>3, PTL DEF Spec
=============================================================================
