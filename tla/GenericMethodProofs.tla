------------------------ MODULE GenericMethodProofs ------------------------
(***************************************************************************)
(* For any number of callers, type arguments and documents: the variables  *)
(* keep their types, a finished walk has stored the newest info, and a     *)
(* call that is alone runs the newest body, made for its own type argument.*)
(***************************************************************************)
EXTENDS GenericMethod, TLAPS

-----------------------------------------------------------------------------
(* The inductive invariant *)

\* What a delegate can be constructed from for any type argument.
Good(i) ==
  /\ i \in Places
  /\ stack[i].document = newest
  /\ ~omitted => stack[i].type = None

\* What may run for a type argument.
Right(i, t) ==
  /\ i \in Places
  /\ stack[i].document = newest
  /\ ~omitted => stack[i].type = t

(* Who is to construct has a version, an info or a delegate to do it with.   *)
Located ==
  /\ newest # 0 => stack # <<>>
  /\ updater # "idle" => newest # 0
  /\ updater = "bump" => methodInfo = walk.at
  /\ \A c \in Callers :
       /\ caller[c] \in {"info", "compare", "make", "delegate", "version"} => available[c] > 0
       /\ caller[c] \in {"compare", "make"} => source[c] > 0
       /\ caller[c] = "delegate" => built[c] > 0
       /\ caller[c] # "return" => ran[c] = 0

Typing == TypeOK /\ Located

\* The document of an info has come, and a constructed method is as its source says.
Sound(i) ==
  /\ stack[i].document <= newest
  /\ stack[i].from # 0 =>
       /\ stack[i].from \in Places
       /\ stack[i] = Constructed(stack[i].from, stack[i].asked)

(* The infos are sound; without a document nothing has happened.             *)
Stacked ==
  /\ newest = 0 => version = 0
  /\ version = 0 /\ updater = "idle" => newest = 0
  /\ \A i \in Places : Sound(i)

(* Where the newest info is: on top of the stack, at the end of the walk, in *)
(* the field.  Until the walk that is to store it has copied the stack, only *)
(* older ones can be read.                                                   *)
Upward ==
  /\ ~late /\ newest # 0 => stack[Len(stack)].document = newest
  /\ ~late /\ updater = "enumerate" => Good(Len(stack))
  /\ ~late /\ updater \in {"store", "bump"} => Good(walk.last)
  /\ ~late /\ updater = "idle" /\ version > 0 => Good(methodInfo)
  /\ updater = "enumerate" /\ ~omitted /\ methodInfo # 0 => stack[methodInfo].document # newest
  /\ updater = "enumerate" /\ ~omitted =>
       \A c \in Callers : source[c] # 0 => stack[source[c]].document # newest

\* The caller has read the last version there is.
Fresh(c) == updater = "idle" /\ ~late /\ available[c] = version

Storing(t) == {c \in Calling(t) : caller[c] = "version"}

(* What a caller with the last version has in hand.                          *)
InHand ==
  \A c \in Callers :
    /\ caller[c] \in {"compare", "make"} /\ Fresh(c) => Good(source[c])
    /\ caller[c] = "delegate" /\ Fresh(c) => Right(built[c], argument[c])
    /\ caller[c] = "version" /\ Fresh(c) /\ argument[c] \notin mixed => Right(delegate[argument[c]], argument[c])

(* Unless two have stored at once, a delegate with the last version is right.*)
Settled ==
  \A t \in Types \ mixed :
    /\ \A c, d \in Storing(t) : c = d
    /\ updater = "idle" /\ ~late /\ version > 0 /\ constructed[t] = version /\ Storing(t) = {} =>
         Right(delegate[t], t)

(* What a call that is alone can rely on.                                    *)
ByItself ==
  \A c \in alone :
    /\ updater = "idle"
    /\ caller[c] # "idle"
    /\ Calling(argument[c]) = {c}
    /\ caller[c] \in {"info", "compare", "make", "delegate", "version"} => available[c] = version
    /\ caller[c] = "invoke" /\ ~late /\ argument[c] \notin mixed => Right(delegate[argument[c]], argument[c])
    /\ caller[c] = "return" /\ ~late /\ argument[c] \notin mixed =>
         \/ ran[c] = 0 /\ newest = 0
         \/ Right(ran[c], argument[c])
    /\ caller[c] = "thrown" => late \/ omitted \/ ~NewestGood

Stored == Typing /\ Stacked /\ Upward

IInv == Stored /\ InHand /\ Settled /\ ByItself

-----------------------------------------------------------------------------
(* Types *)

LEMMA Pushed ==
  ASSUME stack \in Seq(Infos), NEW info \in Infos, stack' = Append(stack, info)
  PROVE  /\ stack' \in Seq(Infos)
         /\ Len(stack') = Len(stack) + 1
         /\ \A i \in 1..Len(stack) : stack'[i] = stack[i]
         /\ stack'[Len(stack) + 1] = info
  OBVIOUS

LEMMA DefinitionTypes == ASSUME NEW n \in Documents, NEW body \in Bodies PROVE Definition(n, body) \in Infos
  BY DEF Definition, Infos

LEMMA ConstructedTypes ==
  ASSUME TypeOK, NEW i \in Places, NEW t \in Types PROVE Constructed(i, t) \in Infos
<1>1. stack[i] \in Infos /\ i \in Nat
  BY DEF TypeOK, Places
<1> QED BY <1>1 DEF Constructed, Infos

LEMMA InitTypes == Init => Typing
<1> SUFFICES ASSUME Init PROVE Typing
  OBVIOUS
<1>1. stack = <<>> /\ stack \in Seq(Infos) /\ Len(stack) = 0
  BY DEF Init
<1>2. walk \in [at : Nat, last : 0..Len(stack)] /\ walk.at <= walk.last /\ updater = "idle"
  BY <1>1 DEF Init
<1>3. Located
  BY DEF Init, Located
<1>4. /\ delegate \in [Types -> 0..Len(stack)] /\ constructed \in [Types -> 0..version]
      /\ available \in [Callers -> 0..version]
      /\ source \in [Callers -> 0..Len(stack)] /\ built \in [Callers -> 0..Len(stack)]
      /\ ran \in [Callers -> 0..Len(stack)]
  BY <1>1 DEF Init
<1>5. /\ caller \in [Callers -> {"idle", "info", "compare", "make", "delegate", "version", "invoke", "return", "thrown"}]
      /\ argument \in [Callers -> Types \cup {None}]
      /\ \A c \in Callers : caller[c] # "idle" => argument[c] \in Types
  BY DEF Init
<1>6. /\ received \in 0..MaxDocuments /\ newest \in 0..received /\ version \in Nat
      /\ methodInfo \in 0..Len(stack) /\ ~(version > 0)
  BY <1>1, GenericMethodAssumption DEF Init
<1>7. {shown, late, omitted} \subseteq BOOLEAN /\ alone \subseteq Callers /\ mixed \subseteq Types
  BY DEF Init
<1> QED BY <1>1, <1>2, <1>3, <1>4, <1>5, <1>6, <1>7 DEF Typing, TypeOK

LEMMA UpdateTypes == ASSUME Typing, Update PROVE Typing'
<1> USE GenericMethodAssumption DEF Typing, Located, fields, containers, callerVars, historyVars
<1>1. ASSUME NEW body \in Bodies, Receive(body) PROVE Typing'
  <2>1. received + 1 \in Documents
    BY <1>1 DEF Receive, TypeOK, Documents
  <2>2. Definition(received + 1, body) \in Infos
    BY <2>1, DefinitionTypes
  <2>3. /\ stack' \in Seq(Infos) /\ Len(stack') = Len(stack) + 1
    BY <1>1, <2>2, Pushed DEF Receive, TypeOK
  <2>4. stack' # <<>>
    BY <2>3 DEF TypeOK
  <2>6. newest' # 0 /\ updater' = "enumerate" /\ UNCHANGED <<caller, available, source, built, ran>>
    BY <1>1 DEF Receive, TypeOK
  <2>7. Located'
    BY <2>4, <2>6
  <2>5. /\ received' \in 0..MaxDocuments /\ newest' \in 0..received'
        /\ walk' \in [at : Nat, last : 0..Len(stack')]
        /\ methodInfo' \in 0..Len(stack')
        /\ delegate' \in [Types -> 0..Len(stack')]
        /\ source' \in [Callers -> 0..Len(stack')]
        /\ built' \in [Callers -> 0..Len(stack')]
        /\ ran' \in [Callers -> 0..Len(stack')]
    BY <1>1, <2>1, <2>3 DEF Receive, TypeOK, Documents
  <2> QED BY <1>1, <2>3, <2>5, <2>7 DEF Receive, TypeOK
<1>2. CASE ReceiveOther
  BY <1>2 DEF ReceiveOther, TypeOK
<1>3. CASE Enumerate
  <2>1. Len(stack) \in Nat /\ Len(stack) > 0
    BY <1>3 DEF Enumerate, TypeOK
  <2> QED BY <1>3, <2>1 DEF Enumerate, TypeOK
<1>4. CASE StoreInfo
  BY <1>4 DEF StoreInfo, TypeOK
<1>5. CASE Bump
  <2>1. Len(stack) \in Nat
    BY DEF TypeOK
  <2>2. walk' \in [at : Nat, last : 0..Len(stack)] /\ walk'.at <= walk'.last
        /\ (updater' = "store" => walk'.at > 0) /\ updater' \in {"idle", "store"}
    <3>1. CASE walk.at = walk.last
      BY <1>5, <2>1, <3>1 DEF Bump
    <3>2. CASE walk.at # walk.last
      <4>1. walk' = [walk EXCEPT !.at = @ + 1] /\ updater' = "store"
        BY <1>5, <3>2 DEF Bump
      <4>2. walk \in [at : Nat, last : 0..Len(stack)] /\ walk.at <= walk.last
        BY DEF TypeOK
      <4>3. walk' \in [at : Nat, last : 0..Len(stack)] /\ walk'.at = walk.at + 1 /\ walk'.last = walk.last
        BY <4>1, <4>2
      <4>4. walk.at \in Nat /\ walk.last \in Nat
        BY <2>1, <4>2
      <4> QED BY <3>2, <4>1, <4>2, <4>3, <4>4
    <3> QED BY <3>1, <3>2
  <2>3. methodInfo > 0
    BY <1>5 DEF Bump, TypeOK
  <2> QED BY <1>5, <2>1, <2>2, <2>3 DEF Bump, TypeOK
<1> QED BY <1>1, <1>2, <1>3, <1>4, <1>5 DEF Update

LEMMA CallTypes == ASSUME Typing, NEW c \in Callers, Call(c) PROVE Typing'
<1> USE GenericMethodAssumption DEF Typing, Located, updaterVars, fields, containers, callerVars, historyVars, Go, Forget
<1>0. Len(stack) \in Nat
  BY DEF TypeOK
<1>1. ASSUME NEW t \in Types, Enter(c, t) PROVE Typing'
  BY <1>0, <1>1 DEF Enter, TypeOK
<1>2. CASE ReadInfo(c)
  BY <1>0, <1>2 DEF ReadInfo, TypeOK
<1>3. CASE Compare(c)
  <2>1. /\ available' \in {available, [available EXCEPT ![c] = 0]}
        /\ source' \in {source, [source EXCEPT ![c] = 0]}
    BY <1>3 DEF Compare
  <2>5. 0 \in 0..version /\ 0 \in 0..Len(stack)
    BY <1>0 DEF TypeOK
  <2>6. available \in [Callers -> 0..version] /\ source \in [Callers -> 0..Len(stack)]
    BY DEF TypeOK
  <2>4. available' \in [Callers -> 0..version] /\ source' \in [Callers -> 0..Len(stack)]
    BY <2>1, <2>5, <2>6
  <2>2. caller[c] = "compare" /\ caller' \in {[caller EXCEPT ![c] = "invoke"], [caller EXCEPT ![c] = "make"]}
    BY <1>3 DEF Compare
  <2>3. Located'
    BY <1>0, <1>3 DEF Compare, TypeOK
  <2> QED BY <1>3, <2>2, <2>3, <2>4 DEF Compare, TypeOK
<1>4. CASE MakeCached(c)
  <2>1. PICK i \in Places : Build(c, i, stack[i])
    BY <1>4 DEF MakeCached, Cached
  <2>5. \/ built' = [built EXCEPT ![c] = i] /\ caller' = [caller EXCEPT ![c] = "delegate"]
        \/ built' = built /\ caller' = [caller EXCEPT ![c] = "thrown"]
    BY <2>1 DEF Build
  <2>6. i \in 0..Len(stack) /\ 0 \in 0..Len(stack)
    BY <1>0, <2>1 DEF Places
  <2>7. source' \in {source, [source EXCEPT ![c] = 0]}
    BY <1>4 DEF MakeCached
  <2>8. built \in [Callers -> 0..Len(stack)] /\ source \in [Callers -> 0..Len(stack)]
    BY DEF TypeOK
  <2>2. built' \in [Callers -> 0..Len(stack)] /\ source' \in [Callers -> 0..Len(stack)]
    BY <2>5, <2>6, <2>7, <2>8
  <2>3. caller[c] = "make" /\ caller' \in {[caller EXCEPT ![c] = "delegate"], [caller EXCEPT ![c] = "thrown"]}
    BY <1>4, <2>5 DEF MakeCached
  <2>4. Located'
    BY <1>0, <1>4, <2>1, <2>5 DEF MakeCached, Places, TypeOK
  <2> QED BY <1>4, <2>2, <2>3, <2>4 DEF MakeCached, TypeOK
<1>5. CASE MakeNew(c)
  <2>1. source[c] \in Places /\ argument[c] \in Types
    BY <1>0, <1>5 DEF MakeNew, TypeOK, Places
  <2>2. Constructed(source[c], argument[c]) \in Infos
    BY <2>1, ConstructedTypes
  <2>3. stack' \in Seq(Infos) /\ Len(stack') = Len(stack) + 1
    BY <1>5, <2>2, Pushed DEF MakeNew, TypeOK
  <2>4. /\ walk' \in [at : Nat, last : 0..Len(stack')]
        /\ methodInfo' \in 0..Len(stack')
        /\ delegate' \in [Types -> 0..Len(stack')]
        /\ source' \in [Callers -> 0..Len(stack')]
        /\ ran' \in [Callers -> 0..Len(stack')]
    BY <1>0, <1>5, <2>3 DEF MakeNew, TypeOK
  <2>9. \/ built' = [built EXCEPT ![c] = Len(stack) + 1] /\ caller' = [caller EXCEPT ![c] = "delegate"]
        \/ built' = built /\ caller' = [caller EXCEPT ![c] = "thrown"]
    BY <1>5 DEF MakeNew, Build
  <2>10. PICK n \in Nat : n = Len(stack) /\ Len(stack') = n + 1 /\ built \in [Callers -> 0..n]
    BY <1>0, <2>3 DEF TypeOK
  <2>5. built' \in [Callers -> 0..Len(stack')]
    <3>1. built \in [Callers -> 0..n + 1] /\ n + 1 \in 0..n + 1
      BY <2>10
    <3> QED BY <2>9, <2>10, <3>1
  <2>6. caller[c] = "make" /\ caller' \in {[caller EXCEPT ![c] = "delegate"], [caller EXCEPT ![c] = "thrown"]}
    BY <1>5 DEF MakeNew, Build
  <2>7. late' \in BOOLEAN
    BY <1>5 DEF MakeNew, TypeOK
  <2>8. Located'
    <3>1. stack' # <<>>
      BY <1>0, <2>3
    <3>2. /\ caller'[c] = "delegate" => built'[c] > 0
          /\ \A d \in Callers : d # c => caller'[d] = caller[d] /\ built'[d] = built[d]
          /\ caller'[c] \in {"delegate", "thrown"}
      BY <2>9, <2>10 DEF TypeOK
    <3>3. /\ UNCHANGED <<newest, updater, walk, methodInfo, available, ran>>
          /\ caller[c] = "make"
          /\ \A d \in Callers : d # c => source'[d] = source[d]
      BY <1>5 DEF MakeNew, TypeOK
    <3> QED BY <3>1, <3>2, <3>3
  <2> QED BY <1>5, <2>3, <2>4, <2>5, <2>6, <2>7, <2>8 DEF MakeNew, TypeOK
<1>6. CASE StoreDelegate(c)
  BY <1>0, <1>6 DEF StoreDelegate, TypeOK
<1>7. CASE StoreVersion(c)
  BY <1>0, <1>7 DEF StoreVersion, TypeOK
<1>8. CASE Invoke(c)
  BY <1>0, <1>8 DEF Invoke, TypeOK
<1>9. CASE Return(c)
  BY <1>0, <1>9 DEF Return, TypeOK
<1>10. CASE MakeFails(c)
  BY <1>0, <1>10 DEF MakeFails, TypeOK
<1> QED BY <1>1, <1>2, <1>3, <1>4, <1>5, <1>6, <1>7, <1>8, <1>9, <1>10 DEF Call

LEMMA StutterTypes == ASSUME Typing, UNCHANGED vars PROVE Typing'
  BY DEF Typing, TypeOK, Located, vars, updaterVars, fields, containers, callerVars, historyVars

(* The variables keep their types: no place outside the stack is ever read,  *)
(* whatever the callers and the receiving thread read between each other's   *)
(* steps.                                                                    *)
THEOREM GenericTypes == Spec => []TypeOK
<1>1. Typing /\ [Next]_vars => Typing'
  BY UpdateTypes, CallTypes, StutterTypes DEF Next
<1>2. Typing => TypeOK
  BY DEF Typing
<1> QED BY <1>1, <1>2, InitTypes, PTL DEF Spec

-----------------------------------------------------------------------------
(* Where the newest info is *)

\* What a step leaves of the stack's infos.
LEMMA GoodKept ==
  ASSUME NEW i \in Places, Places \subseteq Places', stack'[i] = stack[i], UNCHANGED <<newest, omitted>>, Good(i)
  PROVE  Good(i)'
  BY DEF Good

LEMMA SoundKept ==
  ASSUME NEW i \in Places, stack[i].document \in Nat, newest \in Nat, newest' \in Nat, newest <= newest',
         Places \subseteq Places', \A j \in Places : stack'[j] = stack[j], Sound(i)
  PROVE  Sound(i)'
<1>1. stack'[i] = stack[i]
  OBVIOUS
<1>2. stack[i].document <= newest'
  BY DEF Sound
<1>3. ASSUME stack[i].from # 0
      PROVE  stack[i].from \in Places' /\ stack[i] = Constructed(stack[i].from, stack[i].asked)'
  <2>1. stack[i].from \in Places /\ stack[i] = Constructed(stack[i].from, stack[i].asked)
    BY <1>3 DEF Sound
  <2>2. stack'[stack[i].from] = stack[stack[i].from]
    BY <2>1
  <2> QED BY <1>1, <2>1, <2>2 DEF Constructed
<1> QED BY <1>1, <1>2, <1>3 DEF Sound

LEMMA StackKept ==
  ASSUME Stored, UNCHANGED <<stack, newest, updater, walk, methodInfo, version, late, omitted>>,
         \A c \in Callers : source'[c] \in {0, source[c]}
  PROVE  Stacked' /\ Upward'
<1>1. Stacked'
  BY DEF Stored, Stacked, Sound, Places, Constructed
<1>2. Upward'
  BY DEF Stored, Upward, Good, Places
<1> QED BY <1>1, <1>2

LEMMA InitStored == Init => Stored
<1> SUFFICES ASSUME Init PROVE Stored
  OBVIOUS
<1>1. Typing
  BY InitTypes
<1>2. stack = <<>> /\ Places = {} /\ newest = 0 /\ version = 0 /\ updater = "idle"
  BY DEF Init, Places
<1>3. Stacked /\ Upward
  BY <1>2 DEF Stacked, Upward
<1> QED BY <1>1, <1>3 DEF Stored

LEMMA UpdateStored == ASSUME Stored, Update PROVE Stacked' /\ Upward'
<1> USE DEF fields, containers, callerVars, historyVars
<1>0. Typing /\ Stacked /\ Upward /\ Len(stack) \in Nat /\ newest \in Nat /\ received \in Nat /\ newest <= received
  BY GenericMethodAssumption DEF Stored, Typing, TypeOK
<1>1. ASSUME NEW body \in Bodies, Receive(body) PROVE Stacked' /\ Upward'
  <2>0. PICK n \in Nat, top \in Nat : n = received + 1 /\ top = Len(stack) + 1
    BY <1>0
  <2>1. n \in Documents /\ newest < n
    BY <1>0, <1>1, <2>0, GenericMethodAssumption DEF Receive, Documents
  <2>2. /\ stack' \in Seq(Infos) /\ Len(stack') = Len(stack) + 1
        /\ \A i \in 1..Len(stack) : stack'[i] = stack[i]
        /\ stack'[top] = Definition(n, body)
    BY <1>0, <1>1, <2>0, <2>1, DefinitionTypes, Pushed DEF Receive, Typing, TypeOK
  <2>3. newest' = n /\ updater' = "enumerate" /\ methodInfo' = methodInfo /\ source' = source /\ late' = FALSE
        /\ omitted' = FALSE
    BY <1>1, <2>0 DEF Receive
  <2>4. Places' = Places \cup {top} /\ top \notin Places /\ Len(stack') = top
    BY <1>0, <2>0, <2>2 DEF Places
  <2>5. ASSUME NEW i \in Places
        PROVE  stack[i].document \in Nat /\ stack[i].document < n /\ stack'[i] = stack[i]
    <3>1. stack[i].document \in Nat
      <4>1. stack[i] \in Infos
        BY DEF Stored, Typing, TypeOK, Places
      <4> QED BY <4>1 DEF Infos, Documents
    <3>2. stack[i].document <= newest
      BY <1>0 DEF Stacked, Sound
    <3> QED BY <1>0, <2>1, <2>2, <3>1, <3>2 DEF Places
  <2>6. Stacked'
    <3>1. n # 0 /\ n \in Nat /\ newest <= n
      BY <1>0, <2>0, <2>1
    <3>2. ASSUME NEW i \in Places PROVE Sound(i)'
      BY <1>0, <2>3, <2>4, <2>5, <3>1, SoundKept DEF Stacked
    <3>3. stack'[top] = Definition(n, body)
      BY <2>2
    <3>4. Sound(top)'
      BY <2>3, <3>1, <3>3 DEF Sound, Definition
    <3>5. \A i \in Places' : Sound(i)'
      BY <2>4, <3>2, <3>4
    <3> QED BY <2>3, <3>1, <3>5 DEF Stacked
  <2>7. Good(top)'
    <3>1. stack'[top] = Definition(n, body) /\ top \in Places'
      BY <2>2, <2>4
    <3> QED BY <2>3, <3>1 DEF Good, Definition
  <2>8. methodInfo \in 0..Len(stack) /\ \A c \in Callers : source[c] \in 0..Len(stack)
    BY <1>0 DEF Typing, TypeOK
  <2>9. /\ methodInfo # 0 => stack'[methodInfo].document # n
        /\ \A c \in Callers : source[c] # 0 => stack'[source[c]].document # n
    <3>1. \A i \in 0..Len(stack) : i # 0 => i \in Places
      BY <1>0 DEF Places
    <3>2. \A i \in Places : stack'[i].document # n
      BY <1>0, <2>5
    <3> QED BY <2>8, <3>1, <3>2
  <2> QED
    <3>1. updater' = "enumerate" /\ late' = FALSE /\ omitted' = FALSE /\ newest' = n
          /\ methodInfo' = methodInfo /\ source' = source
      BY <2>3
    <3>2. stack'[top].document = newest'
      BY <2>7 DEF Good
    <3>3. Good(Len(stack))'
      BY <2>4, <2>7
    <3> QED BY <2>6, <2>4, <2>7, <2>9, <3>1, <3>2, <3>3 DEF Upward
<1>2. CASE ReceiveOther
  <2>1. /\ updater' = "enumerate" /\ omitted' = TRUE /\ UNCHANGED <<stack, newest, late, version>>
        /\ newest # 0
    BY <1>2 DEF ReceiveOther
  <2>2. Stacked'
    BY <1>0, <2>1 DEF Stacked, Sound, Places, Constructed
  <2>3. Len(stack) \in Places
    BY <1>0, <2>1 DEF Typing, Located, TypeOK, Places
  <2>4. ~late => Good(Len(stack))'
    BY <1>0, <2>1, <2>3 DEF Upward, Good, Places
  <2> QED BY <1>0, <2>1, <2>2, <2>4 DEF Upward
<1>3. CASE Enumerate
  <2>1. /\ updater = "enumerate" /\ updater' = "store" /\ walk'.last = Len(stack)
        /\ UNCHANGED <<stack, newest, late, omitted, version>>
    BY <1>3 DEF Enumerate
  <2>2. Stacked'
    BY <1>0, <2>1 DEF Stacked, Sound, Places, Constructed, Typing, Located
  <2> QED BY <1>0, <2>1, <2>2 DEF Upward, Good, Places
<1>4. CASE StoreInfo
  <2>1. /\ updater = "store" /\ updater' = "bump" /\ UNCHANGED <<stack, newest, late, omitted, version, walk>>
    BY <1>4 DEF StoreInfo
  <2>2. Stacked'
    BY <1>0, <2>1 DEF Stacked, Sound, Places, Constructed
  <2> QED BY <1>0, <2>1, <2>2 DEF Upward, Good, Places
<1>5. CASE Bump
  <2>1. /\ updater = "bump" /\ updater' \in {"idle", "store"} /\ version' = version + 1 /\ version \in Nat
        /\ UNCHANGED <<stack, newest, late, omitted, methodInfo>> /\ newest # 0
        /\ updater' = "store" => walk'.last = walk.last
        /\ updater' = "idle" => methodInfo = walk.last
    BY <1>0, <1>5 DEF Bump, Typing, TypeOK, Located
  <2>2. Stacked'
    BY <1>0, <2>1 DEF Stacked, Sound, Places, Constructed
  <2> QED BY <1>0, <2>1, <2>2 DEF Upward, Good, Places
<1> QED BY <1>1, <1>2, <1>3, <1>4, <1>5 DEF Update

LEMMA CallStored == ASSUME Stored, NEW c \in Callers, Call(c) PROVE Stacked' /\ Upward'
<1> USE DEF updaterVars, fields, containers, callerVars, historyVars, Go, Forget
<1>0. Typing /\ Stacked /\ Upward /\ Len(stack) \in Nat /\ source \in [Callers -> 0..Len(stack)]
  BY DEF Stored, Typing, TypeOK
<1>1. ASSUME NEW t \in Types, Enter(c, t) PROVE Stacked' /\ Upward'
  BY <1>1, StackKept DEF Enter
<1>2. CASE ReadInfo(c)
  <2>1. UNCHANGED <<stack, newest, updater, walk, methodInfo, version, late, omitted>>
    BY <1>2 DEF ReadInfo
  <2>2. \A d \in Callers : source'[d] \in {methodInfo, source[d]}
    BY <1>0, <1>2 DEF ReadInfo
  <2>3. Stacked'
    BY <1>0, <2>1 DEF Stacked, Sound, Places, Constructed
  <2> QED BY <1>0, <2>1, <2>2, <2>3 DEF Upward, Good, Places
<1>3. CASE Compare(c)
  BY <1>0, <1>3, StackKept DEF Compare
<1>4. CASE MakeCached(c)
  BY <1>0, <1>4, StackKept DEF MakeCached
<1>5. CASE MakeNew(c)
  <2>0. source[c] \in Places /\ argument[c] \in Types
    BY <1>0, <1>5 DEF MakeNew, Typing, TypeOK, Located, Places
  <2>1. PICK i \in Places, t \in Types, top \in Nat : i = source[c] /\ t = argument[c] /\ top = Len(stack) + 1
    BY <1>0, <2>0
  <2>2. PICK info \in Infos : info = Constructed(i, t)
    BY <1>0, ConstructedTypes DEF Typing
  <2>3. /\ stack' \in Seq(Infos) /\ Len(stack') = Len(stack) + 1
        /\ \A j \in 1..Len(stack) : stack'[j] = stack[j]
        /\ stack'[top] = info
    BY <1>0, <1>5, <2>1, <2>2, Pushed DEF MakeNew, Typing, TypeOK
  <2>4. Places' = Places \cup {top} /\ Places \subseteq Places' /\ Len(stack') = top
    BY <1>0, <2>1, <2>3 DEF Places
  <2>5. /\ UNCHANGED <<newest, updater, walk, methodInfo, version, omitted>>
        /\ late' = (late \/ stack[i].document # newest)
    BY <1>5, <2>1 DEF MakeNew, Constructed
  <2>6. \A d \in Callers : source'[d] \in {0, source[d]}
    BY <1>0, <1>5 DEF MakeNew
  <2>7. \A j \in Places : stack'[j] = stack[j]
    BY <2>3 DEF Places
  <2>8. Stacked'
    <3>1. stack'[top] = info
      BY <2>3
    <3>2. info.from = i /\ info.asked = t /\ info.document = stack[i].document
      BY <2>2 DEF Constructed
    <3>3. stack'[i] = stack[i]
      BY <2>1, <2>7
    <3>4. Constructed(info.from, info.asked)' = info
      BY <2>2, <3>2, <3>3 DEF Constructed
    <3>5. stack[i].document <= newest
      BY <1>0, <2>1 DEF Stacked, Sound
    <3>6. Sound(top)'
      BY <2>1, <2>4, <2>5, <3>1, <3>2, <3>4, <3>5 DEF Sound
    <3>7. ASSUME NEW j \in Places PROVE Sound(j)'
      <4>0. stack[j] \in Infos /\ newest \in Nat
        BY GenericMethodAssumption DEF Stored, Typing, TypeOK, Places
      <4>1. stack[j].document \in Nat /\ newest \in Nat
        BY <4>0 DEF Infos, Documents
      <4> QED BY <1>0, <2>4, <2>5, <2>7, <4>1, SoundKept DEF Stacked
    <3>8. \A j \in Places' : Sound(j)'
      BY <2>4, <3>6, <3>7
    <3> QED BY <1>0, <2>5, <3>8 DEF Stacked
  <2>9. ASSUME NEW j \in Places, Good(j) PROVE Good(j)'
    BY <2>4, <2>5, <2>7, <2>9 DEF Good
  <2>10. stack'[top].document = stack[i].document /\ top \in Places'
    BY <2>2, <2>3, <2>4 DEF Constructed
  <2>11. ASSUME ~late' PROVE ~late /\ stack'[top].document = newest /\ stack[i].document = newest
    BY <2>5, <2>10, <2>11
  <2>12. ASSUME updater = "enumerate", ~late' PROVE Good(top)'
    <3>1. i # 0
      BY <2>1 DEF Places
    <3>2. omitted
      BY <1>0, <2>1, <2>11, <2>12, <3>1 DEF Upward
    <3> QED BY <2>5, <2>10, <2>11, <2>12, <3>2 DEF Good
  <2>13. /\ (~late' /\ updater \in {"store", "bump"}) => Good(walk.last)'
         /\ (~late' /\ updater = "idle" /\ version > 0) => Good(methodInfo)'
    <3>1. /\ (~late' /\ updater \in {"store", "bump"}) => Good(walk.last) /\ walk.last \in Places
          /\ (~late' /\ updater = "idle" /\ version > 0) => Good(methodInfo) /\ methodInfo \in Places
      BY <1>0, <2>11 DEF Upward, Good
    <3>2. walk' = walk /\ methodInfo' = methodInfo
      BY <2>5
    <3> QED BY <2>9, <3>1, <3>2
  <2>14. ASSUME updater = "enumerate", ~omitted
         PROVE  /\ methodInfo # 0 => stack'[methodInfo].document # newest
                /\ \A d \in Callers : source'[d] # 0 => stack'[source'[d]].document # newest
    <3>1. methodInfo \in 0..Len(stack) /\ \A d \in Callers : source[d] \in 0..Len(stack)
      BY <1>0 DEF Typing, TypeOK
    <3>2. \A j \in 0..Len(stack) : j # 0 => stack'[j] = stack[j]
      BY <1>0, <2>7 DEF Places
    <3>3. /\ methodInfo # 0 => stack[methodInfo].document # newest
          /\ \A d \in Callers : source[d] # 0 => stack[source[d]].document # newest
      BY <1>0, <2>14 DEF Upward
    <3> QED BY <2>6, <3>1, <3>2, <3>3
  <2> QED
    <3>1. updater' = updater /\ methodInfo' = methodInfo /\ omitted' = omitted /\ newest' = newest /\ version' = version
      BY <2>5
    <3>2. (~late' /\ updater = "enumerate") => Good(Len(stack))'
      BY <2>4, <2>12
    <3> QED BY <2>4, <3>2, <2>8, <2>11, <2>12, <2>13, <2>14, <3>1 DEF Upward
<1>6. CASE StoreDelegate(c)
  BY <1>6, StackKept DEF StoreDelegate
<1>7. CASE StoreVersion(c)
  BY <1>7, StackKept DEF StoreVersion
<1>8. CASE Invoke(c)
  BY <1>8, StackKept DEF Invoke
<1>9. CASE Return(c)
  BY <1>9, StackKept DEF Return
<1>10. CASE MakeFails(c)
  BY <1>0, <1>10, StackKept DEF MakeFails
<1> QED BY <1>1, <1>2, <1>3, <1>4, <1>5, <1>6, <1>7, <1>8, <1>9, <1>10 DEF Call

(* A finished walk has stored the newest info, unless a method has been      *)
(* constructed from an older one after it came: the walk begins with the     *)
(* oldest info, but what it copied has the newest on top.                    *)
THEOREM NewestIsStored == Spec => []NewestStored
<1>1. Stored /\ [Next]_vars => Stored'
  <2>1. CASE UNCHANGED vars /\ Stored
    <3>1. Typing'
      BY <2>1, StutterTypes DEF Stored
    <3> QED BY <2>1, <3>1, StackKept DEF Stored, vars, updaterVars, fields, containers, callerVars, historyVars
  <2>2. CASE Stored /\ Next
    BY <2>2, UpdateTypes, CallTypes, UpdateStored, CallStored DEF Next, Stored
  <2> QED BY <2>1, <2>2
<1>2. Stored => NewestStored
  BY DEF Stored, Upward, NewestStored, Good
<1> QED BY <1>1, <1>2, InitStored, PTL DEF Spec

-----------------------------------------------------------------------------
(* What callers have in hand *)

\* The infos that were there are still there.
Extends ==
  /\ Places \subseteq Places'
  /\ \A i \in Places : stack'[i] = stack[i]
  /\ UNCHANGED <<newest, omitted, updater, version, methodInfo>>
  /\ ~late' => ~late

LEMMA ExtendsKeeps ==
  ASSUME Extends, NEW i
  PROVE  /\ Good(i) => Good(i)'
         /\ \A t : Right(i, t) => Right(i, t)'
  BY DEF Extends, Good, Right

LEMMA CallExtends == ASSUME Stored, NEW c \in Callers, Call(c) PROVE Extends
<1> USE DEF Extends, updaterVars, fields, containers, callerVars, historyVars
<1>1. CASE MakeNew(c)
  <2>0. Len(stack) \in Nat /\ source[c] \in Places /\ argument[c] \in Types
    BY <1>1 DEF MakeNew, Stored, Typing, TypeOK, Located, Places
  <2>1. Constructed(source[c], argument[c]) \in Infos
    BY <2>0, ConstructedTypes DEF Stored, Typing
  <2>2. /\ Len(stack') = Len(stack) + 1
        /\ \A j \in 1..Len(stack) : stack'[j] = stack[j]
    BY <1>1, <2>1, Pushed DEF MakeNew, Stored, Typing, TypeOK
  <2>3. Places \subseteq Places' /\ \A i \in Places : stack'[i] = stack[i]
    BY <2>0, <2>2 DEF Places
  <2> QED BY <1>1, <2>3 DEF MakeNew
<1>2. CASE ~MakeNew(c)
  <2>1. UNCHANGED <<stack, newest, omitted, updater, version, methodInfo, late>>
    BY <1>2 DEF Call, Enter, ReadInfo, Compare, MakeCached, MakeFails, StoreDelegate, StoreVersion, Invoke, Return
  <2> QED BY <2>1 DEF Places
<1> QED BY <1>1, <1>2

\* A method constructed from what is good for any type argument is right for its own.
LEMMA MadeRight ==
  ASSUME Stored, NEW c \in Callers, caller[c] = "make", Good(source[c]),
         NEW i \in Cached(source[c], argument[c])
  PROVE  Right(i, argument[c])
<1>1. i \in Places /\ stack[i].from = source[c] /\ stack[i].asked = argument[c]
  BY DEF Cached
<1>2. source[c] # 0
  BY DEF Stored, Typing, Located, TypeOK
<1>3. stack[i] = Constructed(source[c], argument[c])
  BY <1>1, <1>2 DEF Stored, Stacked, Sound
<1> QED BY <1>1, <1>3 DEF Right, Good, Constructed

LEMMA NewRight ==
  ASSUME Stored, NEW c \in Callers, MakeNew(c), ~late', Good(source[c])
  PROVE  /\ ~omitted => Constructed(source[c], argument[c]).type = argument[c]
         /\ caller'[c] = "delegate" => Right(built[c], argument[c])'
<1>0. Len(stack) \in Nat /\ source[c] \in Places /\ argument[c] \in Types
  BY DEF MakeNew, Stored, Typing, TypeOK, Located, Places
<1>1. PICK info \in Infos : info = Constructed(source[c], argument[c])
  BY <1>0, ConstructedTypes DEF Stored, Typing
<1>2. Len(stack') = Len(stack) + 1 /\ stack'[Len(stack) + 1] = info
  BY <1>1, Pushed DEF MakeNew, Stored, Typing, TypeOK
<1>3. /\ info.document = newest
      /\ ~omitted => info.type = argument[c]
  BY <1>1 DEF Good, Constructed
<1>4. ASSUME caller'[c] = "delegate" PROVE Right(built[c], argument[c])'
  <2>1. built'[c] = Len(stack) + 1 /\ argument' = argument /\ newest' = newest /\ omitted' = omitted
    BY <1>4 DEF MakeNew, Build, Go, updaterVars, historyVars, Stored, Typing, TypeOK
  <2>2. Len(stack) + 1 \in Places'
    BY <1>0, <1>2 DEF Places
  <2> QED BY <1>2, <1>3, <2>1, <2>2 DEF Right
<1> QED BY <1>1, <1>3, <1>4

LEMMA OthersKept ==
  ASSUME Stored, NEW c \in Callers, Call(c), NEW d \in Callers, d # c
  PROVE  /\ caller'[d] = caller[d] /\ argument'[d] = argument[d] /\ available'[d] = available[d]
         /\ source'[d] = source[d] /\ built'[d] = built[d] /\ ran'[d] = ran[d]
         /\ d \in alone' => d \in alone
<1> USE DEF Stored, Typing, TypeOK, updaterVars, fields, containers, callerVars, historyVars, Go, Forget
<1>1. ASSUME NEW t \in Types, Enter(c, t) PROVE d \in alone' => d \in alone
  BY <1>1 DEF Enter
<1>2. d \in alone' => d \in alone
  BY <1>1 DEF Call, ReadInfo, Compare, MakeCached, MakeNew, MakeFails, StoreDelegate, StoreVersion, Invoke, Return
<1>3. caller'[d] = caller[d]
  BY DEF Call, Enter, ReadInfo, Compare, MakeCached, MakeNew, MakeFails, Build, StoreDelegate, StoreVersion, Invoke, Return
<1>4. argument'[d] = argument[d] /\ available'[d] = available[d]
  BY DEF Call, Enter, ReadInfo, Compare, MakeCached, MakeNew, MakeFails, StoreDelegate, StoreVersion, Invoke, Return
<1>5. source'[d] = source[d] /\ ran'[d] = ran[d]
  BY DEF Call, Enter, ReadInfo, Compare, MakeCached, MakeNew, MakeFails, StoreDelegate, StoreVersion, Invoke, Return
<1>6. built'[d] = built[d]
  BY DEF Call, Enter, ReadInfo, Compare, MakeCached, MakeNew, MakeFails, Build, StoreDelegate, StoreVersion, Invoke, Return
<1> QED BY <1>2, <1>3, <1>4, <1>5, <1>6

\* Only StoreDelegate writes a delegate, and another that stores the same one is noticed.
LEMMA ContainersKept ==
  ASSUME Stored, NEW c \in Callers, Call(c), NEW t \in Types, t \notin mixed',
         StoreDelegate(c) => argument[c] # t
  PROVE  t \notin mixed /\ delegate'[t] = delegate[t]
<1> USE DEF Stored, Typing, TypeOK, updaterVars, fields, containers, callerVars, historyVars
<1>1. CASE StoreDelegate(c)
  BY <1>1 DEF StoreDelegate
<1>2. CASE ~StoreDelegate(c)
  BY <1>2 DEF Call, Enter, ReadInfo, Compare, MakeCached, MakeNew, MakeFails, StoreVersion, Invoke, Return
<1> QED BY <1>1, <1>2

\* What c itself has in hand after its step.
LEMMA OwnHand ==
  ASSUME IInv, NEW c \in Callers, Call(c), Fresh(c)'
  PROVE  /\ caller'[c] \in {"compare", "make"} => Good(source[c])'
         /\ caller'[c] = "delegate" => Right(built[c], argument[c])'
         /\ caller'[c] = "version" /\ argument'[c] \notin mixed' => Right(delegate[argument[c]], argument[c])'
<1> USE DEF Go, Forget, updaterVars, fields, containers, callerVars, historyVars
<1>0. Stored /\ InHand /\ Extends /\ TypeOK
  BY CallExtends DEF IInv, Stored, Typing
<1>1. ASSUME NEW t \in Types, Enter(c, t)
      PROVE  caller'[c] \in {"return", "info"}
  BY <1>0, <1>1 DEF Enter, TypeOK
<1>2. CASE ReadInfo(c)
  <2>1. caller'[c] = "compare" /\ source'[c] = methodInfo /\ available[c] = version /\ available[c] > 0
    BY <1>0, <1>2 DEF ReadInfo, Fresh, TypeOK, Stored, Typing, Located
  <2>2. Good(methodInfo)
    BY <1>0, <2>1 DEF Fresh, Extends, Stored, Upward
  <2>3. UNCHANGED <<stack, newest, omitted, methodInfo>>
    BY <1>2 DEF ReadInfo
  <2> QED BY <2>1, <2>2, <2>3 DEF Good, Places
<1>3. CASE Compare(c)
  <2>1. CASE caller'[c] = "make"
    <3>1. UNCHANGED <<source, available>> /\ caller[c] = "compare"
      BY <1>0, <1>3, <2>1 DEF Compare, TypeOK
    <3>2. Good(source[c])
      BY <1>0, <3>1 DEF Fresh, InHand, Extends
    <3>3. Good(source[c])'
      BY <1>0, <3>1, <3>2, ExtendsKeeps
    <3> QED BY <2>1, <3>3
  <2>2. caller'[c] \in {"make", "invoke"}
    BY <1>0, <1>3 DEF Compare, TypeOK
  <2> QED BY <2>1, <2>2
<1>4. CASE MakeCached(c)
  <2>1. PICK i \in Cached(source[c], argument[c]) : Build(c, i, stack[i])
    BY <1>4 DEF MakeCached
  <2>2. caller[c] = "make" /\ available[c] = version /\ UNCHANGED argument
    BY <1>0, <1>4 DEF MakeCached, Fresh, Extends
  <2>3. Good(source[c])
    BY <1>0, <2>2 DEF Fresh, InHand, Extends
  <2>4. Right(i, argument[c])
    BY <1>0, <2>2, <2>3, MadeRight
  <2>5. Right(i, argument[c])'
    BY <1>0, <2>2, <2>4, ExtendsKeeps
  <2>6. caller'[c] = "thrown" \/ (caller'[c] = "delegate" /\ built'[c] = i)
    BY <1>0, <2>1 DEF Build, TypeOK
  <2> QED BY <2>5, <2>6
<1>5. CASE MakeNew(c)
  <2>1. caller[c] = "make" /\ available[c] = version /\ caller'[c] \in {"delegate", "thrown"} /\ ~late'
    BY <1>0, <1>5 DEF MakeNew, Build, Fresh, Extends, TypeOK
  <2>2. Good(source[c])
    BY <1>0, <2>1 DEF Fresh, InHand, Extends
  <2> QED BY <1>0, <1>5, <2>1, <2>2, NewRight
<1>6. CASE StoreDelegate(c)
  <2>1. /\ caller[c] = "delegate" /\ caller'[c] = "version" /\ UNCHANGED <<argument, available>>
        /\ argument[c] \in Types /\ delegate'[argument[c]] = built[c]
    BY <1>0, <1>6 DEF StoreDelegate, TypeOK
  <2>2. Right(built[c], argument[c])
    BY <1>0, <2>1 DEF Fresh, InHand, Extends
  <2>3. Right(built[c], argument[c]) => Right(delegate[argument[c]], argument[c])'
    BY <1>6, <2>1 DEF StoreDelegate, Right, Places
  <2> QED BY <2>1, <2>2, <2>3
<1>7. ASSUME StoreVersion(c) \/ Invoke(c) \/ Return(c) \/ MakeFails(c)
      PROVE  caller'[c] \in {"invoke", "return", "idle", "thrown"}
  BY <1>0, <1>7 DEF StoreVersion, Invoke, Return, MakeFails, TypeOK
<1> QED BY <1>1, <1>2, <1>3, <1>4, <1>5, <1>6, <1>7 DEF Call

LEMMA CallInHand == ASSUME IInv, NEW c \in Callers, Call(c) PROVE InHand'
<1>0. Stored /\ InHand /\ Extends /\ Typing'
  BY CallExtends, CallTypes DEF IInv, Stored
<1> SUFFICES ASSUME NEW d \in Callers, Fresh(d)'
             PROVE  /\ caller'[d] \in {"compare", "make"} => Good(source[d])'
                    /\ caller'[d] = "delegate" => Right(built[d], argument[d])'
                    /\ caller'[d] = "version" /\ argument'[d] \notin mixed' =>
                         Right(delegate[argument[d]], argument[d])'
  BY DEF InHand
<1>1. CASE d = c
  BY <1>1, OwnHand
<1>2. CASE d # c
  <2>1. /\ caller'[d] = caller[d] /\ argument'[d] = argument[d] /\ available'[d] = available[d]
        /\ source'[d] = source[d] /\ built'[d] = built[d]
    BY <1>0, <1>2, OthersKept
  <2>2. Fresh(d)
    BY <1>0, <2>1 DEF Fresh, Extends
  <2>3. caller[d] \in {"compare", "make"} => Good(source[d])'
    BY <1>0, <2>1, <2>2, ExtendsKeeps DEF InHand, Good
  <2>4. caller[d] = "delegate" => Right(built[d], argument[d])'
    BY <1>0, <2>1, <2>2, ExtendsKeeps DEF InHand, Right
  <2>5. ASSUME caller[d] = "version", argument[d] \notin mixed' PROVE Right(delegate[argument[d]], argument[d])'
    <3>1. argument[d] \in Types
      BY <1>0, <2>5 DEF Stored, Typing, TypeOK
    <3>2. StoreDelegate(c) => argument[c] # argument[d]
      BY <2>5, <3>1 DEF StoreDelegate, Calling
    <3>3. argument[d] \notin mixed /\ delegate'[argument[d]] = delegate[argument[d]]
      BY <1>0, <2>5, <3>1, <3>2, ContainersKept
    <3>4. Right(delegate[argument[d]], argument[d])
      BY <1>0, <2>2, <2>5, <3>3 DEF InHand
    <3> QED BY <1>0, <2>1, <3>3, <3>4, ExtendsKeeps DEF Right
  <2> QED BY <2>1, <2>3, <2>4, <2>5
<1> QED BY <1>1, <1>2

\* Who stores after a step of c.
LEMMA StoringAfter ==
  ASSUME Stored, NEW c \in Callers, Call(c), NEW t \in Types
  PROVE  /\ ~StoreDelegate(c) => Storing(t)' \subseteq Storing(t)
         /\ ~StoreDelegate(c) /\ (StoreVersion(c) => argument[c] # t) => Storing(t)' = Storing(t)
         /\ StoreDelegate(c) => Storing(t)' = IF argument[c] = t THEN Storing(t) \cup {c} ELSE Storing(t)
         /\ StoreVersion(c) => Storing(t)' = Storing(t) \ {c}
<1> USE DEF Go, Forget, updaterVars, fields, containers, callerVars, historyVars
<1>0. TypeOK /\ Storing(t) = {d \in Callers : caller[d] = "version" /\ argument[d] = t}
      /\ Storing(t)' = {d \in Callers : caller'[d] = "version" /\ argument'[d] = t}
  BY DEF Stored, Typing, Storing, Calling
<1>1. \A d \in Callers : d # c => caller'[d] = caller[d] /\ argument'[d] = argument[d]
  BY OthersKept
<1>2. CASE StoreDelegate(c)
  <2>1. caller[c] = "delegate" /\ caller'[c] = "version" /\ argument' = argument
    BY <1>0, <1>2 DEF StoreDelegate, TypeOK
  <2>2. ~StoreVersion(c)
    BY <2>1 DEF StoreVersion
  <2> QED BY <1>0, <1>1, <1>2, <2>1, <2>2
<1>3. CASE StoreVersion(c)
  <2>1. caller[c] = "version" /\ caller'[c] = "invoke" /\ argument' = argument
    BY <1>0, <1>3 DEF StoreVersion, TypeOK
  <2>2. ~StoreDelegate(c)
    BY <2>1 DEF StoreDelegate
  <2> QED BY <1>0, <1>1, <1>3, <2>1, <2>2
<1>4. CASE ~StoreDelegate(c) /\ ~StoreVersion(c)
  <2>1. ASSUME NEW u \in Types, Enter(c, u) PROVE caller[c] # "version" /\ caller'[c] # "version"
    BY <1>0, <2>1 DEF Enter, TypeOK
  <2>2. caller[c] # "version" /\ caller'[c] # "version"
    BY <1>0, <1>4, <2>1
    DEF Call, ReadInfo, Compare, MakeCached, MakeNew, MakeFails, Build, Invoke, Return, TypeOK
  <2> QED BY <1>0, <1>1, <1>4, <2>2
<1> QED BY <1>2, <1>3, <1>4

LEMMA CallSettled == ASSUME IInv, NEW c \in Callers, Call(c) PROVE Settled'
<1>0. Stored /\ InHand /\ Settled /\ Extends /\ TypeOK
  BY CallExtends DEF IInv, Stored, Typing
<1> SUFFICES ASSUME NEW t \in Types, t \notin mixed'
             PROVE  /\ \A d, e \in Storing(t)' : d = e
                    /\ updater' = "idle" /\ ~late' /\ version' > 0 /\ constructed'[t] = version' /\ Storing(t)' = {} =>
                         Right(delegate[t], t)'
  BY DEF Settled
<1>1. CASE StoreDelegate(c) /\ argument[c] = t
  <2>1. Storing(t) = {}
    BY <1>1 DEF StoreDelegate, Storing
  <2>2. Storing(t)' = {c}
    BY <1>0, <1>1, <2>1, StoringAfter
  <2> QED BY <2>2
<1>2. CASE ~(StoreDelegate(c) /\ argument[c] = t)
  <2>1. t \notin mixed /\ delegate'[t] = delegate[t]
    BY <1>0, <1>2, ContainersKept
  <2>2. Storing(t)' \subseteq Storing(t)
    BY <1>0, <1>2, StoringAfter
  <2>3. \A d, e \in Storing(t)' : d = e
    BY <1>0, <2>1, <2>2 DEF Settled
  <2>4. Right(delegate[t], t) => Right(delegate[t], t)'
    BY <1>0, <2>1, ExtendsKeeps DEF Right
  <2>5. ASSUME updater' = "idle", ~late', version' > 0, constructed'[t] = version', Storing(t)' = {}
        PROVE  Right(delegate[t], t)
    <3>1. updater = "idle" /\ ~late /\ version > 0 /\ version' = version
      BY <1>0, <2>5 DEF Extends
    <3>2. CASE StoreVersion(c) /\ argument[c] = t
      <4>1. available[c] = version /\ caller[c] = "version"
        BY <1>0, <2>5, <3>1, <3>2 DEF StoreVersion, TypeOK
      <4> QED BY <1>0, <2>1, <3>1, <3>2, <4>1 DEF InHand, Fresh
    <3>3. CASE ~(StoreVersion(c) /\ argument[c] = t)
      <4>1. Storing(t)' = Storing(t)
        <5>1. CASE StoreDelegate(c)
          BY <1>0, <1>2, <5>1, StoringAfter
        <5>2. CASE ~StoreDelegate(c)
          BY <1>0, <3>3, <5>2, StoringAfter
        <5> QED BY <5>1, <5>2
      <4>2. constructed'[t] = constructed[t]
        BY <1>0, <3>3 DEF Call, Enter, ReadInfo, Compare, MakeCached, MakeNew, MakeFails, StoreDelegate, StoreVersion, Invoke,
                          Return, TypeOK, containers
      <4> QED BY <1>0, <2>1, <2>5, <3>1, <4>1, <4>2 DEF Settled
    <3> QED BY <3>2, <3>3
  <2> QED BY <2>3, <2>4, <2>5
<1> QED BY <1>1, <1>2

-----------------------------------------------------------------------------
(* What a call that is alone runs *)

\* What is said of a call d in ByItself.
Unmet(d) ==
  /\ updater = "idle"
  /\ caller[d] # "idle"
  /\ Calling(argument[d]) = {d}
  /\ caller[d] \in {"info", "compare", "make", "delegate", "version"} => available[d] = version
  /\ caller[d] = "invoke" /\ ~late /\ argument[d] \notin mixed => Right(delegate[argument[d]], argument[d])
  /\ caller[d] = "return" /\ ~late /\ argument[d] \notin mixed =>
       \/ ran[d] = 0 /\ newest = 0
       \/ Right(ran[d], argument[d])
  /\ caller[d] = "thrown" => late \/ omitted \/ ~NewestGood

LEMMA OtherUnmet ==
  ASSUME IInv, NEW c \in Callers, Call(c), NEW d \in Callers, d # c, d \in alone'
  PROVE  Unmet(d)'
<1> USE DEF Go, Forget, updaterVars, fields, containers, callerVars, historyVars
<1>0. Stored /\ Extends /\ TypeOK
  BY CallExtends DEF IInv, Stored, Typing
<1>1. /\ caller'[d] = caller[d] /\ argument'[d] = argument[d] /\ available'[d] = available[d]
      /\ ran'[d] = ran[d] /\ d \in alone
  BY <1>0, OthersKept
<1>2. Unmet(d)
  BY <1>1 DEF IInv, ByItself, Unmet
<1>3. argument[d] \in Types /\ d \in Calling(argument[d])
  BY <1>0, <1>2 DEF Unmet, TypeOK, Calling
<1>4. caller'[c] = "idle" \/ argument'[c] # argument[d]
  <2>1. ASSUME NEW t \in Types, Enter(c, t) PROVE argument'[c] # argument[d]
    <3>1. argument'[c] = t
      BY <1>0, <2>1 DEF Enter, TypeOK
    <3>2. t # argument[d]
      BY <1>1, <1>3, <2>1 DEF Enter
    <3> QED BY <3>1, <3>2
  <2>2. ASSUME ~(\E t \in Types : Enter(c, t)), ~Return(c) PROVE argument'[c] # argument[d]
    <3>1. argument' = argument /\ caller[c] # "idle"
      BY <2>2 DEF Call, ReadInfo, Compare, MakeCached, MakeNew, MakeFails, StoreDelegate, StoreVersion, Invoke
    <3>2. argument[c] # argument[d]
      BY <1>2, <3>1 DEF Unmet, Calling
    <3> QED BY <3>1, <3>2
  <2>3. Return(c) => caller'[c] = "idle"
    BY <1>0 DEF Return, TypeOK
  <2> QED BY <2>1, <2>2, <2>3
<1>5. Calling(argument[d])' = {d}
  <2>1. \A e \in Callers : e # c => caller'[e] = caller[e] /\ argument'[e] = argument[e]
    BY <1>0, OthersKept
  <2> QED BY <1>1, <1>2, <1>4, <2>1 DEF Unmet, Calling
<1>6. ASSUME argument[d] \notin mixed' PROVE argument[d] \notin mixed /\ delegate'[argument[d]] = delegate[argument[d]]
  <2>1. StoreDelegate(c) => argument[c] # argument[d]
    BY <1>2 DEF StoreDelegate, Unmet, Calling
  <2> QED BY <1>0, <1>3, <1>6, <2>1, ContainersKept
<1>7. updater' = updater /\ version' = version /\ newest' = newest /\ omitted' = omitted /\ (~late' => ~late)
  BY <1>0 DEF Extends
<1>8. /\ Right(delegate[argument[d]], argument[d]) /\ argument[d] \notin mixed' => Right(delegate[argument[d]], argument[d])'
      /\ Right(ran[d], argument[d]) => Right(ran[d], argument[d])'
  BY <1>0, <1>1, <1>6, ExtendsKeeps DEF Right
<1>9. caller[d] = "thrown" => late' \/ omitted' \/ ~NewestGood'
  <2>2. ~NewestGood => ~NewestGood'
    BY <1>0 DEF NewestGood, Extends
  <2>1. late => late'
    BY <1>0 DEF Call, Enter, ReadInfo, Compare, MakeCached, MakeNew, MakeFails, StoreDelegate, StoreVersion, Invoke, Return, TypeOK
  <2> QED BY <1>2, <1>7, <2>1, <2>2 DEF Unmet
<1> QED BY <1>1, <1>2, <1>5, <1>6, <1>7, <1>8, <1>9 DEF Unmet

LEMMA OwnUnmet == ASSUME IInv, NEW c \in Callers, Call(c), c \in alone' PROVE Unmet(c)'
<1> USE DEF Go, Forget, updaterVars, fields, containers, callerVars, historyVars
<1>0. Stored /\ InHand /\ Settled /\ Extends /\ TypeOK /\ Typing'
  BY CallExtends, CallTypes DEF IInv, Stored, Typing
<1>1. \A e \in Callers : e # c => caller'[e] = caller[e] /\ argument'[e] = argument[e]
  BY <1>0, OthersKept
<1>2. ASSUME NEW t \in Types, Enter(c, t) PROVE Unmet(c)'
  <2>1. /\ caller[c] = "idle" /\ argument'[c] = t /\ available'[c] = version /\ caller'[c] \in {"return", "info"}
        /\ caller'[c] = "return" => version = 0
        /\ UNCHANGED <<updater, version, newest, ran, late, mixed>>
    BY <1>0, <1>2 DEF Enter, TypeOK
  <2>2. c \notin alone
    BY <2>1 DEF IInv, ByItself
  <2>3. updater = "idle" /\ Calling(t) = {}
    BY <1>2, <2>2 DEF Enter
  <2>4. Calling(argument[c])' = {c}
    BY <1>1, <2>1, <2>3 DEF Calling
  <2>5. ran[c] = 0
    BY <1>0, <2>1 DEF Stored, Typing, Located
  <2>6. version = 0 => newest = 0
    BY <1>0, <2>3 DEF Stored, Stacked
  <2> QED BY <2>1, <2>3, <2>4, <2>5, <2>6 DEF Unmet
<1>3. ASSUME ~(\E t \in Types : Enter(c, t)) PROVE Unmet(c)'
  <2>1. c \in alone /\ ~Return(c)
    BY <1>3 DEF Call, ReadInfo, Compare, MakeCached, MakeNew, MakeFails, StoreDelegate, StoreVersion, Invoke, Return
  <2>2. Unmet(c)
    BY <2>1 DEF IInv, ByItself, Unmet
  <2>3. argument' = argument /\ argument[c] \in Types
    BY <1>0, <1>3, <2>1, <2>2 DEF Call, ReadInfo, Compare, MakeCached, MakeNew, MakeFails, StoreDelegate, StoreVersion, Invoke,
                                  TypeOK, Unmet
  <2>4. caller'[c] # "idle"
    BY <1>0, <1>3, <2>1 DEF Call, ReadInfo, Compare, MakeCached, MakeNew, MakeFails, Build, StoreDelegate, StoreVersion, Invoke,
                            TypeOK
  <2>5. Calling(argument[c])' = {c}
    BY <1>1, <2>2, <2>3, <2>4 DEF Calling, Unmet
  <2>6. updater' = "idle" /\ version' = version /\ (~late' => ~late) /\ omitted' = omitted
    BY <1>0, <2>2 DEF Extends, Unmet
  <2>7. caller'[c] \in {"info", "compare", "make", "delegate", "version"} => available'[c] = version
    <3>1. CASE available'[c] = available[c]
      BY <1>0, <1>3, <2>1, <2>2, <3>1
      DEF Call, ReadInfo, Compare, MakeCached, MakeNew, MakeFails, Build, StoreDelegate, StoreVersion, Invoke, TypeOK, Unmet
    <3>2. CASE available'[c] # available[c]
      BY <1>0, <1>3, <2>1, <3>2
      DEF Call, ReadInfo, Compare, MakeCached, MakeNew, MakeFails, Build, StoreDelegate, StoreVersion, Invoke, TypeOK
    <3> QED BY <3>1, <3>2
  <2>8. ASSUME caller'[c] = "invoke", ~late', argument[c] \notin mixed'
        PROVE  Right(delegate[argument[c]], argument[c])'
    <3>1. CASE Compare(c)
      <4>1. constructed[argument[c]] = version /\ UNCHANGED <<delegate, mixed>> /\ caller[c] = "compare"
        BY <1>0, <2>2, <2>8, <3>1 DEF Compare, TypeOK, Unmet
      <4>2. version > 0
        BY <1>0, <2>2, <4>1 DEF Unmet, Stored, Typing, Located, TypeOK
      <4>3. Storing(argument[c]) = {}
        BY <2>2, <4>1 DEF Unmet, Storing
      <4>4. Right(delegate[argument[c]], argument[c])
        BY <1>0, <2>2, <2>3, <2>6, <2>8, <4>1, <4>2, <4>3 DEF Settled, Unmet
      <4> QED BY <1>0, <2>3, <4>1, <4>4, ExtendsKeeps DEF Right
    <3>2. CASE StoreVersion(c)
      <4>1. caller[c] = "version" /\ available[c] = version /\ UNCHANGED <<delegate, mixed>>
        BY <2>2, <3>2 DEF StoreVersion, Unmet
      <4>2. Right(delegate[argument[c]], argument[c])
        BY <1>0, <2>2, <2>6, <2>8, <4>1 DEF InHand, Fresh, Unmet
      <4> QED BY <1>0, <2>3, <4>1, <4>2, ExtendsKeeps DEF Right
    <3>3. Compare(c) \/ StoreVersion(c)
      BY <1>0, <1>3, <2>1, <2>8 DEF Call, ReadInfo, MakeCached, MakeNew, MakeFails, Build, StoreDelegate, Invoke, TypeOK
    <3> QED BY <3>1, <3>2, <3>3
  <2>9. ASSUME caller'[c] = "return", ~late', argument[c] \notin mixed'
        PROVE  Right(ran[c], argument[c])'
    <3>1. Invoke(c)
      BY <1>0, <1>3, <2>1, <2>9
      DEF Call, ReadInfo, Compare, MakeCached, MakeNew, MakeFails, Build, StoreDelegate, StoreVersion, TypeOK
    <3>2. caller[c] = "invoke" /\ ran'[c] = delegate[argument[c]] /\ mixed' = mixed
      BY <1>0, <3>1 DEF Invoke, TypeOK
    <3>3. Right(delegate[argument[c]], argument[c])
      BY <2>2, <2>6, <2>9, <3>2 DEF Unmet
    <3> QED BY <1>0, <2>3, <3>2, <3>3, ExtendsKeeps DEF Right
  <2>10. ASSUME caller'[c] = "thrown", ~late', ~omitted PROVE ~NewestGood'
    <3>1. caller[c] = "make" /\ available[c] = version
      BY <1>0, <1>3, <2>1, <2>2, <2>10
      DEF Call, ReadInfo, Compare, MakeCached, MakeNew, MakeFails, Build, StoreDelegate, StoreVersion, Invoke, TypeOK, Unmet
    <3>2. Good(source[c])
      BY <1>0, <2>2, <2>6, <2>10, <3>1 DEF InHand, Fresh, Unmet
    <3>3. CASE MakeCached(c)
      <4>1. PICK i \in Cached(source[c], argument[c]) : Build(c, i, stack[i])
        BY <3>3 DEF MakeCached
      <4>2. Right(i, argument[c])
        BY <1>0, <3>1, <3>2, MadeRight
      <4>3. stack[i].body # "good"
        BY <1>0, <2>10, <4>1, <4>2 DEF Build, Fits, Right, TypeOK
      <4> QED BY <1>0, <4>2, <4>3 DEF Right, NewestGood, Extends
    <3>4. CASE MakeNew(c)
      <4>1. Constructed(source[c], argument[c]).type = argument[c]
        BY <1>0, <2>10, <3>2, <3>4, NewRight
      <4>2. Constructed(source[c], argument[c]).body # "good"
        BY <1>0, <2>10, <3>4, <4>1 DEF MakeNew, Build, Fits, TypeOK
      <4>3. stack[source[c]].body # "good"
        BY <4>2 DEF Constructed
      <4> QED BY <1>0, <3>2, <4>3 DEF Good, NewestGood, Extends
    <3>5. CASE MakeFails(c)
      BY <1>0, <3>2, <3>5 DEF MakeFails, Good, NewestGood, Extends
    <3>6. MakeCached(c) \/ MakeNew(c) \/ MakeFails(c)
      BY <1>3, <2>1, <3>1 DEF Call, ReadInfo, Compare, StoreDelegate, StoreVersion, Invoke
    <3> QED BY <3>3, <3>4, <3>5, <3>6
  <2> QED BY <2>3, <2>4, <2>5, <2>6, <2>7, <2>8, <2>9, <2>10 DEF Unmet
<1> QED BY <1>2, <1>3

LEMMA CallByItself == ASSUME IInv, NEW c \in Callers, Call(c) PROVE ByItself'
<1>1. ASSUME NEW d \in alone' PROVE Unmet(d)'
  <2>1. d \in Callers
    BY CallTypes DEF IInv, Stored, Typing, TypeOK
  <2> QED BY <1>1, <2>1, OwnUnmet, OtherUnmet
<1> QED BY <1>1 DEF ByItself, Unmet

\* While a walk is under way nobody has the last version, and nobody is alone.
LEMMA UpdateHands == ASSUME IInv, Update PROVE InHand' /\ Settled' /\ ByItself'
<1> USE DEF fields, containers, callerVars, historyVars
<1>0. Stored /\ Settled /\ ByItself /\ TypeOK /\ version \in Nat
  BY DEF IInv, Stored, Typing, TypeOK
<1>1. UNCHANGED <<caller, argument, available, constructed, mixed>>
  BY DEF Update, Receive, ReceiveOther, Enumerate, StoreInfo, Bump
<1>2. \A t \in Types : Storing(t)' = Storing(t)
  BY <1>1 DEF Storing, Calling
<1>3. updater' = "idle" => version' = version + 1
  BY DEF Update, Receive, ReceiveOther, Enumerate, StoreInfo, Bump
<1>4. \A c \in Callers : ~Fresh(c)'
  BY <1>0, <1>1, <1>3 DEF Fresh, TypeOK
<1>5. InHand'
  BY <1>4 DEF InHand
<1>6. \A t \in Types : constructed[t] \in 0..version
  BY <1>0 DEF TypeOK
<1>7. ASSUME NEW t \in Types, updater' = "idle" PROVE constructed'[t] # version'
  <2>1. constructed[t] \in 0..version /\ constructed'[t] = constructed[t] /\ version' = version + 1
    BY <1>1, <1>3, <1>6, <1>7
  <2> QED BY <1>0, <2>1
<1>8. Settled'
  BY <1>0, <1>1, <1>2, <1>7 DEF Settled
<1>9. alone' = {}
  BY <1>0 DEF ByItself, Update, Receive, ReceiveOther, Enumerate, StoreInfo, Bump
<1> QED BY <1>5, <1>8, <1>9 DEF ByItself

LEMMA InitInv == Init => IInv
<1> SUFFICES ASSUME Init PROVE IInv
  OBVIOUS
<1>1. Stored
  BY InitStored
<1>2. InHand /\ Settled /\ ByItself
  BY DEF Init, InHand, Settled, ByItself, Storing, Calling
<1> QED BY <1>1, <1>2 DEF IInv

LEMMA StepInv == ASSUME IInv, [Next]_vars PROVE IInv'
<1>1. ASSUME Update PROVE IInv'
  BY <1>1, UpdateTypes, UpdateStored, UpdateHands DEF IInv, Stored
<1>2. ASSUME NEW c \in Callers, Call(c) PROVE IInv'
  BY <1>2, CallTypes, CallStored, CallInHand, CallSettled, CallByItself DEF IInv, Stored
<1>3. ASSUME UNCHANGED vars PROVE IInv'
  <2> USE <1>3 DEF vars, updaterVars, fields, containers, callerVars, historyVars
  <2>1. Typing' /\ Stacked' /\ Upward'
    BY StutterTypes, StackKept DEF IInv, Stored
  <2>2. InHand' /\ Settled' /\ ByItself'
    BY DEF IInv, InHand, Settled, ByItself, Fresh, Storing, Calling, Good, Right, Places, NewestGood
  <2> QED BY <2>1, <2>2 DEF IInv, Stored
<1> QED BY <1>1, <1>2, <1>3 DEF Next

(* A call that nothing meets runs the newest body: a caller that has the     *)
(* last version has read the newest info, its delegate is of that info, and  *)
(* with the last version there is no delegate of another - unless two        *)
(* callers have stored at the same time.                                     *)
THEOREM NewestIsRun == Spec => []NewestRuns
<1>1. IInv => NewestRuns
  <2>1. ASSUME IInv, NEW c \in alone, caller[c] = "return", ~late, argument[c] \notin mixed
        PROVE  Body(ran[c]) = newest
    BY <2>1 DEF IInv, ByItself, Right, Places, Body
  <2> QED BY <2>1 DEF NewestRuns
<1> QED BY <1>1, InitInv, StepInv, PTL DEF Spec

(* Such a call gets a body for its own type argument, and an exception only  *)
(* if the newest body cannot be compiled, as long as every document has the  *)
(* method.                                                                   *)
THEOREM OwnTypeIsRun == Spec => []OwnType
<1>1. IInv => OwnType
  <2>1. ASSUME IInv, NEW c \in alone, caller[c] \in {"return", "thrown"}, ~late, ~omitted, argument[c] \notin mixed
        PROVE  /\ caller[c] = "thrown" => ~NewestGood
               /\ ran[c] # 0 => stack[ran[c]].type = argument[c]
    <3>1. c \in Callers
      BY <2>1 DEF IInv, Stored, Typing, TypeOK
    <3>2. CASE caller[c] = "thrown"
      BY <2>1, <3>1, <3>2 DEF IInv, ByItself, Stored, Typing, Located
    <3>3. CASE caller[c] = "return"
      BY <2>1, <3>3 DEF IInv, ByItself, Right
    <3> QED BY <2>1, <3>2, <3>3
  <2> QED BY <2>1 DEF OwnType
<1> QED BY <1>1, InitInv, StepInv, PTL DEF Spec
=============================================================================
