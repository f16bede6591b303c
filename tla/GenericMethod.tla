--------------------------- MODULE GenericMethod ---------------------------
(***************************************************************************)
(* How the runtime replaces one generic method of a class that is not      *)
(* generic itself.                                                         *)
(*                                                                         *)
(* The delegate of a generic method depends on its type argument, so an    *)
(* update does not write it: the receiving thread stores the newest method *)
(* info and bumps a version, and the injected prologue lets every caller   *)
(* construct a delegate when the version is not the one its delegate was   *)
(* constructed for.  The constructed method is a method info too, and goes *)
(* to the top of the same stack of the type's methods that every later     *)
(* document of the type walks from the bottom to the top.  Nothing orders  *)
(* the receiving thread and the callers.                                   *)
(*                                                                         *)
(* The assembly has been loaded.  A method info is its place in the stack; *)
(* the infos of the type's other methods are left out of the stack, and of *)
(* a body only whether it can be read and compiled is kept.                *)
(***************************************************************************)
EXTENDS Naturals, Sequences

CONSTANTS
  Callers,      \* threads of the application that call the method
  Types,        \* the type arguments they call it with
  None,
  MaxDocuments  \* bound: how many documents of the type arrive

ASSUME GenericMethodAssumption ==
  /\ None \notin Types \cup Callers
  /\ MaxDocuments \in Nat

VARIABLES
  shown,       \* the parameters or the return type mention the type argument
  received,    \* how many documents have been received
  newest,      \* the last of them that has the method; 0 is the compiled body
  updater,     \* where the receiving thread is
  walk,        \* the walk over the stack: the place it is at, and the last
  stack,       \* VirtualMethods: the infos of the method
  methodInfo,  \* the static field with the info to construct from
  version,     \* the static version field
  delegate,    \* __delegate of each type argument: the info it runs
  constructed, \* __constructedDelegateVersion of each type argument
  caller,      \* where each caller is
  argument,    \* the type argument it calls with
  available,   \* the version it has read
  source,      \* the info it has read
  built,       \* the info whose delegate it has made
  ran,         \* history: the info it has run; 0 is the compiled body
  alone,       \* history: no document and no other call with the same argument has met the call
  late,        \* history: a method has been constructed from an older document than the newest
  mixed,       \* history: arguments for which two callers have stored at the same time
  omitted      \* history: a document without the method has come after the newest

updaterVars == <<received, newest, updater, walk>>
fields == <<methodInfo, version>>
containers == <<delegate, constructed>>
callerVars == <<caller, argument, available, source, built, ran>>
historyVars == <<alone, late, mixed, omitted>>
vars == <<shown, updaterVars, stack, fields, containers, callerVars, historyVars>>

-----------------------------------------------------------------------------
(* Method infos *)

Documents == 1..MaxDocuments

\* A body may be IL that the runtime cannot read, or cannot compile.
Bodies == {"good", "broken", "unreadable"}

\* The document a method info comes from and its body; the type argument that
\* has been put into its parameters and its body, None for the method as it
\* came; and the info and the argument it is cached under.
Infos == [document : Documents, body : Bodies, type : Types \cup {None}, from : Nat, asked : Types \cup {None}]

Definition(n, body) == [document |-> n, body |-> body, type |-> None, from |-> 0, asked |-> None]

\* MakeGenericMethod of a method without generic parameters leaves them as they are.
Constructed(i, t) ==
  [document |-> stack[i].document, body |-> stack[i].body,
   type |-> IF stack[i].type = None THEN t ELSE stack[i].type,
   from |-> i, asked |-> t]

Places == 1..Len(stack)

\* The document whose body a call has run.
Body(i) == IF i = 0 THEN 0 ELSE stack[i].document

-----------------------------------------------------------------------------

\* The variables take these values.
TypeOK ==
  /\ shown \in BOOLEAN
  /\ received \in 0..MaxDocuments
  /\ newest \in 0..received
  /\ updater \in {"idle", "enumerate", "store", "bump"}
  /\ walk \in [at : Nat, last : 0..Len(stack)]
  /\ walk.at <= walk.last
  /\ updater \in {"store", "bump"} => walk.at > 0
  /\ stack \in Seq(Infos)
  /\ methodInfo \in 0..Len(stack)
  /\ version \in Nat
  /\ version > 0 => methodInfo > 0
  /\ delegate \in [Types -> 0..Len(stack)]
  /\ constructed \in [Types -> 0..version]
  /\ caller \in [Callers -> {"idle", "info", "compare", "make", "delegate", "version", "invoke", "return", "thrown"}]
  /\ argument \in [Callers -> Types \cup {None}]
  /\ \A c \in Callers : caller[c] # "idle" => argument[c] \in Types
  /\ available \in [Callers -> 0..version]
  /\ source \in [Callers -> 0..Len(stack)]
  /\ built \in [Callers -> 0..Len(stack)]
  /\ ran \in [Callers -> 0..Len(stack)]
  /\ alone \subseteq Callers
  /\ late \in BOOLEAN
  /\ mixed \subseteq Types
  /\ omitted \in BOOLEAN

Init ==
  /\ shown \in BOOLEAN
  /\ received = 0 /\ newest = 0 /\ updater = "idle" /\ walk = [at |-> 0, last |-> 0]
  /\ stack = <<>> /\ methodInfo = 0 /\ version = 0
  /\ delegate = [t \in Types |-> 0]
  /\ constructed = [t \in Types |-> 0]
  /\ caller = [c \in Callers |-> "idle"]
  /\ argument = [c \in Callers |-> None]
  /\ available = [c \in Callers |-> 0]
  /\ source = [c \in Callers |-> 0]
  /\ built = [c \in Callers |-> 0]
  /\ ran = [c \in Callers |-> 0]
  /\ alone = {} /\ late = FALSE /\ mixed = {} /\ omitted = FALSE

-----------------------------------------------------------------------------
(* The receiving thread: a document of the type.                            *)

\* CreateVirtualMethodInfo: the new info goes to the top of the stack.
Receive(body) ==
  /\ updater = "idle"
  /\ received < MaxDocuments
  /\ received' = received + 1
  /\ newest' = received'
  /\ stack' = Append(stack, Definition(received', body))
  /\ updater' = "enumerate"
  /\ alone' = {}
  /\ late' = FALSE
  /\ omitted' = FALSE
  /\ UNCHANGED <<shown, walk, fields, containers, callerVars, mixed>>

\* The document has other methods of the type only.
ReceiveOther ==
  /\ updater = "idle"
  /\ received < MaxDocuments
  /\ newest # 0
  /\ received' = received + 1
  /\ updater' = "enumerate"
  /\ alone' = {}
  /\ omitted' = TRUE
  /\ UNCHANGED <<shown, newest, walk, stack, fields, containers, callerVars, late, mixed>>

\* VirtualMethods.Reverse copies the stack.
Enumerate ==
  /\ updater = "enumerate"
  /\ walk' = [at |-> 1, last |-> Len(stack)]
  /\ updater' = "store"
  /\ UNCHANGED <<shown, received, newest, stack, fields, containers, callerVars, historyVars>>

\* Mutant: an info is stored only where there is none yet.
StoreFirstInfo ==
  /\ updater = "store"
  /\ methodInfo' = IF methodInfo = 0 THEN walk.at ELSE methodInfo
  /\ updater' = "bump"
  /\ UNCHANGED <<shown, received, newest, walk, stack, version, containers, callerVars, historyVars>>

StoreInfo ==
  /\ updater = "store"
  /\ methodInfo' = walk.at
  /\ updater' = "bump"
  /\ UNCHANGED <<shown, received, newest, walk, stack, version, containers, callerVars, historyVars>>

Bump ==
  /\ updater = "bump"
  /\ version' = version + 1
  /\ IF walk.at = walk.last
     THEN updater' = "idle" /\ walk' = [at |-> 0, last |-> 0]
     ELSE updater' = "store" /\ walk' = [walk EXCEPT !.at = @ + 1]
  /\ UNCHANGED <<shown, received, newest, stack, methodInfo, containers, callerVars, historyVars>>

Update == (\E body \in Bodies : Receive(body)) \/ ReceiveOther \/ Enumerate \/ StoreInfo \/ Bump

-----------------------------------------------------------------------------
(* A caller: the injected prologue, and TryUpdateGenericDelegate.           *)

Calling(t) == {c \in Callers : caller[c] # "idle" /\ argument[c] = t}

Go(c, place) == caller' = [caller EXCEPT ![c] = place]

\* What a caller has read is 0 again when it has no more use for it.
Forget(c) == source' = [source EXCEPT ![c] = 0]

\* Without an update the compiled body runs.
Enter(c, t) ==
  /\ caller[c] = "idle"
  /\ argument' = [argument EXCEPT ![c] = t]
  /\ available' = [available EXCEPT ![c] = version]
  /\ Go(c, IF version = 0 THEN "return" ELSE "info")
  /\ alone' = IF updater = "idle" /\ Calling(t) = {} THEN alone \cup {c} ELSE alone \ Calling(t)
  /\ UNCHANGED <<shown, updaterVars, stack, fields, containers, source, built, ran, late, mixed, omitted>>

ReadInfo(c) ==
  /\ caller[c] = "info"
  /\ source' = [source EXCEPT ![c] = methodInfo]
  /\ Go(c, "compare")
  /\ UNCHANGED <<shown, updaterVars, stack, fields, containers, argument, available, built, ran, historyVars>>

\* Mutant: a delegate that has been constructed stays.
CompareOnce(c) ==
  /\ caller[c] = "compare"
  /\ IF constructed[argument[c]] # 0
     THEN Go(c, "invoke") /\ available' = [available EXCEPT ![c] = 0] /\ Forget(c)
     ELSE Go(c, "make") /\ UNCHANGED <<available, source>>
  /\ UNCHANGED <<shown, updaterVars, stack, fields, containers, argument, built, ran, historyVars>>

Compare(c) ==
  /\ caller[c] = "compare"
  /\ IF available[c] = constructed[argument[c]]
     THEN Go(c, "invoke") /\ available' = [available EXCEPT ![c] = 0] /\ Forget(c)
     ELSE Go(c, "make") /\ UNCHANGED <<available, source>>
  /\ UNCHANGED <<shown, updaterVars, stack, fields, containers, argument, built, ran, historyVars>>

\* Mutant: _constructedMethodCache does not tell the type arguments apart.
CachedForAny(i, t) == {j \in Places : stack[j].from = i}

\* _constructedMethodCache of an info.
Cached(i, t) == {j \in Places : stack[j].from = i /\ stack[j].asked = t}

\* Its delegate is of the type the caller needs; where the type argument does
\* not show in the signature every delegate is.
Fits(info, t) == info.type = t \/ ~shown

\* CreateDelegate throws when the body does not compile or the delegate does
\* not fit; the exception leaves the call.
Build(c, i, info) ==
  IF info.body = "good" /\ Fits(info, argument[c])
  THEN built' = [built EXCEPT ![c] = i] /\ Go(c, "delegate")
  ELSE Go(c, "thrown") /\ UNCHANGED built

\* MakeGenericMethod and GetDelegate.
MakeCached(c) ==
  /\ caller[c] = "make"
  /\ \E i \in Cached(source[c], argument[c]) : Build(c, i, stack[i])
  /\ Forget(c)
  /\ UNCHANGED <<shown, updaterVars, stack, fields, containers, argument, available, ran, historyVars>>

\* The constructor of a method info pushes it.  Two callers at once may both
\* make the same method; the second info is as good as the first.
MakeNew(c) ==
  LET info == Constructed(source[c], argument[c]) IN
  /\ caller[c] = "make"
  /\ Cached(source[c], argument[c]) = {}
  /\ info.body # "unreadable"
  /\ stack' = Append(stack, info)
  /\ Build(c, Len(stack) + 1, info)
  /\ Forget(c)
  /\ late' = (late \/ info.document # newest)
  /\ UNCHANGED <<shown, updaterVars, fields, containers, argument, available, ran, alone, mixed, omitted>>

\* GetMethodBody throws before there is a new info.
MakeFails(c) ==
  /\ caller[c] = "make"
  /\ Cached(source[c], argument[c]) = {}
  /\ stack[source[c]].body = "unreadable"
  /\ Go(c, "thrown")
  /\ Forget(c)
  /\ UNCHANGED <<shown, updaterVars, stack, fields, containers, argument, available, built, ran, historyVars>>

StoreDelegate(c) ==
  LET t == argument[c] IN
  /\ caller[c] = "delegate"
  /\ delegate' = [delegate EXCEPT ![t] = built[c]]
  /\ built' = [built EXCEPT ![c] = 0]
  /\ Go(c, "version")
  /\ mixed' = IF \E d \in Calling(t) : caller[d] = "version" THEN mixed \cup {t} ELSE mixed \ {t}
  /\ UNCHANGED <<shown, updaterVars, stack, fields, constructed, argument, available, source, ran,
                 alone, late, omitted>>

StoreVersion(c) ==
  /\ caller[c] = "version"
  /\ constructed' = [constructed EXCEPT ![argument[c]] = available[c]]
  /\ available' = [available EXCEPT ![c] = 0]
  /\ Go(c, "invoke")
  /\ UNCHANGED <<shown, updaterVars, stack, fields, delegate, argument, source, built, ran, historyVars>>

Invoke(c) ==
  /\ caller[c] = "invoke"
  /\ ran' = [ran EXCEPT ![c] = delegate[argument[c]]]
  /\ Go(c, "return")
  /\ UNCHANGED <<shown, updaterVars, stack, fields, containers, argument, available, source, built,
                 historyVars>>

\* The call is over, with a result or with an exception.
Return(c) ==
  /\ caller[c] \in {"return", "thrown"}
  /\ Go(c, "idle")
  /\ argument' = [argument EXCEPT ![c] = None]
  /\ available' = [available EXCEPT ![c] = 0]
  /\ ran' = [ran EXCEPT ![c] = 0]
  /\ alone' = alone \ {c}
  /\ UNCHANGED <<shown, updaterVars, stack, fields, containers, source, built, late, mixed, omitted>>

Call(c) ==
  \/ \E t \in Types : Enter(c, t)
  \/ ReadInfo(c) \/ Compare(c) \/ MakeCached(c) \/ MakeNew(c) \/ MakeFails(c)
  \/ StoreDelegate(c) \/ StoreVersion(c) \/ Invoke(c) \/ Return(c)

-----------------------------------------------------------------------------

Next == Update \/ \E c \in Callers : Call(c)

Spec == Init /\ [][Next]_vars

-----------------------------------------------------------------------------
(* Properties *)

(* ProcessUpdate walks over every info the type has ever been given, old     *)
(* ones first, and for a moment an old one is stored again.  When the walk   *)
(* is over the stored info is of the newest document that has the method -   *)
(* unless a caller that had read an older one constructed a method from it   *)
(* after that document came: it is above the newest in the stack, and every  *)
(* later walk stores it.                                                     *)
NewestStored ==
  updater = "idle" /\ version > 0 /\ ~late => stack[methodInfo].document = newest

(* A call that no document and no other call with the same type argument     *)
(* meets runs the newest body, whatever the calls before it have left behind:*)
(* a delegate stored by a slow caller, a version that is not the one its     *)
(* delegate was constructed for, methods constructed in the middle of a      *)
(* walk.  Not where two callers have stored the delegate and the version of  *)
(* the type argument crosswise, which leaves the old delegate with the newest*)
(* version.                                                                  *)
NewestRuns ==
  \A c \in alone :
    caller[c] = "return" /\ ~late /\ argument[c] \notin mixed => Body(ran[c]) = newest

\* The newest document's body can be read and compiled.
NewestGood == \A i \in Places : stack[i].document = newest => stack[i].body = "good"

(* Such a call runs a body for its own type argument, and it ends with an    *)
(* exception of the compiler only if the newest body is one that cannot be   *)
(* compiled, whatever older bodies could not - as long as every document of  *)
(* the type has the method: after one that has not, the info on top of the   *)
(* stack and so the one that is stored is a method constructed for one type  *)
(* argument, and the others are constructed from that.                       *)
OwnType ==
  \A c \in alone :
    caller[c] \in {"return", "thrown"} /\ ~late /\ ~omitted /\ argument[c] \notin mixed =>
      /\ caller[c] = "thrown" => ~NewestGood
      /\ ran[c] # 0 => stack[ran[c]].type = argument[c]
=============================================================================
