-------------------------- MODULE MatchmakingProofs --------------------------
(***************************************************************************)
(* Proofs about Matchmaking for any set of projects and requests: type     *)
(* correctness, the two safety invariants, and that the service implements *)
(* WorkspaceDirectory.                                                     *)
(***************************************************************************)
EXTENDS Matchmaking, TLAPS

\* A request that goes on to write an entry back, or to register one, has it:
\* without this the types of found and reply are not inductive.
Pending ==
  \A r \in Requests : /\ pc[r] = "refresh" => found[r] # None
                      /\ pc[r] = "register" => reply[r] # None

TypeInv == TypeOK /\ Pending

\* What AddressOfProject needs of the requests' locals to be inductive: an
\* entry that was looked up is still one of its project when it is written
\* back, whatever happened to the dictionary in between.
FoundOfProject ==
  \A r \in Requests : found[r] # None =>
    /\ found[r].address \in posted
    /\ project[found[r].address] = project[r]
    /\ project[found[r].process] = project[r]

AddressInv == AddressOfProject /\ FoundOfProject

-----------------------------------------------------------------------------
LEMMA InitTypeInv == Init => TypeInv
BY DEF Init, TypeInv, TypeOK, Pending, Steps

LEMMA NextTypeInv == TypeInv /\ [Next]_vars => TypeInv'
<1> SUFFICES ASSUME TypeInv, [Next]_vars PROVE TypeInv'
  OBVIOUS
<1>1. ASSUME NEW r \in Requests, Arrive(r) PROVE TypeInv'
  BY <1>1 DEF Arrive, Goto, TypeInv, TypeOK, Pending, Steps, requestVars
<1>2. ASSUME NEW r \in Requests, CheckWaiting(r) PROVE TypeInv'
  BY <1>2 DEF CheckWaiting, Goto, TypeInv, TypeOK, Pending, Steps, requestVars
<1>3. ASSUME NEW r \in Requests, LookUp(r) PROVE TypeInv'
  BY <1>3
     DEF LookUp, Goto, TypeInv, TypeOK, Pending, Steps, requestVars, WorkspaceInfo
<1>4. ASSUME NEW r \in Requests, Refresh(r) PROVE TypeInv'
  BY <1>4
     DEF Refresh, Goto, TypeInv, TypeOK, Pending, Steps, requestVars, WorkspaceInfo
<1>5. ASSUME NEW r \in Requests, Evict(r) PROVE TypeInv'
  BY <1>5 DEF Evict, Goto, TypeInv, TypeOK, Pending, Steps, requestVars
<1>6. ASSUME NEW r \in Requests, Mark(r) PROVE TypeInv'
  BY <1>6 DEF Mark, Goto, TypeInv, TypeOK, Pending, Steps, requestVars
<1>7. ASSUME NEW r \in Requests, StartProcess(r) \/ StartFails(r)
      PROVE  TypeInv'
  BY <1>7 DEF StartProcess, StartFails, Goto, TypeInv, TypeOK, Pending, Steps, requestVars
<1>8. ASSUME NEW r \in Requests, Subscribe(r) PROVE TypeInv'
  BY <1>8 DEF Subscribe, Goto, TypeInv, TypeOK, Pending, Steps, requestVars
<1>9. ASSUME NEW r \in Requests, Timeout(r) PROVE TypeInv'
  BY <1>9 DEF Timeout, Goto, TypeInv, TypeOK, Pending, Steps, requestVars
<1>10. ASSUME NEW r \in Requests, Register(r) PROVE TypeInv'
  BY <1>10
     DEF Register, Goto, TypeInv, TypeOK, Pending, Steps, requestVars, WorkspaceInfo
<1>11. ASSUME NEW r \in Requests, Leave(r) PROVE TypeInv'
  BY <1>11 DEF Leave, Goto, TypeInv, TypeOK, Pending, Steps, requestVars
<1>12. ASSUME NEW r \in Requests, PostAddress(r) PROVE TypeInv'
  BY <1>12, MatchmakingAssumption
     DEF PostAddress, Goto, TypeInv, TypeOK, Pending, Steps, requestVars, Hears
<1>13. ASSUME NEW r \in Requests, StopPosting(r) PROVE TypeInv'
  BY <1>13 DEF StopPosting, Goto, TypeInv, TypeOK, Pending, Steps, requestVars
<1>14. ASSUME NEW r \in Requests, Exit(r) PROVE TypeInv'
  BY <1>14 DEF Exit, Goto, TypeInv, TypeOK, Pending, Steps, requestVars
<1>15. ASSUME NEW e \in Projects \X Requests, SweepOne(e) PROVE TypeInv'
  BY <1>15 DEF SweepOne, Goto, TypeInv, TypeOK, Pending, Steps, requestVars
<1>16. ASSUME NEW e \in Projects \X Requests, StopWorkspace(e) PROVE TypeInv'
  BY <1>16 DEF StopWorkspace, Goto, TypeInv, TypeOK, Pending, Steps, requestVars
<1>17. CASE SweepStart
  BY <1>17
     DEF SweepStart, Goto, TypeInv, TypeOK, Pending, Steps, requestVars, Listed
<1>18. CASE RenderPage
  BY <1>18
     DEF RenderPage, Goto, TypeInv, TypeOK, Pending, Steps, requestVars, Listed
<1>19. CASE UNCHANGED vars
  BY <1>19 DEF vars, Goto, TypeInv, TypeOK, Pending, Steps, requestVars
<1>20. QED
  BY <1>1, <1>2, <1>3, <1>4, <1>5, <1>6, <1>7, <1>8, <1>9, <1>10, <1>11, <1>12,
     <1>13, <1>14, <1>15, <1>16, <1>17, <1>18, <1>19
     DEF Next, RequestStep, Sweeper

(* Every variable keeps its type: no step of a request, a process, the     *)
(* sweeper or the page leaves the states the service is written for.       *)
THEOREM TypeCorrect == Spec => []TypeOK
<1>1. TypeInv => TypeOK
  BY DEF TypeInv
<1>2. QED
  BY <1>1, InitTypeInv, NextTypeInv, PTL DEF Spec

(* No project is locked out: the flag never outlives the requests that are *)
(* loading, for any number of them, whichever of them clears it.           *)
THEOREM FlagSafe == Spec => []NoOrphanFlag
<1>1. Init => NoOrphanFlag
  BY DEF Init, NoOrphanFlag
<1>2. TypeInv /\ NoOrphanFlag /\ [Next]_vars => NoOrphanFlag'
  <2> SUFFICES ASSUME TypeInv, NoOrphanFlag, [Next]_vars PROVE NoOrphanFlag'
    OBVIOUS
  <2>1. ASSUME NEW r \in Requests, Arrive(r) PROVE NoOrphanFlag'
    BY <2>1 DEF Arrive, Goto, TypeInv, TypeOK, NoOrphanFlag, Loading, requestVars
  <2>2. ASSUME NEW r \in Requests, CheckWaiting(r) PROVE NoOrphanFlag'
    BY <2>2
       DEF CheckWaiting, Goto, TypeInv, TypeOK, NoOrphanFlag, Loading, requestVars
  <2>3. ASSUME NEW r \in Requests, LookUp(r) PROVE NoOrphanFlag'
    BY <2>3 DEF LookUp, Goto, TypeInv, TypeOK, NoOrphanFlag, Loading, requestVars
  <2>4. ASSUME NEW r \in Requests, Refresh(r) PROVE NoOrphanFlag'
    BY <2>4 DEF Refresh, Goto, TypeInv, TypeOK, NoOrphanFlag, Loading, requestVars
  <2>5. ASSUME NEW r \in Requests, Evict(r) PROVE NoOrphanFlag'
    BY <2>5 DEF Evict, Goto, TypeInv, TypeOK, NoOrphanFlag, Loading, requestVars
  <2>6. ASSUME NEW r \in Requests, Mark(r) PROVE NoOrphanFlag'
    BY <2>6 DEF Mark, Goto, TypeInv, TypeOK, NoOrphanFlag, Loading, requestVars
  <2>7. ASSUME NEW r \in Requests, StartProcess(r) \/ StartFails(r)
       PROVE  NoOrphanFlag'
    BY <2>7
       DEF StartProcess, StartFails, Goto, TypeInv, TypeOK, NoOrphanFlag, Loading, requestVars
  <2>8. ASSUME NEW r \in Requests, Subscribe(r) PROVE NoOrphanFlag'
    BY <2>8 DEF Subscribe, Goto, TypeInv, TypeOK, NoOrphanFlag, Loading, requestVars
  <2>9. ASSUME NEW r \in Requests, Timeout(r) PROVE NoOrphanFlag'
    BY <2>9 DEF Timeout, Goto, TypeInv, TypeOK, NoOrphanFlag, Loading, requestVars
  <2>10. ASSUME NEW r \in Requests, Register(r) PROVE NoOrphanFlag'
    BY <2>10 DEF Register, Goto, TypeInv, TypeOK, NoOrphanFlag, Loading, requestVars
  <2>11. ASSUME NEW r \in Requests, Leave(r) PROVE NoOrphanFlag'
    BY <2>11 DEF Leave, Goto, TypeInv, TypeOK, NoOrphanFlag, Loading, requestVars
  <2>12. ASSUME NEW r \in Requests, PostAddress(r) PROVE NoOrphanFlag'
    BY <2>12, MatchmakingAssumption
       DEF PostAddress, Goto, TypeInv, TypeOK, NoOrphanFlag, Loading, requestVars,
       Hears
  <2>13. ASSUME NEW r \in Requests, StopPosting(r) PROVE NoOrphanFlag'
    BY <2>13
       DEF StopPosting, Goto, TypeInv, TypeOK, NoOrphanFlag, Loading, requestVars
  <2>14. ASSUME NEW r \in Requests, Exit(r) PROVE NoOrphanFlag'
    BY <2>14 DEF Exit, Goto, TypeInv, TypeOK, NoOrphanFlag, Loading, requestVars
  <2>15. ASSUME NEW e \in Projects \X Requests, SweepOne(e) PROVE NoOrphanFlag'
    BY <2>15 DEF SweepOne, Goto, TypeInv, TypeOK, NoOrphanFlag, Loading, requestVars
  <2>16. ASSUME NEW e \in Projects \X Requests, StopWorkspace(e) PROVE NoOrphanFlag'
    BY <2>16
       DEF StopWorkspace, Goto, TypeInv, TypeOK, NoOrphanFlag, Loading, requestVars
  <2>17. CASE SweepStart
    BY <2>17
       DEF SweepStart, Goto, TypeInv, TypeOK, NoOrphanFlag, Loading, requestVars
  <2>18. CASE RenderPage
    BY <2>18
       DEF RenderPage, Goto, TypeInv, TypeOK, NoOrphanFlag, Loading, requestVars
  <2>19. CASE UNCHANGED vars
    BY <2>19 DEF vars, Goto, TypeInv, TypeOK, NoOrphanFlag, Loading, requestVars
  <2>20. QED
    BY <2>1, <2>2, <2>3, <2>4, <2>5, <2>6, <2>7, <2>8, <2>9, <2>10, <2>11, <2>12,
       <2>13, <2>14, <2>15, <2>16, <2>17, <2>18, <2>19
       DEF Next, RequestStep, Sweeper
<1>3. QED
  BY <1>1, <1>2, InitTypeInv, NextTypeInv, PTL DEF Spec

(* No answer and no registered address ever belongs to another project, or *)
(* to a process that has not posted one.                                   *)
THEOREM AddressSafe == Spec => []AddressOfProject
<1>1. Init => AddressInv
  BY DEF Init, AddressInv, AddressOfProject, FoundOfProject
<1>2. TypeInv /\ AddressInv /\ [Next]_vars => AddressInv'
  <2> SUFFICES ASSUME TypeInv, AddressInv, [Next]_vars PROVE AddressInv'
    OBVIOUS
  <2> USE DEF AddressInv
  <2>1. ASSUME NEW r \in Requests, Arrive(r) PROVE AddressInv'
    BY <2>1
       DEF Arrive, Goto, TypeInv, TypeOK, Pending, WorkspaceInfo, AddressOfProject,
       FoundOfProject, requestVars
  <2>2. ASSUME NEW r \in Requests, CheckWaiting(r) PROVE AddressInv'
    BY <2>2
       DEF CheckWaiting, Goto, TypeInv, TypeOK, Pending, WorkspaceInfo,
       AddressOfProject, FoundOfProject, requestVars
  <2>3. ASSUME NEW r \in Requests, LookUp(r) PROVE AddressInv'
    BY <2>3
       DEF LookUp, Goto, TypeInv, TypeOK, Pending, WorkspaceInfo, AddressOfProject,
       FoundOfProject, requestVars
  <2>4. ASSUME NEW r \in Requests, Refresh(r) PROVE AddressInv'
    BY <2>4
       DEF Refresh, Goto, TypeInv, TypeOK, Pending, WorkspaceInfo,
       AddressOfProject, FoundOfProject, requestVars
  <2>5. ASSUME NEW r \in Requests, Evict(r) PROVE AddressInv'
    BY <2>5
       DEF Evict, Goto, TypeInv, TypeOK, Pending, WorkspaceInfo, AddressOfProject,
       FoundOfProject, requestVars
  <2>6. ASSUME NEW r \in Requests, Mark(r) PROVE AddressInv'
    BY <2>6
       DEF Mark, Goto, TypeInv, TypeOK, Pending, WorkspaceInfo, AddressOfProject,
       FoundOfProject, requestVars
  <2>7. ASSUME NEW r \in Requests, StartProcess(r) \/ StartFails(r)
       PROVE  AddressInv'
    BY <2>7
       DEF StartProcess, StartFails, Goto, TypeInv, TypeOK, Pending, WorkspaceInfo,
       AddressOfProject, FoundOfProject, requestVars
  <2>8. ASSUME NEW r \in Requests, Subscribe(r) PROVE AddressInv'
    BY <2>8
       DEF Subscribe, Goto, TypeInv, TypeOK, Pending, WorkspaceInfo,
       AddressOfProject, FoundOfProject, requestVars
  <2>9. ASSUME NEW r \in Requests, Timeout(r) PROVE AddressInv'
    BY <2>9
       DEF Timeout, Goto, TypeInv, TypeOK, Pending, WorkspaceInfo,
       AddressOfProject, FoundOfProject, requestVars
  <2>10. ASSUME NEW r \in Requests, Register(r) PROVE AddressInv'
    BY <2>10
       DEF Register, Goto, TypeInv, TypeOK, Pending, WorkspaceInfo,
       AddressOfProject, FoundOfProject, requestVars
  <2>11. ASSUME NEW r \in Requests, Leave(r) PROVE AddressInv'
    BY <2>11
       DEF Leave, Goto, TypeInv, TypeOK, Pending, WorkspaceInfo, AddressOfProject,
       FoundOfProject, requestVars
  <2>12. ASSUME NEW r \in Requests, PostAddress(r) PROVE AddressInv'
    BY <2>12, MatchmakingAssumption
       DEF PostAddress, Goto, TypeInv, TypeOK, Pending, WorkspaceInfo,
       AddressOfProject, FoundOfProject, requestVars, Hears
  <2>13. ASSUME NEW r \in Requests, StopPosting(r) PROVE AddressInv'
    BY <2>13
       DEF StopPosting, Goto, TypeInv, TypeOK, Pending, WorkspaceInfo,
       AddressOfProject, FoundOfProject, requestVars
  <2>14. ASSUME NEW r \in Requests, Exit(r) PROVE AddressInv'
    BY <2>14
       DEF Exit, Goto, TypeInv, TypeOK, Pending, WorkspaceInfo, AddressOfProject,
       FoundOfProject, requestVars
  <2>15. ASSUME NEW e \in Projects \X Requests, SweepOne(e) PROVE AddressInv'
    BY <2>15
       DEF SweepOne, Goto, TypeInv, TypeOK, Pending, WorkspaceInfo,
       AddressOfProject, FoundOfProject, requestVars
  <2>16. ASSUME NEW e \in Projects \X Requests, StopWorkspace(e) PROVE AddressInv'
    BY <2>16
       DEF StopWorkspace, Goto, TypeInv, TypeOK, Pending, WorkspaceInfo,
       AddressOfProject, FoundOfProject, requestVars
  <2>17. CASE SweepStart
    BY <2>17
       DEF SweepStart, Goto, TypeInv, TypeOK, Pending, WorkspaceInfo,
       AddressOfProject, FoundOfProject, requestVars
  <2>18. CASE RenderPage
    BY <2>18
       DEF RenderPage, Goto, TypeInv, TypeOK, Pending, WorkspaceInfo,
       AddressOfProject, FoundOfProject, requestVars
  <2>19. CASE UNCHANGED vars
    BY <2>19
       DEF vars, Goto, TypeInv, TypeOK, Pending, WorkspaceInfo, AddressOfProject,
       FoundOfProject, requestVars
  <2>20. QED
    BY <2>1, <2>2, <2>3, <2>4, <2>5, <2>6, <2>7, <2>8, <2>9, <2>10, <2>11, <2>12,
       <2>13, <2>14, <2>15, <2>16, <2>17, <2>18, <2>19
       DEF Next, RequestStep, Sweeper
<1>3. AddressInv => AddressOfProject
  BY DEF AddressInv
<1>4. QED
  BY <1>1, <1>2, <1>3, InitTypeInv, NextTypeInv, PTL DEF Spec

(* The service implements the directory: each step asks, posts, answers,    *)
(* refuses or changes nothing the directory shows.                         *)
THEOREM DirectoryRefinement == Spec => ImplementsDirectory
<1>1. Init => Directory!Init
  BY DEF Init, Directory!Init, Status
<1>2. TypeInv /\ AddressOfProject /\ [Next]_vars
        => [Directory!Next]_Directory!dvars
  <2> SUFFICES ASSUME TypeInv, AddressOfProject, [Next]_vars
                        PROVE  [Directory!Next]_Directory!dvars
    OBVIOUS
  <2> USE DEF TypeInv, TypeOK, Pending
  <2>1. ASSUME NEW r \in Requests, Arrive(r)
               PROVE  [Directory!Next]_Directory!dvars
    BY <2>1 DEF Arrive, Goto, Status, Directory!dvars, Directory!Next, Directory!Ask
  <2>2. ASSUME NEW r \in Requests, CheckWaiting(r)
               PROVE  [Directory!Next]_Directory!dvars
    BY <2>2 DEF CheckWaiting, Goto, Status, Directory!dvars
  <2>3. ASSUME NEW r \in Requests, LookUp(r)
               PROVE  [Directory!Next]_Directory!dvars
    BY <2>3 DEF LookUp, Goto, Status, Directory!dvars
  <2>4. ASSUME NEW r \in Requests, Refresh(r)
               PROVE  [Directory!Next]_Directory!dvars
    BY <2>4 DEF Refresh, Goto, Status, Directory!dvars
  <2>5. ASSUME NEW r \in Requests, Evict(r)
               PROVE  [Directory!Next]_Directory!dvars
    BY <2>5 DEF Evict, Goto, Status, Directory!dvars
  <2>6. ASSUME NEW r \in Requests, Mark(r)
               PROVE  [Directory!Next]_Directory!dvars
    BY <2>6 DEF Mark, Goto, Status, Directory!dvars
  <2>7. ASSUME NEW r \in Requests, StartProcess(r) \/ StartFails(r)
               PROVE  [Directory!Next]_Directory!dvars
    BY <2>7 DEF StartProcess, StartFails, Goto, Status, Directory!dvars
  <2>8. ASSUME NEW r \in Requests, Subscribe(r)
               PROVE  [Directory!Next]_Directory!dvars
    BY <2>8 DEF Subscribe, Goto, Status, Directory!dvars
  <2>9. ASSUME NEW r \in Requests, Timeout(r)
               PROVE  [Directory!Next]_Directory!dvars
    BY <2>9 DEF Timeout, Goto, Status, Directory!dvars
  <2>10. ASSUME NEW r \in Requests, Register(r)
               PROVE  [Directory!Next]_Directory!dvars
    BY <2>10 DEF Register, Goto, Status, Directory!dvars
  <2>11. ASSUME NEW r \in Requests, Leave(r)
               PROVE  [Directory!Next]_Directory!dvars
    <3> USE <2>11 DEF Leave, Goto, Status
    <3>1. CASE reply[r] = None
      BY <3>1 DEF Directory!Next, Directory!Refuse
    <3>2. CASE reply[r] # None
      <4>1. reply[r] \in posted /\ project[reply[r]] = project[r]
        BY <3>2 DEF AddressOfProject
      <4>2. Directory!Answer(r)
        BY <3>2, <4>1 DEF Directory!Answer
      <4>3. QED
        BY <4>2 DEF Directory!Next
    <3>3. QED
      BY <3>1, <3>2
  <2>12. ASSUME NEW r \in Requests, PostAddress(r)
               PROVE  [Directory!Next]_Directory!dvars
    BY <2>12
       DEF PostAddress, Status, Directory!dvars, Directory!Next, Directory!Post,
       Hears
  <2>13. ASSUME NEW r \in Requests, StopPosting(r)
               PROVE  [Directory!Next]_Directory!dvars
    BY <2>13 DEF StopPosting, requestVars, Status, Directory!dvars
  <2>14. ASSUME NEW r \in Requests, Exit(r)
               PROVE  [Directory!Next]_Directory!dvars
    BY <2>14 DEF Exit, requestVars, Status, Directory!dvars
  <2>15. ASSUME NEW e \in Projects \X Requests, SweepOne(e)
               PROVE  [Directory!Next]_Directory!dvars
    BY <2>15 DEF SweepOne, requestVars, Status, Directory!dvars
  <2>16. ASSUME NEW e \in Projects \X Requests, StopWorkspace(e)
               PROVE  [Directory!Next]_Directory!dvars
    BY <2>16 DEF StopWorkspace, requestVars, Status, Directory!dvars
  <2>17. CASE SweepStart
    BY <2>17 DEF SweepStart, requestVars, Status, Directory!dvars
  <2>18. CASE RenderPage
    BY <2>18 DEF RenderPage, requestVars, Status, Directory!dvars
  <2>19. CASE UNCHANGED vars
    BY <2>19 DEF vars, Status, Directory!dvars
  <2>20. QED
    BY <2>1, <2>2, <2>3, <2>4, <2>5, <2>6, <2>7, <2>8, <2>9, <2>10, <2>11, <2>12,
       <2>13, <2>14, <2>15, <2>16, <2>17, <2>18, <2>19
       DEF Next, RequestStep, Sweeper
<1>3. QED
  BY <1>1, <1>2, InitTypeInv, NextTypeInv, AddressSafe, PTL
  DEF Spec, ImplementsDirectory, Directory!Spec

=============================================================================
