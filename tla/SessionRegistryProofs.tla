------------------------ MODULE SessionRegistryProofs ------------------------
(***************************************************************************)
(* Safety of SessionRegistry for every number of threads, sessions and     *)
(* principals.                                                             *)
(*                                                                         *)
(* The argument: whoever is between the second look and the close hook     *)
(* owns the entry's dispatch mutex, and so does a request that resolved a  *)
(* session.  A session in the registry has not been closed and nobody is   *)
(* about to close it; taking it out of the registry makes exactly one      *)
(* thread Pending on it, and that thread runs the hook.                    *)
(***************************************************************************)
EXTENDS SessionRegistry, TLAPS

(* Thread t has taken s out of the registry and will run its close hook. *)
Pending(t, s) ==
    \/ pc[t] = "hook" /\ cur[t] = s
    \/ op[t] = "shutdown" /\ (s \in todo[t] \/ (pc[t] = "lock" /\ cur[t] = s))

(* Which operation a thread can be in at each step of it. *)
ControlInv ==
    \A t \in Threads :
        /\ pc[t] \in {"idle", "handler"} => op[t] = "none"
        /\ pc[t] = "visit" => op[t] \in {"sweep", "shutdown"}
        /\ pc[t] = "find" => op[t] \in {"resolve", "closeSession", "delete"}
        /\ pc[t] = "recheck" => op[t] # "shutdown"
        /\ pc[t] \in {"find", "lock", "recheck", "hook"} => cur[t] \in Sessions
        /\ op[t] = "shutdown" /\ pc[t] \in {"lock", "hook"} => cur[t] \notin todo[t]

LockInv ==
    /\ \A t \in Threads : pc[t] \in {"recheck", "hook"} => mutex[cur[t]] = t
    /\ \A t \in Threads : held[t] # NoSession => mutex[held[t]] = t
    /\ \A t \in Threads : resolved[t] # NoSession => held[t] = resolved[t]

(* One pass over a session's life: in the registry, then pending on one    *)
(* thread, then closed.                                                    *)
LifeInv ==
    /\ \A s \in Sessions : hooks[s] \in {0, 1}
    /\ \A s \in entries : hooks[s] = 0 /\ sealedFor[s] # NoOne
    /\ \A s \in Sessions : hooks[s] = 1 => sealedFor[s] # NoOne
    /\ \A t \in Threads, s \in Sessions :
          Pending(t, s) => hooks[s] = 0 /\ s \notin entries /\ sealedFor[s] # NoOne
    /\ \A t, u \in Threads, s \in Sessions : Pending(t, s) /\ Pending(u, s) => t = u

(* What a request knows of the session it resumes. *)
OwnerInv ==
    \A t \in Threads :
        /\ pc[t] = "handler" \/ op[t] \in {"resolve", "closeSession"} => who[t] # NoOne
        /\ op[t] = "resolve" /\ pc[t] \in {"find", "lock", "recheck"} =>
              sealedFor[cur[t]] = who[t]
        /\ resolved[t] # NoSession =>
              /\ pc[t] = "handler" \/ op[t] = "closeSession"
              /\ sealedFor[resolved[t]] = who[t]
              /\ hooks[resolved[t]] = 0

IndInv == TypeOK /\ ControlInv /\ LockInv /\ LifeInv /\ OwnerInv

(* Every action keeps the inductive invariant.  The conjuncts are proved   *)
(* one at a time; IndInv of the old state is at hand throughout.           *)
LEMMA WallClockKeeps ==
    ASSUME IndInv, NEW s \in Sessions, WallClockMoves(s)
    PROVE  IndInv'
<1> USE ConstantsAssumption DEF IndInv
<1>1. TypeOK'
  BY DEF TypeOK, Steps, Ops, WallClockMoves, registryVars, clockVars, threadVars, requestVars
<1>2. ControlInv'
  BY DEF TypeOK, ControlInv, WallClockMoves, registryVars, clockVars, threadVars, requestVars
<1>3. LockInv'
  BY DEF TypeOK, ControlInv, LockInv, WallClockMoves, registryVars, clockVars, threadVars, requestVars
<1>4. LifeInv'
  BY DEF TypeOK, ControlInv, LockInv, LifeInv, Pending, WallClockMoves, registryVars, clockVars, threadVars, requestVars
<1>5. OwnerInv'
  BY DEF TypeOK, ControlInv, LockInv, OwnerInv, WallClockMoves, registryVars, clockVars, threadVars, requestVars
<1> QED  BY <1>1, <1>2, <1>3, <1>4, <1>5

LEMMA SteadyClockKeeps ==
    ASSUME IndInv, NEW s \in Sessions, SteadyClockPasses(s)
    PROVE  IndInv'
<1> USE ConstantsAssumption DEF IndInv
<1>1. TypeOK'
  BY DEF TypeOK, Steps, Ops, SteadyClockPasses, registryVars, clockVars, threadVars, requestVars
<1>2. ControlInv'
  BY DEF TypeOK, ControlInv, SteadyClockPasses, registryVars, clockVars, threadVars, requestVars
<1>3. LockInv'
  BY DEF TypeOK, ControlInv, LockInv, SteadyClockPasses, registryVars, clockVars, threadVars, requestVars
<1>4. LifeInv'
  BY DEF TypeOK, ControlInv, LockInv, LifeInv, Pending, SteadyClockPasses, registryVars, clockVars, threadVars, requestVars
<1>5. OwnerInv'
  BY DEF TypeOK, ControlInv, LockInv, OwnerInv, SteadyClockPasses, registryVars, clockVars, threadVars, requestVars
<1> QED  BY <1>1, <1>2, <1>3, <1>4, <1>5

LEMMA DrainKeeps ==
    ASSUME IndInv, NEW flag \in BOOLEAN, SetDraining(flag)
    PROVE  IndInv'
<1> USE ConstantsAssumption DEF IndInv
<1>1. TypeOK'
  BY DEF TypeOK, Steps, Ops, SetDraining, registryVars, clockVars, threadVars, requestVars
<1>2. ControlInv'
  BY DEF TypeOK, ControlInv, SetDraining, registryVars, clockVars, threadVars, requestVars
<1>3. LockInv'
  BY DEF TypeOK, ControlInv, LockInv, SetDraining, registryVars, clockVars, threadVars, requestVars
<1>4. LifeInv'
  BY DEF TypeOK, ControlInv, LockInv, LifeInv, Pending, SetDraining, registryVars, clockVars, threadVars, requestVars
<1>5. OwnerInv'
  BY DEF TypeOK, ControlInv, LockInv, OwnerInv, SetDraining, registryVars, clockVars, threadVars, requestVars
<1> QED  BY <1>1, <1>2, <1>3, <1>4, <1>5

LEMMA BeginRequestKeeps ==
    ASSUME IndInv, NEW t \in Threads, NEW p \in Principals, NEW k \in Sessions \cup {NoSession}, NEW a \in BOOLEAN, BeginRequest(t, p, k, a)
    PROVE  IndInv'
<1> USE ConstantsAssumption DEF IndInv
<1>1. TypeOK'
  BY DEF TypeOK, Steps, Ops, BeginRequest, Unseals, registryVars, clockVars, threadVars, requestVars
<1>2. ControlInv'
  BY DEF TypeOK, ControlInv, BeginRequest, Unseals, registryVars, clockVars, threadVars, requestVars
<1>3. LockInv'
  BY DEF TypeOK, ControlInv, LockInv, BeginRequest, Unseals, registryVars, clockVars, threadVars, requestVars
<1>4. LifeInv'
  BY DEF TypeOK, ControlInv, LockInv, LifeInv, Pending, BeginRequest, Unseals, registryVars, clockVars, threadVars, requestVars
<1>5. OwnerInv'
  BY DEF TypeOK, ControlInv, LockInv, LifeInv, OwnerInv, Pending, BeginRequest, Unseals, registryVars, clockVars, threadVars, requestVars
<1> QED  BY <1>1, <1>2, <1>3, <1>4, <1>5

LEMMA BeginDeleteKeeps ==
    ASSUME IndInv, NEW t \in Threads, NEW p \in Principals, NEW k \in Sessions, BeginDelete(t, p, k)
    PROVE  IndInv'
<1> USE ConstantsAssumption DEF IndInv
<1>1. TypeOK'
  BY DEF TypeOK, Steps, Ops, BeginDelete, Unseals, registryVars, clockVars, threadVars, requestVars
<1>2. ControlInv'
  BY DEF TypeOK, ControlInv, BeginDelete, Unseals, registryVars, clockVars, threadVars, requestVars
<1>3. LockInv'
  BY DEF TypeOK, ControlInv, LockInv, BeginDelete, Unseals, registryVars, clockVars, threadVars, requestVars
<1>4. LifeInv'
  BY DEF TypeOK, ControlInv, LockInv, LifeInv, Pending, BeginDelete, Unseals, registryVars, clockVars, threadVars, requestVars
<1>5. OwnerInv'
  BY DEF TypeOK, ControlInv, LockInv, LifeInv, OwnerInv, Pending, BeginDelete, Unseals, registryVars, clockVars, threadVars, requestVars
<1> QED  BY <1>1, <1>2, <1>3, <1>4, <1>5

LEMMA BeginSweepKeeps ==
    ASSUME IndInv, NEW t \in Threads, BeginSweep(t)
    PROVE  IndInv'
<1> USE ConstantsAssumption DEF IndInv
<1>1. TypeOK'
  BY DEF TypeOK, Steps, Ops, BeginSweep, registryVars, clockVars, threadVars, requestVars
<1>2. ControlInv'
  BY DEF TypeOK, ControlInv, BeginSweep, registryVars, clockVars, threadVars, requestVars
<1>3. LockInv'
  BY DEF TypeOK, ControlInv, LockInv, BeginSweep, registryVars, clockVars, threadVars, requestVars
<1>4. LifeInv'
  BY DEF TypeOK, ControlInv, LockInv, LifeInv, Pending, BeginSweep, registryVars, clockVars, threadVars, requestVars
<1>5. OwnerInv'
  BY DEF TypeOK, ControlInv, LockInv, OwnerInv, BeginSweep, registryVars, clockVars, threadVars, requestVars
<1> QED  BY <1>1, <1>2, <1>3, <1>4, <1>5

LEMMA BeginShutdownKeeps ==
    ASSUME IndInv, NEW t \in Threads, BeginShutdown(t)
    PROVE  IndInv'
<1> USE ConstantsAssumption DEF IndInv
<1>1. TypeOK'
  BY DEF TypeOK, Steps, Ops, BeginShutdown, registryVars, clockVars, threadVars, requestVars
<1>2. ControlInv'
  BY DEF TypeOK, ControlInv, BeginShutdown, registryVars, clockVars, threadVars, requestVars
<1>3. LockInv'
  BY DEF TypeOK, ControlInv, LockInv, BeginShutdown, registryVars, clockVars, threadVars, requestVars
<1>4. LifeInv'
  BY DEF TypeOK, ControlInv, LockInv, LifeInv, Pending, BeginShutdown, registryVars, clockVars, threadVars, requestVars
<1>5. OwnerInv'
  BY DEF TypeOK, ControlInv, LockInv, LifeInv, OwnerInv, Pending, BeginShutdown, registryVars, clockVars, threadVars, requestVars
<1> QED  BY <1>1, <1>2, <1>3, <1>4, <1>5

LEMMA VisitKeeps ==
    ASSUME IndInv, NEW t \in Threads, NEW s \in Sessions, Visit(t, s)
    PROVE  IndInv'
<1> USE ConstantsAssumption DEF IndInv
<1>1. TypeOK'
  BY DEF TypeOK, Steps, Ops, Visit, registryVars, clockVars, threadVars, requestVars
<1>2. ControlInv'
  BY DEF TypeOK, ControlInv, Visit, registryVars, clockVars, threadVars, requestVars
<1>3. LockInv'
  BY DEF TypeOK, ControlInv, LockInv, Visit, registryVars, clockVars, threadVars, requestVars
<1>4. LifeInv'
  BY DEF TypeOK, ControlInv, LockInv, LifeInv, Pending, Visit, registryVars, clockVars, threadVars, requestVars
<1>5. OwnerInv'
  BY DEF TypeOK, ControlInv, LockInv, LifeInv, OwnerInv, Pending, Visit, registryVars, clockVars, threadVars, requestVars
<1> QED  BY <1>1, <1>2, <1>3, <1>4, <1>5

LEMMA VisitDoneKeeps ==
    ASSUME IndInv, NEW t \in Threads, VisitDone(t)
    PROVE  IndInv'
<1> USE ConstantsAssumption DEF IndInv
<1>1. TypeOK'
  BY DEF TypeOK, Steps, Ops, VisitDone, registryVars, clockVars, threadVars, requestVars
<1>2. ControlInv'
  BY DEF TypeOK, ControlInv, VisitDone, registryVars, clockVars, threadVars, requestVars
<1>3. LockInv'
  BY DEF TypeOK, ControlInv, LockInv, VisitDone, registryVars, clockVars, threadVars, requestVars
<1>4. LifeInv'
  BY DEF TypeOK, ControlInv, LockInv, LifeInv, Pending, VisitDone, registryVars, clockVars, threadVars, requestVars
<1>5. OwnerInv'
  BY DEF TypeOK, ControlInv, LockInv, OwnerInv, VisitDone, registryVars, clockVars, threadVars, requestVars
<1> QED  BY <1>1, <1>2, <1>3, <1>4, <1>5

LEMMA FindKeeps ==
    ASSUME IndInv, NEW t \in Threads, Find(t)
    PROVE  IndInv'
<1> USE ConstantsAssumption DEF IndInv
<1>1. TypeOK'
  BY DEF TypeOK, Steps, Ops, Find, registryVars, clockVars, threadVars, requestVars
<1>2. ControlInv'
  BY DEF TypeOK, ControlInv, Find, registryVars, clockVars, threadVars, requestVars
<1>3. LockInv'
  BY DEF TypeOK, ControlInv, LockInv, Find, registryVars, clockVars, threadVars, requestVars
<1>4. LifeInv'
  <2>1. \A u \in Threads, s \in Sessions : Pending(u, s)' => Pending(u, s)
    BY DEF TypeOK, ControlInv, Pending, Find, registryVars
  <2> QED  BY <2>1 DEF LifeInv, Find, registryVars
<1>5. OwnerInv'
  BY DEF TypeOK, ControlInv, LockInv, OwnerInv, Find, registryVars, clockVars, threadVars, requestVars
<1> QED  BY <1>1, <1>2, <1>3, <1>4, <1>5

LEMMA FindMissingKeeps ==
    ASSUME IndInv, NEW t \in Threads, FindMissing(t)
    PROVE  IndInv'
<1> USE ConstantsAssumption DEF IndInv
<1>1. TypeOK'
  BY DEF TypeOK, Steps, Ops, FindMissing, Return, registryVars, clockVars, threadVars, requestVars
<1>2. ControlInv'
  BY DEF TypeOK, ControlInv, FindMissing, Return, registryVars, clockVars, threadVars, requestVars
<1>3. LockInv'
  BY DEF TypeOK, ControlInv, LockInv, FindMissing, Return, registryVars, clockVars, threadVars, requestVars
<1>4. LifeInv'
  BY DEF TypeOK, ControlInv, LockInv, LifeInv, Pending, FindMissing, Return, registryVars, clockVars, threadVars, requestVars
<1>5. OwnerInv'
  BY DEF TypeOK, ControlInv, LockInv, LifeInv, OwnerInv, Pending, FindMissing, Return, registryVars, clockVars, threadVars, requestVars
<1> QED  BY <1>1, <1>2, <1>3, <1>4, <1>5

LEMMA AcquireKeeps ==
    ASSUME IndInv, NEW t \in Threads, Acquire(t)
    PROVE  IndInv'
<1> USE ConstantsAssumption DEF IndInv
<1>1. TypeOK'
  BY DEF TypeOK, Steps, Ops, Acquire, registryVars, clockVars, threadVars, requestVars
<1>2. ControlInv'
  BY DEF TypeOK, ControlInv, Acquire, registryVars, clockVars, threadVars, requestVars
<1>3. LockInv'
  BY DEF TypeOK, ControlInv, LockInv, Acquire, registryVars, clockVars, threadVars, requestVars
<1>4. LifeInv'
  BY DEF TypeOK, ControlInv, LockInv, LifeInv, Pending, Acquire, registryVars, clockVars, threadVars, requestVars
<1>5. OwnerInv'
  BY DEF TypeOK, ControlInv, LockInv, LifeInv, OwnerInv, Pending, Acquire, registryVars, clockVars, threadVars, requestVars
<1> QED  BY <1>1, <1>2, <1>3, <1>4, <1>5

LEMMA EraseKeeps ==
    ASSUME IndInv, NEW t \in Threads, Erase(t)
    PROVE  IndInv'
<1> USE ConstantsAssumption DEF IndInv
<1>1. TypeOK'
  BY DEF TypeOK, Steps, Ops, Erase, Removes, StillThere, registryVars, clockVars, threadVars, requestVars
<1>2. ControlInv'
  BY DEF TypeOK, ControlInv, Erase, Removes, StillThere, registryVars, clockVars, threadVars, requestVars
<1>3. LockInv'
  BY DEF TypeOK, ControlInv, LockInv, Erase, Removes, StillThere, registryVars, clockVars, threadVars, requestVars
<1>4. LifeInv'
  BY DEF TypeOK, ControlInv, LockInv, LifeInv, Pending, Erase, Removes, StillThere, registryVars, clockVars, threadVars, requestVars
<1>5. OwnerInv'
  BY DEF TypeOK, ControlInv, LockInv, LifeInv, OwnerInv, Pending, Erase, Removes, StillThere, registryVars, clockVars, threadVars, requestVars
<1> QED  BY <1>1, <1>2, <1>3, <1>4, <1>5

LEMMA ResolveOKKeeps ==
    ASSUME IndInv, NEW t \in Threads, ResolveOK(t)
    PROVE  IndInv'
<1> USE ConstantsAssumption DEF IndInv
<1>1. TypeOK'
  BY DEF TypeOK, Steps, Ops, ResolveOK, Removes, StillThere, registryVars, clockVars, threadVars, requestVars
<1>2. ControlInv'
  BY DEF TypeOK, ControlInv, ResolveOK, Removes, StillThere, registryVars, clockVars, threadVars, requestVars
<1>3. LockInv'
  BY DEF TypeOK, ControlInv, LockInv, ResolveOK, Removes, StillThere, registryVars, clockVars, threadVars, requestVars
<1>4. LifeInv'
  BY DEF TypeOK, ControlInv, LockInv, LifeInv, Pending, ResolveOK, Removes, StillThere, registryVars, clockVars, threadVars, requestVars
<1>5. OwnerInv'
  BY DEF TypeOK, ControlInv, LockInv, LifeInv, OwnerInv, Pending, ResolveOK, Removes, StillThere, registryVars, clockVars, threadVars, requestVars
<1> QED  BY <1>1, <1>2, <1>3, <1>4, <1>5

LEMMA RecheckFailsKeeps ==
    ASSUME IndInv, NEW t \in Threads, RecheckFails(t)
    PROVE  IndInv'
<1> USE ConstantsAssumption DEF IndInv
<1>1. TypeOK'
  BY DEF TypeOK, Steps, Ops, RecheckFails, Removes, StillThere, Unlock, Return, registryVars, clockVars, threadVars, requestVars
<1>2. ControlInv'
  BY DEF TypeOK, ControlInv, RecheckFails, Removes, StillThere, Unlock, Return, registryVars, clockVars, threadVars, requestVars
<1>3. LockInv'
  BY DEF TypeOK, ControlInv, LockInv, RecheckFails, Removes, StillThere, Unlock, Return, registryVars, clockVars, threadVars, requestVars
<1>4. LifeInv'
  BY DEF TypeOK, ControlInv, LockInv, LifeInv, Pending, RecheckFails, Removes, StillThere, Unlock, Return, registryVars, clockVars, threadVars, requestVars
<1>5. OwnerInv'
  BY DEF TypeOK, ControlInv, LockInv, LifeInv, OwnerInv, Pending, RecheckFails, Removes, StillThere, Unlock, Return, registryVars, clockVars, threadVars, requestVars
<1> QED  BY <1>1, <1>2, <1>3, <1>4, <1>5

LEMMA HookReturnsKeeps ==
    ASSUME IndInv, NEW t \in Threads, HookReturns(t)
    PROVE  IndInv'
<1> USE ConstantsAssumption DEF IndInv
<1>1. TypeOK'
  <2>1. hooks[cur[t]] + 1 \in Nat
    BY DEF TypeOK, ControlInv, HookReturns
  <2>2. hooks' \in [Sessions -> Nat]
    BY <2>1 DEF TypeOK, HookReturns
  <2> QED  BY <2>2 DEF TypeOK, Steps, Ops, HookReturns, Unlock, Return, registryVars, clockVars, threadVars, requestVars
<1>2. ControlInv'
  BY DEF TypeOK, ControlInv, HookReturns, Unlock, Return, registryVars, clockVars, threadVars, requestVars
<1>3. LockInv'
  BY DEF TypeOK, ControlInv, LockInv, HookReturns, Unlock, Return, registryVars, clockVars, threadVars, requestVars
<1>4. LifeInv'
  <2>1. /\ \A s \in Sessions : hooks'[s] \in {0, 1}
        /\ \A s \in entries' : hooks'[s] = 0 /\ sealedFor'[s] # NoOne
        /\ \A s \in Sessions : hooks'[s] = 1 => sealedFor'[s] # NoOne
    BY DEF TypeOK, ControlInv, LockInv, LifeInv, Pending, HookReturns, Unlock, Return, registryVars, clockVars, threadVars, requestVars
  <2>2. ASSUME NEW u \in Threads, NEW s \in Sessions, Pending(u, s)'
        PROVE  Pending(u, s) /\ (u = t => s # cur[t])
    BY <2>2 DEF TypeOK, ControlInv, LockInv, LifeInv, Pending, HookReturns, Unlock, Return, registryVars, clockVars, threadVars, requestVars
  <2>3. \A u \in Threads, s \in Sessions :
          Pending(u, s)' => hooks'[s] = 0 /\ s \notin entries' /\ sealedFor'[s] # NoOne
    BY <2>2 DEF TypeOK, ControlInv, LockInv, LifeInv, Pending, HookReturns, Unlock, Return, registryVars, clockVars, threadVars, requestVars
  <2>4. \A u, v \in Threads, s \in Sessions : Pending(u, s)' /\ Pending(v, s)' => u = v
    BY <2>2 DEF LifeInv
  <2> QED  BY <2>1, <2>3, <2>4 DEF LifeInv
<1>5. OwnerInv'
  BY DEF TypeOK, ControlInv, LockInv, LifeInv, OwnerInv, Pending, HookReturns, Unlock, Return, registryVars, clockVars, threadVars, requestVars
<1> QED  BY <1>1, <1>2, <1>3, <1>4, <1>5

LEMMA HandlerOpenKeeps ==
    ASSUME IndInv, NEW t \in Workers, NEW s \in Sessions, HandlerOpen(t, s)
    PROVE  IndInv'
<1> USE ConstantsAssumption DEF IndInv
<1>1. TypeOK'
  BY DEF TypeOK, Steps, Ops, HandlerOpen, Threads, registryVars, clockVars, threadVars, requestVars
<1>2. ControlInv'
  BY DEF TypeOK, ControlInv, HandlerOpen, Threads, registryVars, clockVars, threadVars, requestVars
<1>3. LockInv'
  BY DEF TypeOK, ControlInv, LockInv, HandlerOpen, Threads, registryVars, clockVars, threadVars, requestVars
<1>4. LifeInv'
  BY DEF TypeOK, ControlInv, LockInv, LifeInv, OwnerInv, Pending, HandlerOpen, Threads, registryVars, clockVars, threadVars, requestVars
<1>5. OwnerInv'
  BY DEF TypeOK, ControlInv, LockInv, LifeInv, OwnerInv, Pending, HandlerOpen, Threads, registryVars, clockVars, threadVars, requestVars
<1> QED  BY <1>1, <1>2, <1>3, <1>4, <1>5

LEMMA HandlerCloseKeeps ==
    ASSUME IndInv, NEW t \in Threads, HandlerClose(t)
    PROVE  IndInv'
<1> USE ConstantsAssumption DEF IndInv
<1>1. TypeOK'
  BY DEF TypeOK, Steps, Ops, HandlerClose, Unseals, registryVars, clockVars, threadVars, requestVars
<1>2. ControlInv'
  BY DEF TypeOK, ControlInv, HandlerClose, Unseals, registryVars, clockVars, threadVars, requestVars
<1>3. LockInv'
  BY DEF TypeOK, ControlInv, LockInv, HandlerClose, Unseals, registryVars, clockVars, threadVars, requestVars
<1>4. LifeInv'
  BY DEF TypeOK, ControlInv, LockInv, LifeInv, Pending, HandlerClose, Unseals, registryVars, clockVars, threadVars, requestVars
<1>5. OwnerInv'
  BY DEF TypeOK, ControlInv, LockInv, LifeInv, OwnerInv, Pending, HandlerClose, Unseals, registryVars, clockVars, threadVars, requestVars
<1> QED  BY <1>1, <1>2, <1>3, <1>4, <1>5

LEMMA HandlerCloseRefusedKeeps ==
    ASSUME IndInv, NEW t \in Threads, HandlerCloseRefused(t)
    PROVE  IndInv'
<1> USE ConstantsAssumption DEF IndInv
<1>1. TypeOK'
  BY DEF TypeOK, Steps, Ops, HandlerCloseRefused, registryVars, clockVars, threadVars, requestVars
<1>2. ControlInv'
  BY DEF TypeOK, ControlInv, HandlerCloseRefused, registryVars, clockVars, threadVars, requestVars
<1>3. LockInv'
  BY DEF TypeOK, ControlInv, LockInv, HandlerCloseRefused, registryVars, clockVars, threadVars, requestVars
<1>4. LifeInv'
  BY DEF TypeOK, ControlInv, LockInv, LifeInv, Pending, HandlerCloseRefused, registryVars, clockVars, threadVars, requestVars
<1>5. OwnerInv'
  BY DEF TypeOK, ControlInv, LockInv, LifeInv, OwnerInv, Pending, HandlerCloseRefused, registryVars, clockVars, threadVars, requestVars
<1> QED  BY <1>1, <1>2, <1>3, <1>4, <1>5

LEMMA EndRequestKeeps ==
    ASSUME IndInv, NEW t \in Threads, EndRequest(t)
    PROVE  IndInv'
<1> USE ConstantsAssumption DEF IndInv
<1>1. TypeOK'
  BY DEF TypeOK, Steps, Ops, EndRequest, registryVars, clockVars, threadVars, requestVars
<1>2. ControlInv'
  BY DEF TypeOK, ControlInv, EndRequest, registryVars, clockVars, threadVars, requestVars
<1>3. LockInv'
  BY DEF TypeOK, ControlInv, LockInv, EndRequest, registryVars, clockVars, threadVars, requestVars
<1>4. LifeInv'
  BY DEF TypeOK, ControlInv, LockInv, LifeInv, Pending, EndRequest, registryVars, clockVars, threadVars, requestVars
<1>5. OwnerInv'
  BY DEF TypeOK, ControlInv, LockInv, LifeInv, OwnerInv, Pending, EndRequest, registryVars, clockVars, threadVars, requestVars
<1> QED  BY <1>1, <1>2, <1>3, <1>4, <1>5

(* The inductive invariant is invariant: one step per action of Next.      *)
LEMMA IndInvInvariant == Spec => []IndInv
<1>1. Init => IndInv
  <2> SUFFICES ASSUME Init PROVE IndInv
    OBVIOUS
  <2>1. TypeOK
    BY DEF Init, TypeOK, Steps, Ops
  <2>2. ControlInv /\ LockInv /\ OwnerInv
    BY DEF Init, ControlInv, LockInv, OwnerInv
  <2>3. LifeInv
    BY DEF Init, LifeInv, Pending
  <2> QED  BY <2>1, <2>2, <2>3 DEF IndInv
<1>2. IndInv /\ [Next]_vars => IndInv'
  <2> SUFFICES ASSUME IndInv, [Next]_vars PROVE IndInv'
    OBVIOUS
  <2>1. CASE UNCHANGED vars
    BY <2>1 DEF IndInv, TypeOK, ControlInv, LockInv, LifeInv, OwnerInv, Pending,
                vars, registryVars, clockVars, threadVars, requestVars
  <2>2. CASE Environment
    BY <2>2, WallClockKeeps, SteadyClockKeeps, DrainKeeps DEF Environment
  <2>3. ASSUME NEW t \in Threads, Progress(t) PROVE IndInv'
    BY <2>3, VisitKeeps, VisitDoneKeeps, FindKeeps, FindMissingKeeps, AcquireKeeps,
       EraseKeeps, ResolveOKKeeps, RecheckFailsKeeps, HookReturnsKeeps DEF Progress
  <2>4. ASSUME NEW t \in Workers, WorkerStep(t) PROVE IndInv'
    <3>1. t \in Threads
      BY DEF Threads
    <3> QED
      BY <2>4, <3>1, BeginRequestKeeps, BeginDeleteKeeps, HandlerOpenKeeps,
         HandlerCloseKeeps, HandlerCloseRefusedKeeps, EndRequestKeeps DEF WorkerStep
  <2>5. ASSUME NEW t \in Sweepers, BeginSweep(t) PROVE IndInv'
    BY <2>5, BeginSweepKeeps DEF Threads
  <2>6. ASSUME NEW t \in Closers, BeginShutdown(t) PROVE IndInv'
    BY <2>6, BeginShutdownKeeps DEF Threads
  <2> QED  BY <2>1, <2>2, <2>3, <2>4, <2>5, <2>6 DEF Next
<1> QED  BY <1>1, <1>2, PTL DEF Spec

(* Type correctness of the registry, the locks and the request slots. *)
THEOREM TypeCorrect == Spec => []TypeOK
<1>1. IndInv => TypeOK
  BY DEF IndInv
<1> QED  BY <1>1, IndInvInvariant, PTL

(* The close hook of a session's state runs at most once, however explicit *)
(* close, TTL eviction in resolve(), sweep() and shutdown() interleave.    *)
THEOREM CloseHookOnce == Spec => []HookAtMostOnce
<1>1. IndInv => HookAtMostOnce
  BY DEF IndInv, LifeInv, HookAtMostOnce
<1> QED  BY <1>1, IndInvInvariant, PTL

(* The close hook of a session and a handler that resolved it exclude each *)
(* other: both own the entry's dispatch mutex.                             *)
THEOREM CloseHookExclusion == Spec => []HookExcludesHandlers
<1>1. IndInv => HookExcludesHandlers
  BY ConstantsAssumption DEF IndInv, TypeOK, ControlInv, LockInv, HookExcludesHandlers
<1> QED  BY <1>1, IndInvInvariant, PTL

(* resolve() hands a session to one request at a time. *)
THEOREM DispatchSerialization == Spec => []DispatchSerialized
<1>1. IndInv => DispatchSerialized
  BY DEF IndInv, TypeOK, LockInv, DispatchSerialized
<1> QED  BY <1>1, IndInvInvariant, PTL

(* A handler sees only a session sealed for its own identity, and only     *)
(* before the session's close hook has run.                                *)
THEOREM ResolvedOwnership == Spec => []ResolvedIsOwnAndOpen
<1>1. IndInv => ResolvedIsOwnAndOpen
  BY DEF IndInv, OwnerInv, ResolvedIsOwnAndOpen
<1> QED  BY <1>1, IndInvInvariant, PTL

=============================================================================
