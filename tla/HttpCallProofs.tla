--------------------------- MODULE HttpCallProofs ---------------------------
(***************************************************************************)
(* For any number of threads, calls, attempts, tokens and restarts of the  *)
(* server: a call that may not be repeated runs at most once and the       *)
(* client's report of it is true, a request the view waits on carries the  *)
(* token the view has, and a session that detach() gave away is left alone *)
(* but for requests whose callers were told that there was no answer.      *)
(*                                                                         *)
(* The token argument rests on the session lock, which is with the thread  *)
(* from the request to the commit of the answer (LockOK), so that nobody   *)
(* else can change the token of the view meanwhile (WireOK); and on the    *)
(* closed flag, after which the view takes no token any more (ViewInv).    *)
(* The argument about runs follows one call through its up to three passes *)
(* of post_inline(): only the last pass dispatches the method, and what is *)
(* sent again was refused before it was dispatched (RunsOK).  A request    *)
(* nobody waits for is the only one of its call that can still run, and    *)
(* the call has ended without an answer or is about to (LateOK).           *)
(***************************************************************************)
EXTENDS HttpCall, TLAPS

Steps == {"idle", "caps", "capsClient", "options", "decide",
          "ext", "session", "client", "wait", "returned", "put"}

CallRecords == [idem : BOOLEAN, big : BOOLEAN, sticky : BOOLEAN, ret : {"post", "inline"},
                what : {"method", "url"}, pointer : BOOLEAN, ext : BOOLEAN,
                attempt : Nat \ {0}, zstd : BOOLEAN]

\* What the client may know of the server's configuration.
Knowledge == [fetched : BOOLEAN, small : BOOLEAN, zstd : BOOLEAN, uploads : BOOLEAN]

WellTyped ==
    /\ pc \in [Threads -> Steps]
    /\ call \in [Threads -> CallRecords]
    /\ DOMAIN wire = Threads /\ DOMAIN ended = Threads
    /\ runs \in [Threads -> Nat]
    /\ view \in [token : Nat, closed : BOOLEAN]
    /\ caps \in Knowledge
    /\ srv \in [limits : Limits, live : SUBSET Nat, minted : Nat, restarts : Nat]
    /\ closer \in [at : {"open", "locking", "deleting", "closed"}, token : Nat]
    /\ given \in Nat
    /\ made \in [Threads -> Nat]
    /\ \A l \in late : l.by \in Threads /\ l.nth \in Nat /\ l.nth <= made[l.by]

\* A call of the view has the session lock between its first look at the view
\* and the end of the pass of post_inline() or capabilities() it is in.
LockOK(t) ==
    call[t].sticky /\ pc[t] \in {"capsClient", "options", "client", "wait", "returned"} =>
      slock = t

\* What is on the wire of a thread, and which token a request carries.
WireOK(t) ==
    /\ wire[t].kind \in {"idle", "options", "method", "url", "answer", "failed"}
    /\ pc[t] \notin {"options", "wait", "returned"} => wire[t].kind = "idle"
    /\ pc[t] = "options" => wire[t].kind \in {"options", "answer", "failed"}
    /\ pc[t] = "wait" => wire[t].kind \in {call[t].what, "answer", "failed"}
    /\ pc[t] = "returned" => wire[t].kind = "answer"
    /\ wire[t].kind = "answer" => wire[t].token \in Nat /\ wire[t].limits \in Limits
    /\ wire[t].kind = "method" =>
         wire[t].token = IF call[t].sticky THEN view.token ELSE NoToken

\* A call that may not be repeated has run only if its request has left the
\* wire and was not refused.
RunsOK(t) ==
    ~call[t].idem =>
      /\ runs[t] <= 1
      /\ pc[t] \notin {"idle", "wait", "returned"} => runs[t] = 0
      /\ pc[t] \in {"wait", "returned"} =>
           /\ wire[t].kind \in {"method", "url"} \/ call[t].what = "url" => runs[t] = 0
           /\ wire[t].kind = "answer" /\ wire[t].status # 200 => runs[t] = 0
           /\ wire[t].kind = "answer" /\ wire[t].status = 200 /\ call[t].what = "method" =>
                runs[t] = 1 \/ wire[t].body = <<"exception">>
      /\ pc[t] = "idle" /\ ended[t] = "result" => runs[t] = 1
      /\ pc[t] = "idle" /\ ended[t] = "refused" => runs[t] = 0

ThreadOK(t) == LockOK(t) /\ WireOK(t) /\ RunsOK(t)

\* The late requests of a thread's last call.
LastOf(t) == {l \in late : l.by = t /\ l.nth = made[t]}

\* No request of the thread's last call can run behind its back.
NoLate(t) == \A l \in LastOf(t) : l.idem

\* Where the call is that a late request belongs to.
GivenUp(t, l) ==
    \/ pc[t] = "idle" /\ ended[t] = "transport"
    \/ /\ pc[t] = "wait" /\ wire[t].kind = "failed" /\ call[t].what = "method"
       /\ l.sticky => call[t].sticky /\ l.req.token = view.token

\* A late request that may not be repeated is the one request its call sent
\* without an answer.
LateOK(t) ==
    /\ \A l \in LastOf(t) :
         /\ l.idem = call[t].idem
         /\ ~l.sticky => l.req.token = NoToken
         /\ ~l.idem => runs[t] = 0 /\ GivenUp(t, l) /\ LastOf(t) = {l}

\* A token that left the view, by detach() or by close(), left a closed view
\* without one.
ViewInv ==
    /\ closer.at = "locking" => view.closed
    /\ given # NoToken \/ closer.token # NoToken => view.closed /\ view.token = NoToken
    /\ given = NoToken \/ closer.token = NoToken

IndInv ==
    /\ WellTyped
    /\ \A t \in Threads : ThreadOK(t) /\ LateOK(t)
    /\ ViewInv

-----------------------------------------------------------------------------
(* Steps of one thread.                                                    *)

\* The other threads stay where they are.
Only(t) ==
    \A q \in Threads \ {t} :
      /\ pc'[q] = pc[q] /\ call'[q] = call[q] /\ wire'[q] = wire[q]
      /\ runs'[q] = runs[q] /\ ended'[q] = ended[q] /\ made'[q] = made[q]
      /\ \A l : l.by = q => (l \in late' <=> l \in late)

\* The session lock is taken when it is free and given back by its holder,
\* and the view gets another token under the lock only.
Guarded(t) ==
    /\ slock' # slock => slock \in {t, Nobody}
    /\ view'.token # view.token => slock \in {t, Nobody}

(* What another thread relies on is protected by the lock it holds. *)
LEMMA OthersKeep ==
    ASSUME IndInv, NEW t \in Threads, Only(t), Guarded(t), NEW q \in Threads, q # t
    PROVE  ThreadOK(q)' /\ LateOK(q)'
<1>1. ThreadOK(q) /\ LateOK(q)  BY DEF IndInv
<1>2. /\ pc'[q] = pc[q] /\ call'[q] = call[q] /\ wire'[q] = wire[q]
      /\ runs'[q] = runs[q] /\ ended'[q] = ended[q]
  BY DEF Only
<1>3. slock = q => UNCHANGED <<slock, view.token>>  BY HttpCallAssumption DEF Guarded
<1>4. LockOK(q)'  BY <1>1, <1>2, <1>3 DEF ThreadOK, LockOK
<1>5. WireOK(q)'
  <2>1. wire[q].kind = "method" /\ call[q].sticky => UNCHANGED view.token
    BY <1>1, <1>3 DEF ThreadOK, LockOK, WireOK
  <2> QED  BY <1>1, <1>2, <2>1 DEF ThreadOK, WireOK
<1>6. RunsOK(q)'  BY <1>1, <1>2 DEF ThreadOK, RunsOK
<1>7. LastOf(q)' = LastOf(q)  BY DEF Only, LastOf
<1>8. ASSUME NEW l \in LastOf(q), GivenUp(q, l) PROVE GivenUp(q, l)'
  <2>1. l.sticky /\ pc[q] = "wait" /\ call[q].sticky => UNCHANGED view.token
    BY <1>1, <1>3 DEF ThreadOK, LockOK
  <2> QED  BY <1>2, <1>8, <2>1 DEF GivenUp
<1>9. LateOK(q)'  BY <1>1, <1>2, <1>7, <1>8 DEF LateOK
<1> QED  BY <1>4, <1>5, <1>6, <1>9 DEF ThreadOK

(* So a step of a thread has to be looked at for that thread only. *)
LEMMA StepKeeps ==
    ASSUME IndInv, NEW t \in Threads, WellTyped', Only(t), Guarded(t), ThreadOK(t)', LateOK(t)',
           ViewInv'
    PROVE  IndInv'
<1>1. ASSUME NEW q \in Threads PROVE ThreadOK(q)' /\ LateOK(q)'  BY OthersKeep
<1> QED  BY <1>1 DEF IndInv

\* Thread t goes to a step with a call record and a message.
Places(t, step, c, m) ==
    /\ pc' = [pc EXCEPT ![t] = step] /\ step \in Steps
    /\ call' = [call EXCEPT ![t] = c] /\ c \in CallRecords
    /\ DOMAIN wire' = Threads /\ wire'[t] = m
    /\ \A q \in Threads \ {t} : wire'[q] = wire[q]
    /\ UNCHANGED <<runs, ended, made, late>>

(* Such an assignment changes the thread's own entries. *)
LEMMA PlacesOnly ==
    ASSUME WellTyped, NEW t \in Threads, NEW step, NEW c, NEW m, Places(t, step, c, m)
    PROVE  /\ Only(t)
           /\ pc'[t] = step /\ call'[t] = c /\ wire'[t] = m
           /\ runs'[t] = runs[t] /\ ended'[t] = ended[t]
           /\ pc' \in [Threads -> Steps] /\ call' \in [Threads -> CallRecords]
           /\ DOMAIN wire' = Threads /\ DOMAIN ended' = Threads
           /\ runs' \in [Threads -> Nat] /\ UNCHANGED <<made, late>>
BY DEF WellTyped, Places, Only

(* A call that is under way and has not just failed has left no request    *)
(* behind that may not be repeated, and a call that may be repeated never  *)
(* does.                                                                   *)
LEMMA NoneLate ==
    ASSUME IndInv, NEW t \in Threads,
           call[t].idem \/ (pc[t] # "idle" /\ ~(pc[t] = "wait" /\ wire[t].kind = "failed"))
    PROVE  NoLate(t)
<1>1. LateOK(t)  BY DEF IndInv
<1>2. ASSUME NEW l \in LastOf(t), ~l.idem PROVE FALSE
  <2>1. GivenUp(t, l) /\ ~call[t].idem  BY <1>1, <1>2 DEF LateOK
  <2> QED  BY <2>1 DEF GivenUp
<1> QED  BY <1>2 DEF NoLate

(* Nothing is said of late requests of a call that left none behind.       *)
LEMMA NoneLateKeeps ==
    ASSUME IndInv, NEW t \in Threads, NoLate(t), UNCHANGED <<made, late>>,
           call'[t].idem = call[t].idem
    PROVE  LateOK(t)'
<1>1. LateOK(t) /\ LastOf(t)' = LastOf(t)  BY DEF IndInv, LastOf
<1> QED  BY <1>1 DEF LateOK, NoLate

(* A step inside a call that neither runs nor ends it, and leaves the view  *)
(* alone.                                                                   *)
LEMMA PlacesKeeps ==
    ASSUME IndInv, NEW t \in Threads, NEW step, NEW c, NEW m, Places(t, step, c, m),
           UNCHANGED <<view, srv, closer, given>>,
           caps' \in Knowledge,
           slock' # slock => slock \in {t, Nobody},
           c.idem = call[t].idem, NoLate(t),
           ThreadOK(t)'
    PROVE  IndInv'
<1>1. WellTyped  BY DEF IndInv
<1>2. Only(t)  BY <1>1, PlacesOnly
<1>3. WellTyped'  BY <1>1, PlacesOnly DEF WellTyped
<1>4. Guarded(t)  BY DEF Guarded
<1>5. ViewInv'  BY DEF IndInv, ViewInv
<1>6. LateOK(t)'  BY <1>1, PlacesOnly, NoneLateKeeps
<1> QED  BY <1>2, <1>3, <1>4, <1>5, <1>6, StepKeeps

(* The call ends: the outcome it reports is compared with what has run,    *)
(* and what it leaves behind is its own.                                   *)
LEMMA EndLeaves ==
    ASSUME IndInv, NEW t \in Threads, NEW how, End(t, how),
           UNCHANGED <<srv, closer, given>>,
           caps' \in Knowledge,
           view' \in [token : Nat, closed : BOOLEAN],
           view'.token # view.token => slock = t,
           ViewInv',
           ~call[t].idem /\ how = "result" => runs[t] = 1,
           ~call[t].idem /\ how = "refused" => runs[t] = 0,
           \A l : l.by # t => (l \in late' <=> l \in late),
           \A l \in late' : l \in late \/ (l.by = t /\ l.nth = made[t]),
           LateOK(t)'
    PROVE  IndInv'
<1>1. WellTyped /\ ThreadOK(t)  BY DEF IndInv
<1>2. PICK c \in CallRecords : c = [NoCall EXCEPT !.idem = call[t].idem]
  <2>1. call[t] \in CallRecords /\ NoCall \in CallRecords
    BY <1>1 DEF WellTyped, CallRecords, NoCall
  <2>2. call[t].idem \in BOOLEAN  BY <2>1 DEF CallRecords
  <2>3. [NoCall EXCEPT !.idem = call[t].idem] \in CallRecords  BY <2>1, <2>2 DEF CallRecords
  <2> QED  BY <2>3
<1>3. c.idem = call[t].idem /\ c.sticky = FALSE  BY <1>2 DEF NoCall
<1>4. /\ pc' = [pc EXCEPT ![t] = "idle"] /\ wire' = [wire EXCEPT ![t] = Idle]
      /\ ended' = [ended EXCEPT ![t] = how] /\ call' = [call EXCEPT ![t] = c]
      /\ slock' = IF slock = t THEN Nobody ELSE slock
      /\ runs' = runs /\ made' = made
  BY <1>2 DEF End, Release
<1>5. /\ Only(t)
      /\ pc'[t] = "idle" /\ call'[t] = c /\ wire'[t] = Idle /\ ended'[t] = how
      /\ runs'[t] = runs[t]
      /\ pc' \in [Threads -> Steps] /\ call' \in [Threads -> CallRecords]
      /\ DOMAIN wire' = Threads /\ DOMAIN ended' = Threads
      /\ runs' \in [Threads -> Nat]
  BY <1>1, <1>4 DEF WellTyped, Only, Steps
<1>6. WellTyped'
  <2>1. \A l \in late' : l.by \in Threads /\ l.nth \in Nat /\ l.nth <= made[l.by]
    BY <1>1 DEF WellTyped
  <2> QED  BY <1>1, <1>4, <1>5, <2>1 DEF WellTyped
<1>7. Guarded(t)  BY <1>4 DEF Guarded
<1>8. ThreadOK(t)'
  <2>1. LockOK(t)'  BY <1>3, <1>5 DEF LockOK
  <2>2. WireOK(t)'  BY <1>5 DEF WireOK, Idle
  <2>3. RunsOK(t)'  BY <1>1, <1>3, <1>5 DEF ThreadOK, RunsOK
  <2> QED  BY <2>1, <2>2, <2>3 DEF ThreadOK
<1> QED  BY <1>5, <1>6, <1>7, <1>8, StepKeeps

(* The call ends and leaves no request behind but one that is there        *)
(* already.                                                                *)
LEMMA EndKeeps ==
    ASSUME IndInv, NEW t \in Threads, NEW how, End(t, how),
           UNCHANGED <<srv, closer, given, late>>,
           caps' \in Knowledge,
           view' \in [token : Nat, closed : BOOLEAN],
           view'.token # view.token => slock = t,
           ViewInv',
           ~call[t].idem /\ how = "result" => runs[t] = 1,
           ~call[t].idem /\ how = "refused" => runs[t] = 0,
           how = "transport" \/ NoLate(t)
    PROVE  IndInv'
<1>1. WellTyped /\ LateOK(t)  BY DEF IndInv
<1>2. /\ pc'[t] = "idle" /\ ended'[t] = how /\ UNCHANGED <<runs, made>>
      /\ call'[t].idem = call[t].idem
  BY <1>1 DEF End, WellTyped, NoCall
<1>3. LateOK(t)'
  <2>1. CASE NoLate(t)  BY <1>2, <2>1, NoneLateKeeps
  <2>2. CASE how = "transport"
    <3>1. LastOf(t)' = LastOf(t)  BY <1>2 DEF LastOf
    <3>2. ASSUME NEW l PROVE GivenUp(t, l)'  BY <1>2, <2>2 DEF GivenUp
    <3> QED  BY <1>1, <1>2, <3>1, <3>2 DEF LateOK
  <2> QED  BY <2>1, <2>2
<1> QED  BY <1>3, EndLeaves

-----------------------------------------------------------------------------
(* The client's steps.                                                     *)

(* A new call has run nothing and has nothing on the wire. *)
LEMMA BeginKeeps ==
    ASSUME IndInv, NEW t \in Threads, NEW x \in Calls[t], Begin(t, x)
    PROVE  IndInv'
<1>1. WellTyped /\ ThreadOK(t) /\ pc[t] = "idle"  BY DEF IndInv, Begin
<1>2. PICK c \in CallRecords :
        c = [NoCall EXCEPT !.idem = x.idem, !.big = x.big, !.sticky = x.sticky]
  <2>1. NoCall \in CallRecords  BY DEF CallRecords, NoCall
  <2>2. x \in [idem : BOOLEAN, big : BOOLEAN, sticky : BOOLEAN]  BY HttpCallAssumption
  <2>3. x.idem \in BOOLEAN /\ x.big \in BOOLEAN /\ x.sticky \in BOOLEAN  BY <2>2
  <2>4. [NoCall EXCEPT !.idem = x.idem, !.big = x.big, !.sticky = x.sticky] \in CallRecords
    BY <2>1, <2>3 DEF CallRecords
  <2> QED  BY <2>4
<1>3. /\ pc' = [pc EXCEPT ![t] = "caps"] /\ call' = [call EXCEPT ![t] = c]
      /\ runs' = [runs EXCEPT ![t] = 0] /\ ended' = [ended EXCEPT ![t] = "none"]
      /\ made' = [made EXCEPT ![t] = @ + 1]
      /\ UNCHANGED <<wire, slock, view, caps, srv, closer, given, late>>
  BY <1>2 DEF Begin, Goto
<1>4. /\ Only(t)
      /\ pc'[t] = "caps" /\ wire'[t] = wire[t] /\ runs'[t] = 0
      /\ pc' \in [Threads -> Steps] /\ call' \in [Threads -> CallRecords]
      /\ DOMAIN ended' = Threads /\ runs' \in [Threads -> Nat]
      /\ made' \in [Threads -> Nat] /\ made'[t] = made[t] + 1
  BY <1>1, <1>3 DEF WellTyped, Only, Steps
<1>5. WellTyped' /\ Guarded(t)
  <2>1. \A l \in late' : l.by \in Threads /\ l.nth \in Nat /\ l.nth <= made'[l.by]
    BY <1>1, <1>3 DEF WellTyped
  <2> QED  BY <1>1, <1>3, <1>4, <2>1 DEF WellTyped, Guarded
<1>6. ThreadOK(t)'
  BY <1>1, <1>3, <1>4 DEF ThreadOK, LockOK, WireOK, RunsOK
<1>7. ViewInv'  BY <1>3 DEF IndInv, ViewInv
<1>8. LateOK(t)'
  <2>1. LastOf(t)' = {}  BY <1>1, <1>3, <1>4 DEF LastOf, WellTyped
  <2> QED  BY <2>1 DEF LateOK
<1> QED  BY <1>4, <1>5, <1>6, <1>7, <1>8, StepKeeps

(* The session lock is taken, and a closed view refused, by capabilities() *)
(* and by post_inline() alike.                                             *)
LEMMA SessionKeeps ==
    ASSUME IndInv, NEW t \in Threads, CapsSession(t) \/ InlineSession(t)
    PROVE  IndInv'
<1>1. WellTyped /\ ThreadOK(t)  BY DEF IndInv
<1>2. /\ pc[t] \in {"caps", "session"} /\ UNCHANGED <<view, caps, srv, closer, given, late>>
      /\ call[t].sticky => slock = Nobody
  BY DEF CapsSession, InlineSession
<1>0. NoLate(t)  BY <1>2, NoneLate
<1>3. CASE End(t, "closed")
  <2>1. ViewInv'  BY <1>2 DEF IndInv, ViewInv
  <2> QED  BY <1>0, <1>1, <1>2, <1>3, <2>1, EndKeeps DEF WellTyped
<1>4. CASE ~End(t, "closed")
  <2>1. PICK step \in {"capsClient", "client"} : Goto(t, step)
    BY <1>4 DEF CapsSession, InlineSession
  <2>2. /\ UNCHANGED <<wire, ended, made, call, runs>>
        /\ call[t].sticky => slock' = t
        /\ ~call[t].sticky => slock' = slock
    BY <1>4 DEF CapsSession, InlineSession
  <2>3. Places(t, step, call[t], wire[t])
    BY <1>1, <1>2, <2>1, <2>2 DEF Places, Goto, WellTyped, Steps
  <2>4. pc'[t] = step /\ call'[t] = call[t] /\ wire'[t] = wire[t] /\ runs'[t] = runs[t]
    BY <1>1, <2>3, PlacesOnly
  <2>5. ThreadOK(t)'
    <3>1. LockOK(t)'  BY <2>2, <2>4 DEF LockOK
    <3>2. WireOK(t)'  BY <1>1, <1>2, <2>4 DEF ThreadOK, WireOK
    <3>3. RunsOK(t)'  BY <1>1, <1>2, <2>4 DEF ThreadOK, RunsOK
    <3> QED  BY <3>1, <3>2, <3>3 DEF ThreadOK
  <2>6. slock' # slock => slock \in {t, Nobody}  BY <1>2, <2>2
  <2> QED  BY <1>0, <1>1, <1>2, <2>3, <2>5, <2>6, PlacesKeeps DEF WellTyped
<1> QED  BY <1>3, <1>4

(* The OPTIONS request is sent with both locks held, or is not needed. *)
LEMMA CapsClientKeeps ==
    ASSUME IndInv, NEW t \in Threads, CapsClient(t)
    PROVE  IndInv'
<1>1. WellTyped /\ ThreadOK(t) /\ call[t] \in CallRecords  BY DEF IndInv, WellTyped
<1>2. /\ pc[t] = "capsClient"
      /\ UNCHANGED <<view, caps, srv, made, runs, ended, closer, given, late>>
  BY DEF CapsClient
<1>0. NoLate(t)  BY <1>2, NoneLate
<1>3. CASE caps.fetched
  <2>1. /\ Places(t, AfterCaps(t), call[t], wire[t])
        /\ slock' = IF slock = t THEN Nobody ELSE slock
    BY <1>1, <1>2, <1>3 DEF CapsClient, Places, Goto, AfterCaps, Release, WellTyped, Steps
  <2>2. pc'[t] \in {"decide", "session"}
    BY <1>1, <2>1, PlacesOnly DEF AfterCaps
  <2>3. call'[t] = call[t] /\ wire'[t] = wire[t] /\ runs'[t] = runs[t]
    BY <1>1, <2>1, PlacesOnly
  <2>4. ThreadOK(t)'
    BY <1>1, <1>2, <2>2, <2>3 DEF ThreadOK, LockOK, WireOK, RunsOK
  <2> QED  BY <1>0, <1>1, <1>2, <2>1, <2>4, PlacesKeeps DEF WellTyped
<1>4. CASE ~caps.fetched
  <2>1. PICK c \in CallRecords : c = [call[t] EXCEPT !.attempt = 1]
    <3>1. [call[t] EXCEPT !.attempt = 1] \in CallRecords  BY <1>1 DEF CallRecords
    <3> QED  BY <3>1
  <2>2. PICK m : m = RequestOf(t, "options")  OBVIOUS
  <2>3. /\ Places(t, "options", c, m) /\ slock' = slock
    BY <1>1, <1>2, <1>4, <2>1, <2>2 DEF CapsClient, Places, Goto, WellTyped, Steps
  <2>4. /\ pc'[t] = "options" /\ call'[t] = c /\ wire'[t] = m /\ runs'[t] = runs[t]
    BY <1>1, <2>3, PlacesOnly
  <2>5. c.sticky = call[t].sticky /\ c.idem = call[t].idem /\ m.kind = "options"
    BY <1>1, <2>1, <2>2 DEF CallRecords, RequestOf
  <2>6. ThreadOK(t)'
    BY <1>1, <1>2, <2>3, <2>4, <2>5 DEF ThreadOK, LockOK, WireOK, RunsOK
  <2> QED  BY <1>0, <1>1, <1>2, <2>3, <2>5, <2>6, PlacesKeeps DEF WellTyped
<1> QED  BY <1>3, <1>4

(* What is harvested from an answer is knowledge of the same kind. *)
LEMMA HarvestTyped ==
    ASSUME WellTyped, NEW l \in Limits
    PROVE  /\ Harvest(l) \in Knowledge
           /\ \A b \in BOOLEAN : /\ [Harvest(l) EXCEPT !.fetched = b] \in Knowledge
                                 /\ [Harvest(l) EXCEPT !.zstd = b] \in Knowledge
<1>1. Harvest(l) \in Knowledge
  <2>1. /\ caps.fetched \in BOOLEAN /\ caps.small \in BOOLEAN
        /\ caps.zstd \in BOOLEAN /\ caps.uploads \in BOOLEAN
        /\ l.small \in BOOLEAN /\ l.zstd \in BOOLEAN /\ l.uploads \in BOOLEAN
    BY DEF WellTyped, Knowledge, Limits
  <2>2. /\ (caps.zstd /\ l.zstd) \in BOOLEAN /\ (caps.uploads \/ l.uploads) \in BOOLEAN
        /\ (IF l.small \/ l.uploads THEN l.small ELSE caps.small) \in BOOLEAN
    BY <2>1
  <2> QED  BY <2>1, <2>2, Zenon DEF Harvest, Knowledge
<1> QED  BY <1>1 DEF Knowledge

(* An OPTIONS request is repeated, ends the call, or fills the cache and   *)
(* gives both locks back.                                                  *)
LEMMA CapsAnswerKeeps ==
    ASSUME IndInv, NEW t \in Threads, CapsAnswer(t)
    PROVE  IndInv'
<1>1. WellTyped /\ ThreadOK(t) /\ call[t] \in CallRecords /\ caps \in Knowledge
      /\ view \in [token : Nat, closed : BOOLEAN]
  BY DEF IndInv, WellTyped
<1>2. /\ pc[t] = "options" /\ UNCHANGED <<view, srv, closer, given, late>>
      /\ wire[t].kind \in {"answer", "failed"}
  BY DEF CapsAnswer
<1>3. ViewInv'  BY <1>2 DEF IndInv, ViewInv
<1>4. ~call[t].idem => runs[t] = 0  BY <1>1, <1>2 DEF ThreadOK, RunsOK
<1>0. NoLate(t)  BY <1>2, NoneLate
<1>5. CASE UNCHANGED caps /\ \E how \in {"transport", "refused", "closed"} : End(t, how)
  BY <1>0, <1>1, <1>2, <1>3, <1>4, <1>5, EndKeeps
<1>6. CASE /\ call' = [call EXCEPT ![t].attempt = @ + 1]
           /\ wire' = [wire EXCEPT ![t] = RequestOf(t, "options")]
           /\ UNCHANGED <<pc, slock, clock, caps, ended, made, runs>>
  <2>1. call[t].attempt + 1 \in Nat \ {0}  BY <1>1 DEF CallRecords
  <2>2. PICK c \in CallRecords : c = [call[t] EXCEPT !.attempt = call[t].attempt + 1]
    <3>1. [call[t] EXCEPT !.attempt = call[t].attempt + 1] \in CallRecords
      BY <1>1, <2>1 DEF CallRecords
    <3> QED  BY <3>1
  <2>3. PICK m : m = RequestOf(t, "options")  OBVIOUS
  <2>4. Places(t, "options", c, m)
    BY <1>1, <1>2, <1>6, <2>2, <2>3 DEF Places, WellTyped, Steps
  <2>5. pc'[t] = "options" /\ call'[t] = c /\ wire'[t] = m /\ runs'[t] = runs[t]
    BY <1>1, <2>4, PlacesOnly
  <2>6. c.sticky = call[t].sticky /\ c.idem = call[t].idem /\ m.kind = "options"
    BY <1>1, <2>2, <2>3 DEF CallRecords, RequestOf
  <2>7. ThreadOK(t)'
    BY <1>1, <1>2, <1>6, <2>5, <2>6 DEF ThreadOK, LockOK, WireOK, RunsOK
  <2> QED  BY <1>0, <1>1, <1>2, <1>6, <2>4, <2>6, <2>7, PlacesKeeps
<1>7. CASE /\ caps' = [Harvest(wire[t].limits) EXCEPT !.fetched = TRUE]
           /\ wire' = [wire EXCEPT ![t] = Idle]
           /\ Goto(t, AfterCaps(t)) /\ Release(t)
           /\ UNCHANGED <<call, ended, made, runs>>
           /\ StatusOf(wire[t]) = 200
  <2>1. Places(t, AfterCaps(t), call[t], Idle)
    BY <1>1, <1>2, <1>7 DEF Places, Goto, AfterCaps, WellTyped, Steps
  <2>2. /\ pc'[t] \in {"decide", "session"} /\ call'[t] = call[t] /\ wire'[t] = Idle
        /\ runs'[t] = runs[t]
    BY <1>1, <2>1, PlacesOnly DEF AfterCaps
  <2>3. ThreadOK(t)'
    BY <1>1, <1>4, <2>2 DEF ThreadOK, LockOK, WireOK, RunsOK, Idle
  <2>4. wire[t].limits \in Limits  BY <1>1, <1>7 DEF ThreadOK, WireOK, StatusOf
  <2>5. caps' \in Knowledge
    <3>1. [Harvest(wire[t].limits) EXCEPT !.fetched = TRUE] \in Knowledge
      BY <1>1, <2>4, HarvestTyped
    <3> QED  BY <1>7, <3>1
  <2>6. slock' # slock => slock \in {t, Nobody}  BY <1>7 DEF Release
  <2> QED  BY <1>0, <1>2, <2>1, <2>3, <2>5, <2>6, PlacesKeeps
<1> QED  BY <1>5, <1>6, <1>7 DEF CapsAnswer

(* post() and externalize_request() choose the next pass without a lock. *)
LEMMA DecideKeeps ==
    ASSUME IndInv, NEW t \in Threads, Decide(t) \/ Externalize(t) \/ Put(t)
    PROVE  IndInv'
<1>1. WellTyped /\ ThreadOK(t) /\ call[t] \in CallRecords /\ caps \in Knowledge
      /\ view \in [token : Nat, closed : BOOLEAN]
  BY DEF IndInv, WellTyped
<1>2. /\ pc[t] \in {"decide", "ext", "put"} /\ UNCHANGED <<view, caps, srv, closer, given, late>>
  BY DEF Decide, Externalize, Put
<1>3. ViewInv'  BY <1>2 DEF IndInv, ViewInv
<1>4. ~call[t].idem => runs[t] = 0  BY <1>1, <1>2 DEF ThreadOK, RunsOK
<1>0. NoLate(t)  BY <1>2, NoneLate
<1>5. CASE End(t, "refused")  BY <1>0, <1>1, <1>2, <1>3, <1>4, <1>5, EndKeeps
<1>6. CASE ~End(t, "refused")
  <2>1. /\ UNCHANGED <<wire, slock, runs, made, ended>>
        /\ \E step \in {"ext", "caps"} : Goto(t, step)
    BY <1>6 DEF Decide, Externalize, Put
  <2>2. \/ UNCHANGED call
        \/ call' = [call EXCEPT ![t].ret = "inline"]
        \/ call' = [call EXCEPT ![t].what = "url", ![t].ret = "inline", ![t].ext = TRUE]
        \/ call' = [call EXCEPT ![t].what = "method", ![t].pointer = TRUE, ![t].ret = "inline"]
    BY <1>6 DEF Decide, Externalize, Put
  <2>3. PICK c \in CallRecords : call' = [call EXCEPT ![t] = c] /\ c.idem = call[t].idem
    <3> DEFINE r == call[t]
    <3>1. /\ r \in CallRecords /\ [r EXCEPT !.ret = "inline"] \in CallRecords
          /\ [r EXCEPT !.what = "url", !.ret = "inline", !.ext = TRUE] \in CallRecords
          /\ [r EXCEPT !.what = "method", !.pointer = TRUE, !.ret = "inline"] \in CallRecords
      BY <1>1 DEF CallRecords
    <3>2. /\ [r EXCEPT !.ret = "inline"].idem = r.idem
          /\ [r EXCEPT !.what = "url", !.ret = "inline", !.ext = TRUE].idem = r.idem
          /\ [r EXCEPT !.what = "method", !.pointer = TRUE, !.ret = "inline"].idem = r.idem
      BY <1>1 DEF CallRecords
    <3>3. \E c \in {r, [r EXCEPT !.ret = "inline"],
                    [r EXCEPT !.what = "url", !.ret = "inline", !.ext = TRUE],
                    [r EXCEPT !.what = "method", !.pointer = TRUE, !.ret = "inline"]} :
            call' = [call EXCEPT ![t] = c]
      BY <1>1, <2>2 DEF WellTyped
    <3> QED  BY <3>1, <3>2, <3>3
  <2>4. PICK step \in {"ext", "caps"} : Goto(t, step)  BY <2>1
  <2>5. Places(t, step, c, wire[t])
    BY <1>1, <1>2, <2>1, <2>3, <2>4 DEF Places, Goto, WellTyped, Steps
  <2>6. pc'[t] = step /\ call'[t] = c /\ wire'[t] = wire[t] /\ runs'[t] = runs[t]
    BY <1>1, <2>5, PlacesOnly
  <2>7. ThreadOK(t)'
    BY <1>1, <1>2, <1>4, <2>3, <2>6 DEF ThreadOK, LockOK, WireOK, RunsOK
  <2> QED  BY <1>0, <1>1, <1>2, <2>1, <2>3, <2>5, <2>7, PlacesKeeps
<1> QED  BY <1>5, <1>6

(* A send sets the attempt and the compression of the call. *)
LEMMA SendTyped ==
    ASSUME NEW r \in CallRecords, NEW n \in Nat \ {0}, NEW b \in BOOLEAN
    PROVE  [r EXCEPT !.attempt = n, !.zstd = b] \in CallRecords
BY DEF CallRecords

(* The first send of a pass, with both locks held. *)
LEMMA InlineClientKeeps ==
    ASSUME IndInv, NEW t \in Threads, InlineClient(t)
    PROVE  IndInv'
<1>1. WellTyped /\ ThreadOK(t) /\ call[t] \in CallRecords /\ caps \in Knowledge
      /\ view \in [token : Nat, closed : BOOLEAN]
  BY DEF IndInv, WellTyped
<1>2. pc[t] = "client" /\ UNCHANGED <<view, caps, srv, closer, given, late>>  BY DEF InlineClient
<1>3. ViewInv'  BY <1>2 DEF IndInv, ViewInv
<1>4. ~call[t].idem => runs[t] = 0  BY <1>1, <1>2 DEF ThreadOK, RunsOK
<1>0. NoLate(t)  BY <1>2, NoneLate
<1>5. CASE End(t, "refused")  BY <1>0, <1>1, <1>2, <1>3, <1>4, <1>5, EndKeeps
<1>6. CASE ~End(t, "refused")
  <2>1. PICK c \in CallRecords : c = [call[t] EXCEPT !.attempt = 1, !.zstd = caps.zstd]
    <3>1. caps.zstd \in BOOLEAN  BY <1>1 DEF Knowledge
    <3>2. 1 \in Nat \ {0}  OBVIOUS
    <3>3. [call[t] EXCEPT !.attempt = 1, !.zstd = caps.zstd] \in CallRecords
      BY <1>1, <3>1, <3>2, SendTyped, Zenon
    <3> QED  BY <3>3
  <2>2. PICK m : m = [RequestOf(t, call[t].what) EXCEPT !.zstd = caps.zstd]  OBVIOUS
  <2>3. /\ pc' = [pc EXCEPT ![t] = "wait"] /\ UNCHANGED <<slock, made, runs, ended>>
        /\ call' = [call EXCEPT ![t].attempt = 1, ![t].zstd = caps.zstd]
        /\ wire' = [wire EXCEPT ![t] = m]
    BY <1>6, <2>2 DEF InlineClient, Goto
  <2>4. call' = [call EXCEPT ![t] = c]  BY <1>1, <2>1, <2>3 DEF WellTyped
  <2>5. Places(t, "wait", c, m)  BY <1>1, <1>2, <2>3, <2>4 DEF Places, WellTyped, Steps
  <2>6. pc'[t] = "wait" /\ call'[t] = c /\ wire'[t] = m /\ runs'[t] = runs[t]
    BY <1>1, <2>5, PlacesOnly
  <2>7. c.sticky = call[t].sticky /\ c.idem = call[t].idem /\ c.what = call[t].what
    BY <1>1, <2>1 DEF CallRecords
  <2>8. m.kind = c.what /\ m.token = IF c.sticky THEN view.token ELSE NoToken
    BY <2>2, <2>7 DEF RequestOf
  <2>9. c.what \in {"method", "url"}  BY DEF CallRecords
  <2>10. ThreadOK(t)'
    BY <1>1, <1>2, <1>4, <2>3, <2>6, <2>7, <2>8, <2>9 DEF ThreadOK, LockOK, WireOK, RunsOK
  <2> QED  BY <1>0, <1>1, <1>2, <2>3, <2>5, <2>7, <2>10, PlacesKeeps
<1> QED  BY <1>5, <1>6

\* The answer is taken out of post_inline(): another send, or back to post().
Resends(t) ==
    \E c \in CallRecords :
      /\ c.sticky = call[t].sticky /\ c.idem = call[t].idem /\ c.what = call[t].what
      /\ call' = [call EXCEPT ![t] = c]
      /\ wire' = [wire EXCEPT ![t] = [RequestOf(t, c.what) EXCEPT !.zstd = c.zstd]]
      /\ UNCHANGED <<pc, slock, ended, made, runs>>

(* What Receive does, case by case.  A call that may not be repeated is    *)
(* sent again only after a 415, which is answered before any dispatch.     *)
LEMMA ReceiveCases ==
    ASSUME IndInv, NEW t \in Threads, Receive(t)
    PROVE  /\ caps' \in Knowledge /\ UNCHANGED <<view, srv, closer, given, late>> /\ pc[t] = "wait"
           /\ \/ /\ Resends(t) /\ (~call[t].idem => runs[t] = 0)
                 /\ call[t].idem \/ wire[t].kind = "answer"
              \/ End(t, "transport")
              \/ End(t, "refused") /\ (~call[t].idem => runs[t] = 0) /\ wire[t].kind = "answer"
              \/ /\ wire[t].kind = "answer" /\ Goto(t, "returned")
                 /\ UNCHANGED <<slock, call, wire, ended, made, runs>>
<1>1. WellTyped /\ ThreadOK(t) /\ call[t] \in CallRecords /\ caps \in Knowledge
  BY DEF IndInv, WellTyped
<1>2. /\ pc[t] = "wait" /\ UNCHANGED <<view, srv, closer, given, late>>
      /\ wire[t].kind \in {"answer", "failed"}
  BY DEF Receive
<1> DEFINE status == StatusOf(wire[t])
           again == WorthRetrying(wire[t]) /\ call[t].attempt < Attempts(t)
           plain == status = 415 /\ call[t].zstd
<1>3. status # 0 => wire[t].kind = "answer" /\ wire[t].status = status
  BY DEF StatusOf
<1>4. caps' \in Knowledge
  <2>1. CASE status = 0  BY <1>1, <2>1 DEF Receive
  <2>2. CASE status # 0
    <3>1. wire[t].limits \in Limits  BY <1>1, <1>3, <2>2 DEF ThreadOK, WireOK
    <3>2. Harvest(wire[t].limits) \in Knowledge
      BY <1>1, <3>1, HarvestTyped
    <3>3. PICK h \in Knowledge : h = Harvest(wire[t].limits)  BY <3>2
    <3>4. /\ [h EXCEPT !.zstd = FALSE] \in Knowledge /\ [h EXCEPT !.zstd = h.zstd] \in Knowledge
      BY DEF Knowledge
    <3>5. caps' = [h EXCEPT !.zstd = IF plain THEN FALSE ELSE @]
      BY <2>2, <3>3 DEF Receive
    <3>6. CASE plain  BY <3>4, <3>5, <3>6
    <3>7. CASE ~plain  BY <3>4, <3>5, <3>7
    <3> QED  BY <3>6, <3>7
  <2> QED  BY <2>1, <2>2
<1>5. status \notin {0, 200} /\ ~call[t].idem => runs[t] = 0
  BY <1>1, <1>2, <1>3 DEF ThreadOK, RunsOK
<1>6. ~call[t].idem => ~again  BY <1>1 DEF Attempts, CallRecords
<1>7. CASE (again \/ plain) /\ SendAgain(t, plain) /\ UNCHANGED <<pc, slock, clock, ended, made, runs>>
  <2>1. PICK c \in CallRecords :
          c = IF plain THEN [call[t] EXCEPT !.attempt = 1, !.zstd = FALSE]
              ELSE [call[t] EXCEPT !.attempt = @ + 1]
    <3>1. PICK r \in CallRecords : r = call[t]  BY <1>1
    <3>2. r.attempt + 1 \in Nat \ {0}  BY DEF CallRecords
    <3>3. [r EXCEPT !.attempt = 1, !.zstd = FALSE] \in CallRecords
      <4>1. 1 \in Nat \ {0}  OBVIOUS
      <4> QED  BY <4>1, SendTyped, Zenon
    <3>4. \A n \in Nat \ {0} : [r EXCEPT !.attempt = n] \in CallRecords
      BY DEF CallRecords
    <3> QED  BY <3>1, <3>2, <3>3, <3>4
  <2>2. c.sticky = call[t].sticky /\ c.idem = call[t].idem /\ c.what = call[t].what
    BY <1>1, <2>1 DEF CallRecords
  <2>3. Resends(t)  BY <1>7, <2>1, <2>2 DEF Resends, SendAgain
  <2>4. /\ ~call[t].idem => runs[t] = 0
        /\ call[t].idem \/ wire[t].kind = "answer"
    BY <1>3, <1>5, <1>6, <1>7
  <2> QED  BY <1>2, <1>4, <2>3, <2>4
<1>8. CASE End(t, "transport")  BY <1>2, <1>4, <1>8
<1>9. CASE /\ status \in {401, 415, 503} \cup (IF External THEN {} ELSE {413})
           /\ End(t, "refused")
  <2>1. status \notin {0, 200}  BY <1>9
  <2> QED  BY <1>2, <1>3, <1>4, <1>5, <1>9, <2>1
<1>10. CASE status # 0 /\ Goto(t, "returned") /\ RetainGuard(t)
            /\ UNCHANGED <<call, wire, ended, made, runs>>
  BY <1>2, <1>3, <1>4, <1>10 DEF RetainGuard
<1>11. \/ (again \/ plain) /\ SendAgain(t, plain) /\ UNCHANGED <<pc, slock, clock, ended, made, runs>>
       \/ End(t, "transport")
       \/ /\ status \in {401, 415, 503} \cup (IF External THEN {} ELSE {413})
          /\ End(t, "refused")
       \/ status # 0 /\ Goto(t, "returned") /\ RetainGuard(t)
            /\ UNCHANGED <<call, wire, ended, made, runs>>
  BY DEF Receive
<1> QED  BY <1>7, <1>8, <1>9, <1>10, <1>11

(* A pass of post_inline() sends again, ends the call or returns with the  *)
(* session lock.                                                           *)
LEMMA ReceiveKeeps ==
    ASSUME IndInv, NEW t \in Threads, Receive(t)
    PROVE  IndInv'
<1>1. WellTyped /\ ThreadOK(t) /\ call[t] \in CallRecords
      /\ view \in [token : Nat, closed : BOOLEAN]
  BY DEF IndInv, WellTyped
<1>2. caps' \in Knowledge /\ UNCHANGED <<view, srv, closer, given, late>> /\ pc[t] = "wait"
  BY ReceiveCases
<1>3. ViewInv'  BY <1>2 DEF IndInv, ViewInv
<1>0. call[t].idem \/ wire[t].kind = "answer" => NoLate(t)  BY <1>2, NoneLate
<1>4. CASE /\ Resends(t) /\ (~call[t].idem => runs[t] = 0)
           /\ call[t].idem \/ wire[t].kind = "answer"
  <2>1. PICK c \in CallRecords :
          /\ c.sticky = call[t].sticky /\ c.idem = call[t].idem /\ c.what = call[t].what
          /\ call' = [call EXCEPT ![t] = c]
          /\ wire' = [wire EXCEPT ![t] = [RequestOf(t, c.what) EXCEPT !.zstd = c.zstd]]
          /\ UNCHANGED <<pc, slock, ended, made, runs>>
    BY <1>4 DEF Resends
  <2>2. PICK m : m = [RequestOf(t, c.what) EXCEPT !.zstd = c.zstd]  OBVIOUS
  <2>3. Places(t, "wait", c, m)
    BY <1>1, <1>2, <2>1, <2>2 DEF Places, WellTyped, Steps
  <2>4. pc'[t] = "wait" /\ call'[t] = c /\ wire'[t] = m /\ runs'[t] = runs[t]
    BY <1>1, <2>3, PlacesOnly
  <2>5. m.kind = c.what /\ m.token = IF c.sticky THEN view.token ELSE NoToken
    BY <2>1, <2>2 DEF RequestOf
  <2>6. c.what \in {"method", "url"}  BY DEF CallRecords
  <2>7. ThreadOK(t)'
    BY <1>1, <1>2, <1>4, <2>1, <2>4, <2>5, <2>6 DEF ThreadOK, LockOK, WireOK, RunsOK
  <2> QED  BY <1>0, <1>2, <1>4, <2>1, <2>3, <2>7, PlacesKeeps
<1>5. CASE End(t, "transport")
  BY <1>1, <1>2, <1>3, <1>5, EndKeeps
<1>6. CASE End(t, "refused") /\ (~call[t].idem => runs[t] = 0) /\ wire[t].kind = "answer"
  BY <1>0, <1>1, <1>2, <1>3, <1>6, EndKeeps
<1>7. CASE /\ wire[t].kind = "answer" /\ Goto(t, "returned")
           /\ UNCHANGED <<slock, call, wire, ended, made, runs>>
  <2>1. Places(t, "returned", call[t], wire[t])
    BY <1>1, <1>2, <1>7 DEF Places, Goto, WellTyped, Steps
  <2>2. pc'[t] = "returned" /\ call'[t] = call[t] /\ wire'[t] = wire[t] /\ runs'[t] = runs[t]
    BY <1>1, <2>1, PlacesOnly
  <2>3. ThreadOK(t)'
    BY <1>1, <1>2, <1>7, <2>2 DEF ThreadOK, LockOK, WireOK, RunsOK
  <2> QED  BY <1>0, <1>2, <1>7, <2>1, <2>3, PlacesKeeps
<1> QED  BY <1>4, <1>5, <1>6, <1>7, ReceiveCases

(* A 413 was answered before any dispatch, so the body may be uploaded. *)
LEMMA TooLargeKeeps ==
    ASSUME IndInv, NEW t \in Threads, TooLarge(t)
    PROVE  IndInv'
<1>1. WellTyped /\ ThreadOK(t) /\ call[t] \in CallRecords /\ caps \in Knowledge
      /\ view \in [token : Nat, closed : BOOLEAN]
  BY DEF IndInv, WellTyped
<1>2. /\ pc[t] = "returned" /\ wire[t].status = 413
      /\ UNCHANGED <<view, caps, srv, closer, given, late>>
  BY DEF TooLarge
<1>3. ViewInv'  BY <1>2 DEF IndInv, ViewInv
<1>4. ~call[t].idem => runs[t] = 0  BY <1>1, <1>2 DEF ThreadOK, WireOK, RunsOK
<1>0. NoLate(t)  BY <1>2, NoneLate
<1>5. CASE End(t, "refused")  BY <1>0, <1>1, <1>2, <1>3, <1>4, <1>5, EndKeeps
<1>6. CASE ~End(t, "refused")
  <2>1. /\ DropGuard(t) /\ Goto(t, "ext") /\ wire' = [wire EXCEPT ![t] = Idle]
        /\ UNCHANGED <<call, ended, made, runs>>
    BY <1>6 DEF TooLarge
  <2>2. Places(t, "ext", call[t], Idle)  BY <1>1, <1>2, <2>1 DEF Places, Goto, WellTyped, Steps
  <2>3. pc'[t] = "ext" /\ call'[t] = call[t] /\ wire'[t] = Idle /\ runs'[t] = runs[t]
    BY <1>1, <2>2, PlacesOnly
  <2>4. ThreadOK(t)'  BY <1>1, <1>4, <2>3 DEF ThreadOK, LockOK, WireOK, RunsOK, Idle
  <2>5. slock' # slock => slock \in {t, Nobody}  BY <2>1 DEF DropGuard
  <2> QED  BY <1>0, <1>1, <1>2, <2>2, <2>4, <2>5, PlacesKeeps
<1> QED  BY <1>5, <1>6

(* What a thread stops waiting for is a request of its last call. *)
LEMMA AbandonedIs ==
    ASSUME NEW t, NEW l \in Abandoned(t)
    PROVE  /\ wire[t].kind = "method" /\ l.req = wire[t] /\ l.by = t /\ l.nth = made[t]
           /\ l.idem = call[t].idem /\ l.sticky = call[t].sticky
           /\ Abandoned(t) = {l}
BY DEF Abandoned

(* A request that is waited for is the first of its call that can run.     *)
LEMMA AwaitedFirst ==
    ASSUME IndInv, NEW t \in Threads, wire[t].kind = "method"
    PROVE  /\ pc[t] = "wait" /\ call[t].what = "method" /\ NoLate(t)
           /\ ~call[t].idem => runs[t] = 0
           /\ wire[t].token = IF call[t].sticky THEN view.token ELSE NoToken
<1>1. WellTyped /\ ThreadOK(t) /\ call[t] \in CallRecords  BY DEF IndInv, WellTyped
<1>2. pc[t] = "wait" /\ call[t].what = "method"
  BY <1>1 DEF ThreadOK, WireOK, WellTyped, Steps
<1>3. NoLate(t)  BY <1>2, NoneLate
<1> QED  BY <1>1, <1>2, <1>3 DEF ThreadOK, WireOK, RunsOK

(* A request left behind belongs to a call that fails.                     *)
LEMMA AbandonedKeeps ==
    ASSUME IndInv, NEW t \in Threads, NEW l \in Abandoned(t), late' = late \cup {l},
           UNCHANGED <<made, runs, view>>, call'[t].idem = call[t].idem,
           GivenUp(t, l)'
    PROVE  LateOK(t)'
<1>1. LateOK(t)  BY DEF IndInv
<1>2. /\ wire[t].kind = "method" /\ l.req = wire[t] /\ l.by = t /\ l.nth = made[t]
      /\ l.idem = call[t].idem /\ l.sticky = call[t].sticky
  BY AbandonedIs
<1>3. /\ NoLate(t) /\ (~call[t].idem => runs[t] = 0)
      /\ wire[t].token = IF call[t].sticky THEN view.token ELSE NoToken
  BY <1>2, AwaitedFirst
<1>4. LastOf(t)' = LastOf(t) \cup {l}  BY <1>2 DEF LastOf
<1>5. ~call[t].idem => LastOf(t) = {}  BY <1>1, <1>3 DEF LateOK, NoLate
<1>6. ASSUME NEW k \in LastOf(t)'
      PROVE  /\ k.idem = call'[t].idem
             /\ ~k.sticky => k.req.token = NoToken
             /\ ~k.idem => runs'[t] = 0 /\ GivenUp(t, k)' /\ LastOf(t)' = {k}
  <2>1. CASE k = l  BY <1>2, <1>3, <1>4, <1>5, <2>1
  <2>2. CASE k \in LastOf(t)  BY <1>1, <1>5, <2>2 DEF LateOK
  <2> QED  BY <1>4, <1>6, <2>1, <2>2
<1> QED  BY <1>6 DEF LateOK

(* A deadline ends the call without a statement about what has run; the    *)
(* request it waited for may still run.                                    *)
LEMMA GiveUpKeeps ==
    ASSUME IndInv, NEW t \in Threads, GiveUp(t)
    PROVE  IndInv'
<1>1. WellTyped /\ caps \in Knowledge /\ view \in [token : Nat, closed : BOOLEAN]
  BY DEF IndInv, WellTyped
<1>2. /\ End(t, "transport") /\ UNCHANGED <<view, caps, srv, closer, given>>
      /\ late' = late \cup Abandoned(t)
  BY DEF GiveUp
<1>3. ViewInv'  BY <1>2 DEF IndInv, ViewInv
<1>4. CASE Abandoned(t) = {}  BY <1>1, <1>2, <1>3, <1>4, EndKeeps
<1>5. CASE Abandoned(t) # {}
  <2>1. PICK l \in Abandoned(t) : TRUE  BY <1>5
  <2>2. l.by = t /\ l.nth = made[t] /\ late' = late \cup {l}  BY <1>2, <2>1, AbandonedIs
  <2>3. /\ pc'[t] = "idle" /\ ended'[t] = "transport" /\ UNCHANGED <<runs, made>>
        /\ call'[t].idem = call[t].idem
    BY <1>1, <1>2 DEF End, WellTyped, NoCall
  <2>4. GivenUp(t, l)'  BY <2>3 DEF GivenUp
  <2>5. LateOK(t)'  BY <1>2, <2>1, <2>2, <2>3, <2>4, AbandonedKeeps
  <2> QED  BY <1>1, <1>2, <1>3, <2>2, <2>5, EndLeaves
<1> QED  BY <1>4, <1>5

(* An answer that is an exception is no result, resolved or not. *)
LEMMA ExceptionIsNoResult ==
    ASSUME NEW body \in Resolutions(<<"exception">>), NEW s
    PROVE  DecodeResponse(body, FALSE, s) # "result"
<1>1. body = <<"exception">>  BY DEF Resolutions
<1>2. 1 \in {i \in DOMAIN body : body[i] \notin {"log", "data"}}  BY <1>1
<1> QED  BY <1>2 DEF DecodeResponse

(* The answer is committed under the session lock: a closed view takes no  *)
(* token, and only an answer of a dispatched method is a result.           *)
LEMMA DecodeKeeps ==
    ASSUME IndInv, NEW t \in Threads, Decode(t)
    PROVE  IndInv'
<1>1. WellTyped /\ ThreadOK(t) /\ call[t] \in CallRecords /\ caps \in Knowledge
      /\ view \in [token : Nat, closed : BOOLEAN] /\ ViewInv
  BY DEF IndInv, WellTyped
<1>2. /\ pc[t] = "returned" /\ wire[t].status # 413 /\ UNCHANGED <<caps, srv, closer, given, late>>
  BY DEF Decode
<1>3. wire[t].kind = "answer" /\ wire[t].token \in Nat  BY <1>1, <1>2 DEF ThreadOK, WireOK
<1>4. PICK body \in Resolutions(wire[t].body) :
        LET how == DecodeResponse(body, FALSE, wire[t].status) IN
         \/ /\ call[t].sticky /\ view.closed
            /\ End(t, "closed")
            /\ UNCHANGED view
         \/ /\ ~(call[t].sticky /\ view.closed)
            /\ view' = IF call[t].sticky /\ how \in {"result", "remote"}
                       THEN [view EXCEPT !.token =
                               IF wire[t].closes THEN NoToken ELSE Staged(t)]
                       ELSE view
            /\ IF call[t].what = "url" /\ how = "result"
               THEN /\ Goto(t, "put")
                    /\ wire' = [wire EXCEPT ![t] = Idle]
                    /\ Release(t)
                    /\ UNCHANGED <<call, ended, made, runs>>
               ELSE End(t, IF call[t].what = "url" THEN "refused"
                           ELSE IF wire[t].status = 404 THEN "refused" ELSE how)
  BY DEF Decode
<1>5. PICK how : how = DecodeResponse(body, FALSE, wire[t].status)  OBVIOUS
<1>6. /\ how \in {"result", "remote", "malformed"}
      /\ wire[t].body = <<"exception">> => how # "result"
      /\ how = "result" => wire[t].status = 200
  BY <1>5, ExceptionIsNoResult DEF DecodeResponse
<1>0. NoLate(t)  BY <1>2, NoneLate
<1>7. CASE call[t].sticky /\ view.closed
  <2>1. End(t, "closed") /\ UNCHANGED view  BY <1>4, <1>7
  <2>2. ViewInv'  BY <1>1, <1>2, <2>1 DEF ViewInv
  <2> QED  BY <1>0, <1>1, <1>2, <2>1, <2>2, EndKeeps
<1>8. CASE ~(call[t].sticky /\ view.closed)
  <2>1. view' = IF call[t].sticky /\ how \in {"result", "remote"}
                THEN [view EXCEPT !.token = IF wire[t].closes THEN NoToken ELSE Staged(t)]
                ELSE view
    BY <1>4, <1>5, <1>8
  <2>2. /\ view' \in [token : Nat, closed : BOOLEAN] /\ view'.closed = view.closed
        /\ view' # view => call[t].sticky
    <3>1. (IF wire[t].closes THEN NoToken ELSE Staged(t)) \in Nat
      BY <1>1, <1>3 DEF Staged, NoToken
    <3>2. PICK v \in [token : Nat, closed : BOOLEAN] : v = view  BY <1>1
    <3>3. PICK k \in Nat : k = IF wire[t].closes THEN NoToken ELSE Staged(t)  BY <3>1
    <3>4. [v EXCEPT !.token = k] \in [token : Nat, closed : BOOLEAN]
          /\ [v EXCEPT !.token = k].closed = v.closed
      OBVIOUS
    <3>5. view' = IF call[t].sticky /\ how \in {"result", "remote"}
                  THEN [v EXCEPT !.token = k] ELSE v
      BY <2>1, <3>2, <3>3
    <3> QED  BY <3>2, <3>4, <3>5
  <2>3. view' # view => slock = t /\ ~view.closed
    BY <1>1, <1>2, <1>8, <2>2 DEF ThreadOK, LockOK
  <2>4. ViewInv'  BY <1>1, <1>2, <2>2, <2>3 DEF ViewInv
  <2>5. CASE call[t].what = "url" /\ how = "result"
    <3>1. /\ Goto(t, "put") /\ wire' = [wire EXCEPT ![t] = Idle] /\ Release(t)
          /\ UNCHANGED <<call, ended, made, runs>>
      BY <1>4, <1>5, <1>8, <2>5
    <3>2. Places(t, "put", call[t], Idle)  BY <1>1, <1>2, <3>1 DEF Places, Goto, WellTyped, Steps
    <3>3. pc'[t] = "put" /\ call'[t] = call[t] /\ wire'[t] = Idle /\ runs'[t] = runs[t]
      BY <1>1, <3>2, PlacesOnly
    <3>4. ~call[t].idem => runs[t] = 0  BY <1>1, <1>2, <2>5 DEF ThreadOK, RunsOK
    <3>5. ThreadOK(t)'
      BY <1>1, <3>3, <3>4 DEF ThreadOK, LockOK, WireOK, RunsOK, Idle
    <3>6. Guarded(t)  BY <2>3, <3>1 DEF Guarded, Release
    <3>7. WellTyped'  BY <1>1, <1>2, <2>2, <3>2, PlacesOnly DEF WellTyped
    <3>8. Only(t)  BY <1>1, <3>2, PlacesOnly
    <3>9. LateOK(t)'  BY <1>0, <1>1, <3>2, <3>3, PlacesOnly, NoneLateKeeps
    <3> QED  BY <2>4, <3>5, <3>6, <3>7, <3>8, <3>9, StepKeeps
  <2>6. CASE ~(call[t].what = "url" /\ how = "result")
    <3>1. PICK report \in {"refused", how} :
            /\ End(t, report)
            /\ report = IF call[t].what = "url" THEN "refused"
                        ELSE IF wire[t].status = 404 THEN "refused" ELSE how
      BY <1>4, <1>5, <1>8, <2>6
    <3>2. ~call[t].idem /\ report = "refused" => runs[t] = 0
      BY <1>1, <1>2, <1>3, <1>6, <3>1 DEF ThreadOK, RunsOK
    <3>3. ~call[t].idem /\ report = "result" => runs[t] = 1
      <4>1. call[t].what \in {"method", "url"}  BY <1>1 DEF CallRecords
      <4> QED  BY <1>1, <1>2, <1>3, <1>6, <3>1, <4>1 DEF ThreadOK, RunsOK
    <3> QED  BY <1>0, <1>1, <1>2, <2>2, <2>3, <2>4, <3>1, <3>2, <3>3, EndKeeps
  <2> QED  BY <2>5, <2>6
<1> QED  BY <1>7, <1>8

-----------------------------------------------------------------------------
(* close(), detach() and the server.                                       *)

(* The view loses its token when nobody is inside a call of the view. *)
LEMMA ViewStepKeeps ==
    ASSUME IndInv,
           UNCHANGED <<pc, call, wire, slock, caps, made, runs, ended, late>>,
           view'.token # view.token => slock = Nobody,
           WellTyped', ViewInv'
    PROVE  IndInv'
<1>1. ASSUME NEW q \in Threads PROVE ThreadOK(q)' /\ LateOK(q)'
  <2>1. ThreadOK(q) /\ LateOK(q)  BY DEF IndInv
  <2>2. slock = q => UNCHANGED view.token  BY HttpCallAssumption
  <2>3. LockOK(q)' /\ RunsOK(q)'  BY <2>1 DEF ThreadOK, LockOK, RunsOK
  <2>4. wire[q].kind = "method" /\ call[q].sticky => UNCHANGED view.token
    BY <2>1, <2>2 DEF ThreadOK, LockOK, WireOK
  <2>5. WireOK(q)'  BY <2>1, <2>4 DEF ThreadOK, WireOK
  <2>6. LastOf(q)' = LastOf(q)  BY DEF LastOf
  <2>7. ASSUME NEW l \in LastOf(q), GivenUp(q, l) PROVE GivenUp(q, l)'
    <3>1. pc[q] = "wait" /\ call[q].sticky => UNCHANGED view.token
      BY <2>1, <2>2 DEF ThreadOK, LockOK
    <3> QED  BY <2>7, <3>1 DEF GivenUp
  <2>8. LateOK(q)'  BY <2>1, <2>6, <2>7 DEF LateOK
  <2> QED  BY <2>3, <2>5, <2>8 DEF ThreadOK
<1> QED  BY <1>1 DEF IndInv

(* close() sets the flag first and takes the token under the lock; what it *)
(* deletes then has left the view.                                         *)
LEMMA CloserKeeps ==
    ASSUME IndInv, CloseFlag \/ CloseTake \/ CloseDelete
    PROVE  IndInv'
<1>1. WellTyped /\ ViewInv  BY DEF IndInv
<1>2. PICK v \in [token : Nat, closed : BOOLEAN] : v = view  BY <1>1 DEF WellTyped
<1>3. PICK k \in [at : {"open", "locking", "deleting", "closed"}, token : Nat] : k = closer
  BY <1>1 DEF WellTyped
<1>4. CASE CloseFlag
  <2>1. /\ view' = [v EXCEPT !.closed = TRUE] /\ closer' = [k EXCEPT !.at = "locking"]
        /\ UNCHANGED <<pc, call, wire, slock, caps, srv, made, runs, ended, given, late>>
    BY <1>2, <1>3, <1>4 DEF CloseFlag
  <2>2. /\ view' \in [token : Nat, closed : BOOLEAN] /\ view'.closed /\ view'.token = v.token
        /\ closer' \in [at : {"open", "locking", "deleting", "closed"}, token : Nat]
        /\ closer'.at = "locking" /\ closer'.token = k.token
    BY <2>1
  <2>3. WellTyped'  BY <1>1, <2>1, <2>2 DEF WellTyped
  <2>4. ViewInv'  BY <1>1, <1>2, <1>3, <2>1, <2>2 DEF ViewInv
  <2> QED  BY <1>2, <2>1, <2>2, <2>3, <2>4, ViewStepKeeps
<1>5. CASE CloseTake /\ slock = Nobody
  <2>1. /\ view' = [v EXCEPT !.token = NoToken] /\ k.at = "locking"
        /\ closer' = [at |-> IF v.token = NoToken THEN "closed" ELSE "deleting",
                      token |-> v.token]
        /\ UNCHANGED <<pc, call, wire, slock, caps, srv, made, runs, ended, given, late>>
    BY <1>2, <1>3, <1>5 DEF CloseTake
  <2>2. /\ view' \in [token : Nat, closed : BOOLEAN] /\ view'.closed = v.closed
        /\ view'.token = NoToken
        /\ closer' \in [at : {"open", "locking", "deleting", "closed"}, token : Nat]
        /\ closer'.at # "locking" /\ closer'.token = v.token
    BY <2>1 DEF NoToken
  <2>3. WellTyped'  BY <1>1, <2>1, <2>2 DEF WellTyped
  <2>4. ViewInv'  BY <1>1, <1>2, <1>3, <2>1, <2>2 DEF ViewInv
  <2> QED  BY <1>5, <2>1, <2>3, <2>4, ViewStepKeeps
<1>6. CASE (CloseTake /\ slock # Nobody) \/ CloseDelete
  <2>1. /\ closer' = [k EXCEPT !.at = "closed"]
        /\ UNCHANGED <<pc, call, wire, slock, view, caps, made, runs, ended, given, late>>
    BY <1>3, <1>6 DEF CloseTake, CloseDelete
  <2>2. /\ closer' \in [at : {"open", "locking", "deleting", "closed"}, token : Nat]
        /\ closer'.at = "closed" /\ closer'.token = k.token
    BY <2>1
  <2>3. srv' \in [limits : Limits, live : SUBSET Nat, minted : Nat, restarts : Nat]
    BY <1>1, <1>6 DEF CloseTake, CloseDelete, WellTyped
  <2>4. WellTyped'  BY <1>1, <2>1, <2>2, <2>3 DEF WellTyped
  <2>5. ViewInv'  BY <1>1, <1>3, <2>1, <2>2 DEF ViewInv
  <2> QED  BY <2>1, <2>4, <2>5, ViewStepKeeps
<1> QED  BY <1>4, <1>5, <1>6 DEF CloseTake

(* detach() moves the token out and closes the view under the lock. *)
LEMMA DetachKeeps ==
    ASSUME IndInv, Detach
    PROVE  IndInv'
<1>1. WellTyped /\ ViewInv  BY DEF IndInv
<1>2. /\ slock = Nobody /\ given = NoToken /\ view.token # NoToken /\ given' = view.token
      /\ view' = [token |-> NoToken, closed |-> TRUE]
      /\ UNCHANGED <<pc, call, wire, slock, caps, srv, made, runs, ended, closer, late>>
  BY DEF Detach
<1>3. view' \in [token : Nat, closed : BOOLEAN] /\ view'.closed /\ view'.token = NoToken
      /\ given' \in Nat
  BY <1>1, <1>2 DEF NoToken, WellTyped
<1>4. WellTyped'  BY <1>1, <1>2, <1>3 DEF WellTyped
<1>5. ViewInv'  BY <1>1, <1>2, <1>3 DEF ViewInv
<1> QED  BY <1>2, <1>4, <1>5, ViewStepKeeps

(* An exchange that has not dispatched a method comes to its end. *)
LEMMA AnsweredKeeps ==
    ASSUME IndInv, NEW t \in Threads, wire[t].kind \in {"options", "method", "url"}, NEW m,
           wire' = [wire EXCEPT ![t] = m],
           m.kind \in {"answer", "failed"},
           m.kind = "answer" => m.token \in Nat /\ m.limits \in Limits,
           m.kind = "answer" /\ m.status = 200 =>
             wire[t].kind # "method" \/ m.body = <<"exception">>,
           late' = late \/ (late' = late \cup Abandoned(t) /\ m.kind = "failed"),
           UNCHANGED <<pc, call, slock, view, caps, srv, made, runs, ended, closer, given>>
    PROVE  IndInv'
<1>1. WellTyped /\ ThreadOK(t) /\ ViewInv /\ call[t] \in CallRecords  BY DEF IndInv, WellTyped
<1>0. \A l \in late' : l \in late \/ (l.by = t /\ l.nth = made[t])  BY AbandonedIs
<1>2. Only(t) /\ Guarded(t) /\ wire'[t] = m
  BY <1>1, <1>0 DEF Only, Guarded, WellTyped
<1>3. WellTyped' /\ ViewInv'
  <2>1. \A l \in late' : l.by \in Threads /\ l.nth \in Nat /\ l.nth <= made[l.by]
    BY <1>1, <1>0 DEF WellTyped
  <2> QED  BY <1>1, <2>1 DEF WellTyped, ViewInv
<1>4. pc[t] \in {"options", "wait"}  BY <1>1 DEF ThreadOK, WireOK, WellTyped
<1>5. ThreadOK(t)'
  <2>1. LockOK(t)'  BY <1>1 DEF ThreadOK, LockOK
  <2>2. WireOK(t)'  BY <1>1, <1>2, <1>4 DEF ThreadOK, WireOK
  <2>3. RunsOK(t)'
    <3>1. pc[t] = "wait" => wire[t].kind = call[t].what /\ call[t].what \in {"method", "url"}
      BY <1>1 DEF ThreadOK, WireOK, CallRecords
    <3>2. ~call[t].idem => runs[t] = 0  BY <1>1, <1>4, <3>1 DEF ThreadOK, RunsOK
    <3> QED  BY <1>1, <1>2, <1>4, <3>1, <3>2 DEF RunsOK
  <2> QED  BY <2>1, <2>2, <2>3 DEF ThreadOK
<1>6. LateOK(t)'
  <2>1. NoLate(t)  BY <1>4, NoneLate
  <2>2. CASE late' = late \/ Abandoned(t) = {}  BY <2>1, <2>2, NoneLateKeeps
  <2>3. CASE late' # late /\ Abandoned(t) # {}
    <3>1. PICK l \in Abandoned(t) : late' = late \cup {l}  BY <2>3, AbandonedIs
    <3>2. /\ wire[t].kind = "method" /\ l.req = wire[t] /\ l.sticky = call[t].sticky
      BY <3>1, AbandonedIs
    <3>3. GivenUp(t, l)'
      <4>1. m.kind = "failed"  BY <2>3
      <4>2. /\ pc[t] = "wait" /\ call[t].what = "method"
            /\ call[t].sticky => wire[t].token = view.token
        BY <3>2, AwaitedFirst
      <4> QED  BY <1>2, <3>2, <4>1, <4>2 DEF GivenUp
    <3> QED  BY <3>1, <3>3, AbandonedKeeps
  <2> QED  BY <2>2, <2>3
<1> QED  BY <1>2, <1>3, <1>5, <1>6, StepKeeps

(* Refusals, control answers, lost sessions and lost messages. *)
LEMMA NotDispatchedKeeps ==
    ASSUME IndInv, NEW t \in Threads,
           Refuse(t) \/ AnswerControl(t) \/ SessionLost(t) \/ Lose(t)
    PROVE  IndInv'
<1>1. /\ wire[t].kind \in {"options", "method", "url"}
      /\ UNCHANGED <<pc, call, slock, view, caps, srv, made, runs, ended, closer, given>>
      /\ Lose(t) \/ UNCHANGED late
  BY DEF Refuse, AnswerControl, SessionLost, Lose
<1>2. srv.limits \in Limits  BY DEF IndInv, WellTyped
<1>3. CASE Refuse(t) /\ UNCHANGED late
  <2> DEFINE BodyOf(status) == IF status = 404 THEN <<"exception">> ELSE <<>>
             Refusal(status) == AnswerOf(status, BodyOf(status), NoToken, FALSE)
  <2> HIDE DEF BodyOf, Refusal
  <2>1. MustRefuse(wire[t]) \subseteq {413, 415}  BY DEF MustRefuse
  <2>2. PICK status \in IF MustRefuse(wire[t]) # {} THEN MustRefuse(wire[t])
                       ELSE IF wire[t].kind = "options" THEN {503} ELSE {401, 404, 503} :
          wire' = [wire EXCEPT ![t] = Refusal(status)]
    BY <1>3, Zenon DEF Refuse, Refusal, BodyOf
  <2>3. status # 200  BY <2>1
  <2>4. /\ Refusal(status).kind = "answer" /\ Refusal(status).status = status
        /\ Refusal(status).token = NoToken /\ Refusal(status).limits = srv.limits
    BY DEF AnswerOf, Refusal
  <2>5. PICK m : m = Refusal(status)  OBVIOUS
  <2>6. m.kind = "answer" /\ m.status # 200 /\ m.token \in Nat /\ m.limits \in Limits
    BY <1>2, <2>4, <2>5, <2>3 DEF NoToken
  <2>7. wire' = [wire EXCEPT ![t] = m]  BY <2>2, <2>5
  <2>8. /\ m.kind \in {"answer", "failed"}
        /\ m.kind = "answer" => m.token \in Nat /\ m.limits \in Limits
        /\ m.kind = "answer" /\ m.status = 200 =>
             wire[t].kind # "method" \/ m.body = <<"exception">>
    BY <2>6
  <2> QED  BY <1>1, <1>3, <2>7, <2>8, AnsweredKeeps
<1>4. CASE AnswerControl(t) /\ UNCHANGED late
  <2>1. PICK m : m = AnswerOf(200, IF wire[t].kind = "url" THEN <<"data">> ELSE <<>>,
                              NoToken, FALSE)
    OBVIOUS
  <2>2. wire[t].kind # "method" /\ wire' = [wire EXCEPT ![t] = m]
    BY <1>4, <2>1 DEF AnswerControl
  <2>3. m.kind = "answer" /\ m.token \in Nat /\ m.limits \in Limits
    BY <1>2, <2>1 DEF AnswerOf, NoToken
  <2> QED  BY <1>1, <1>4, <2>2, <2>3, AnsweredKeeps
<1>5. CASE SessionLost(t) /\ UNCHANGED late
  <2>1. PICK m : m = AnswerOf(200, <<"exception">>, NoToken, FALSE)  OBVIOUS
  <2>2. wire' = [wire EXCEPT ![t] = m]  BY <1>5, <2>1 DEF SessionLost
  <2>3. /\ m.kind = "answer" /\ m.token \in Nat /\ m.limits \in Limits
        /\ m.body = <<"exception">>
    BY <1>2, <2>1 DEF AnswerOf, NoToken
  <2> QED  BY <1>1, <1>5, <2>2, <2>3, AnsweredKeeps
<1>6. CASE Lose(t)
  <2>1. PICK m \in Failures : wire' = [wire EXCEPT ![t] = m]  BY <1>6 DEF Lose
  <2>2. m.kind = "failed" /\ late' = late \cup Abandoned(t)
    BY <1>6 DEF Failures, Lost, Failed, Lose
  <2> QED  BY <1>1, <2>1, <2>2, AnsweredKeeps
<1> QED  BY <1>1, <1>3, <1>4, <1>5, <1>6

(* A method that is waited for runs: its request leaves the wire with it. *)
LEMMA DispatchKeeps ==
    ASSUME IndInv, NEW t \in Threads, Dispatch(t)
    PROVE  IndInv'
<1>1. WellTyped /\ ThreadOK(t) /\ ViewInv /\ call[t] \in CallRecords  BY DEF IndInv, WellTyped
<1>2. /\ wire[t].kind = "method" /\ runs' = [runs EXCEPT ![t] = @ + 1]
      /\ UNCHANGED <<pc, call, slock, view, caps, made, ended, closer, given, late>>
  BY DEF Dispatch
<1>3. PICK e \in Effects(wire[t]) :
        /\ srv' = [srv EXCEPT !.live = e.live, !.minted = e.minted]
        /\ \E m \in Failures \cup {AnswerOf(200, body, e.token, e.closes) :
                                    body \in MethodBodies} :
             wire' = [wire EXCEPT ![t] = m]
  BY DEF Dispatch
<1>. PICK m \in Failures \cup {AnswerOf(200, body, e.token, e.closes) : body \in MethodBodies} :
       wire' = [wire EXCEPT ![t] = m]
  BY <1>3
<1>4. /\ srv.live \in SUBSET Nat /\ srv.minted \in Nat /\ srv.limits \in Limits
      /\ srv \in [limits : Limits, live : SUBSET Nat, minted : Nat, restarts : Nat]
  BY <1>1 DEF WellTyped
<1>5. e.live \in SUBSET Nat /\ e.minted \in Nat /\ e.token \in Nat
  BY <1>4 DEF Effects, NoToken
<1>6. /\ m.kind \in {"answer", "failed"}
      /\ m.kind = "answer" => m.token \in Nat /\ m.limits \in Limits /\ m.status = 200
  <2>1. CASE m \in Failures
    <3>1. m.kind = "failed"  BY <2>1 DEF Failures, Lost, Failed
    <3> QED  BY <3>1
  <2>2. CASE m \notin Failures
    <3>1. PICK body \in MethodBodies : m = AnswerOf(200, body, e.token, e.closes)  BY <2>2
    <3> QED  BY <1>4, <1>5, <3>1 DEF AnswerOf
  <2> QED  BY <2>1, <2>2
<1>7. pc[t] = "wait" /\ call[t].what = "method"
  BY <1>1, <1>2 DEF ThreadOK, WireOK, WellTyped, CallRecords
<1>8. ~call[t].idem => runs[t] = 0  BY <1>1, <1>2, <1>7 DEF ThreadOK, RunsOK
<1>9. /\ Only(t) /\ Guarded(t) /\ wire'[t] = m /\ runs'[t] = runs[t] + 1
      /\ runs' \in [Threads -> Nat] /\ DOMAIN wire' = Threads
  BY <1>1, <1>2, <1>3 DEF Only, Guarded, WellTyped
<1>10. srv' \in [limits : Limits, live : SUBSET Nat, minted : Nat, restarts : Nat]
  BY <1>3, <1>4, <1>5
<1>11. WellTyped' /\ ViewInv'  BY <1>1, <1>2, <1>9, <1>10 DEF WellTyped, ViewInv
<1>12. ThreadOK(t)'
  <2>1. LockOK(t)'  BY <1>1, <1>2 DEF ThreadOK, LockOK
  <2>2. WireOK(t)'  BY <1>2, <1>6, <1>7, <1>9 DEF WireOK
  <2>3. RunsOK(t)'  BY <1>2, <1>6, <1>7, <1>8, <1>9 DEF RunsOK
  <2> QED  BY <2>1, <2>2, <2>3 DEF ThreadOK
<1>13. LateOK(t)'  BY <1>2, AwaitedFirst, NoneLateKeeps
<1> QED  BY <1>9, <1>11, <1>12, <1>13, StepKeeps

(* A method that nobody waits for runs: it is the one request its call     *)
(* left behind, or the call may be repeated, or is over long ago.          *)
LEMMA LateDispatchKeeps ==
    ASSUME IndInv, NEW l \in late, LateDispatch(l)
    PROVE  IndInv'
<1>1. WellTyped /\ ViewInv  BY DEF IndInv
<1>2. PICK t \in Threads : t = l.by  BY <1>1 DEF WellTyped
<1>3. ThreadOK(t) /\ LateOK(t)  BY DEF IndInv
<1>4. /\ runs' = IF l.nth = made[t] THEN [runs EXCEPT ![t] = @ + 1] ELSE runs
      /\ late' = late \ {l}
      /\ UNCHANGED <<pc, call, wire, slock, view, caps, made, ended, closer, given>>
  BY <1>2 DEF LateDispatch
<1>5. srv' \in [limits : Limits, live : SUBSET Nat, minted : Nat, restarts : Nat]
  <2>1. PICK e \in Effects(l.req) : srv' = [srv EXCEPT !.live = e.live, !.minted = e.minted]
    BY DEF LateDispatch
  <2>2. /\ srv.live \in SUBSET Nat /\ srv.minted \in Nat
        /\ srv \in [limits : Limits, live : SUBSET Nat, minted : Nat, restarts : Nat]
    BY <1>1 DEF WellTyped
  <2>3. e.live \in SUBSET Nat /\ e.minted \in Nat  BY <2>2 DEF Effects
  <2> QED  BY <2>1, <2>2, <2>3
<1>6. /\ Only(t) /\ Guarded(t) /\ runs' \in [Threads -> Nat]
  BY <1>1, <1>2, <1>4 DEF Only, Guarded, WellTyped
<1>7. WellTyped' /\ ViewInv'
  <2>1. \A k \in late' : k.by \in Threads /\ k.nth \in Nat /\ k.nth <= made[k.by]
    BY <1>1, <1>4 DEF WellTyped
  <2> QED  BY <1>1, <1>4, <1>5, <1>6, <2>1 DEF WellTyped, ViewInv
<1>8. LockOK(t)' /\ WireOK(t)'  BY <1>3, <1>4 DEF ThreadOK, LockOK, WireOK
<1>9. CASE l.nth # made[t]
  <2>1. runs' = runs /\ LastOf(t)' = LastOf(t)  BY <1>4, <1>9 DEF LastOf
  <2>2. RunsOK(t)'  BY <1>3, <1>4, <2>1 DEF ThreadOK, RunsOK
  <2>3. \A k : GivenUp(t, k)' <=> GivenUp(t, k)  BY <1>4 DEF GivenUp
  <2>4. LateOK(t)'  BY <1>3, <1>4, <2>1, <2>3 DEF LateOK
  <2> QED  BY <1>6, <1>7, <1>8, <2>2, <2>4, StepKeeps DEF ThreadOK
<1>10. CASE l.nth = made[t]
  <2>1. l \in LastOf(t) /\ LastOf(t)' = LastOf(t) \ {l}  BY <1>2, <1>4, <1>10 DEF LastOf
  <2>2. runs'[t] = runs[t] + 1 /\ runs[t] \in Nat  BY <1>1, <1>4, <1>10 DEF WellTyped
  <2>3. CASE call[t].idem
    <3>1. RunsOK(t)'  BY <1>4, <2>3 DEF RunsOK
    <3>2. LateOK(t)'
      <4>1. \A k \in LastOf(t) : k.idem  BY <2>3, NoneLate DEF NoLate
      <4> QED  BY <1>3, <1>4, <2>1, <4>1 DEF LateOK
    <3> QED  BY <1>6, <1>7, <1>8, <3>1, <3>2, StepKeeps DEF ThreadOK
  <2>4. CASE ~call[t].idem
    <3>1. runs[t] = 0 /\ GivenUp(t, l) /\ LastOf(t) = {l}  BY <1>3, <2>1, <2>4 DEF LateOK
    <3>2. RunsOK(t)'  BY <1>3, <1>4, <2>2, <3>1 DEF ThreadOK, RunsOK, GivenUp
    <3>3. LateOK(t)'  BY <2>1, <3>1 DEF LateOK
    <3> QED  BY <1>6, <1>7, <1>8, <3>2, <3>3, StepKeeps DEF ThreadOK
  <2> QED  BY <2>3, <2>4
<1> QED  BY <1>9, <1>10

(* A restart changes nothing the client knows. *)
LEMMA RestartKeeps ==
    ASSUME IndInv, Restart
    PROVE  IndInv'
<1>1. WellTyped /\ ViewInv  BY DEF IndInv
<1>2. PICK l \in Profiles : srv' = [srv EXCEPT !.limits = l, !.live = {}, !.restarts = @ + 1]
  BY DEF Restart
<1>3. UNCHANGED <<pc, call, wire, slock, view, caps, made, runs, ended, closer, given, late>>
  BY DEF Restart
<1>4. srv' \in [limits : Limits, live : SUBSET Nat, minted : Nat, restarts : Nat]
  <2>1. l \in Limits  BY HttpCallAssumption DEF Limits
  <2>2. srv \in [limits : Limits, live : SUBSET Nat, minted : Nat, restarts : Nat]
        /\ srv.restarts + 1 \in Nat
    BY <1>1 DEF WellTyped
  <2> QED  BY <1>2, <2>1, <2>2
<1>5. WellTyped' /\ ViewInv'  BY <1>1, <1>3, <1>4 DEF WellTyped, ViewInv
<1> QED  BY <1>3, <1>5, ViewStepKeeps

-----------------------------------------------------------------------------
(* The theorems.                                                           *)

(* At the start no call is made and the view has no token. *)
LEMMA InitEstablishes == Init => IndInv
<1> SUFFICES ASSUME Init PROVE IndInv  OBVIOUS
<1>1. WellTyped
  <2>1. NoCall \in CallRecords  BY DEF NoCall, CallRecords
  <2>2. srv \in [limits : Limits, live : SUBSET Nat, minted : Nat, restarts : Nat]
    BY HttpCallAssumption DEF Init, Limits
  <2>3. pc \in [Threads -> Steps] /\ call \in [Threads -> CallRecords]
    BY <2>1 DEF Init, Steps
  <2>4. caps \in Knowledge  BY DEF Init, Knowledge
  <2> QED  BY <2>2, <2>3, <2>4 DEF Init, WellTyped, NoToken
<1>2. ASSUME NEW t \in Threads PROVE ThreadOK(t)
  BY DEF Init, ThreadOK, LockOK, WireOK, RunsOK, NoCall, Idle
<1>3. ViewInv  BY DEF Init, ViewInv
<1>4. ASSUME NEW t \in Threads PROVE LateOK(t)  BY DEF Init, LateOK, LastOf
<1> QED  BY <1>1, <1>2, <1>3, <1>4 DEF IndInv

(* Every step of a thread, of the view or of the server keeps it. *)
LEMMA NextKeeps == IndInv /\ [Next]_vars => IndInv'
<1> SUFFICES ASSUME IndInv, [Next]_vars PROVE IndInv'  OBVIOUS
<1>1. ASSUME NEW t \in Threads,
             (\E c \in Calls[t] : Begin(t, c)) \/ Client(t) \/ Server(t) \/ GiveUp(t)
      PROVE  IndInv'
  <2>1. CASE \E c \in Calls[t] : Begin(t, c)  BY <2>1, BeginKeeps
  <2>2. CASE Client(t)
    BY <2>2, SessionKeeps, CapsClientKeeps, CapsAnswerKeeps, DecideKeeps, InlineClientKeeps,
       ReceiveKeeps, TooLargeKeeps, DecodeKeeps DEF Client
  <2>3. CASE Server(t)  BY <2>3, NotDispatchedKeeps, DispatchKeeps DEF Server
  <2>4. CASE GiveUp(t)  BY <2>4, GiveUpKeeps
  <2> QED  BY <1>1, <2>1, <2>2, <2>3, <2>4
<1>2. CASE CloseFlag \/ CloseTake \/ CloseDelete  BY <1>2, CloserKeeps
<1>3. CASE Detach  BY <1>3, DetachKeeps
<1>4. CASE Restart  BY <1>4, RestartKeeps
<1>6. CASE \E l \in late : LateDispatch(l)  BY <1>6, LateDispatchKeeps
<1>5. CASE UNCHANGED vars
  <2>1. UNCHANGED <<pc, call, wire, slock, view, caps, made, runs, ended, srv, closer, given, late>>
    BY <1>5 DEF vars
  <2>2. WellTyped' /\ ViewInv'  BY <2>1 DEF IndInv, WellTyped, ViewInv
  <2> QED  BY <2>1, <2>2, ViewStepKeeps
<1> QED  BY <1>1, <1>2, <1>3, <1>4, <1>5, <1>6 DEF Next

(* The inductive invariant holds throughout. *)
THEOREM Invariance == Spec => []IndInv
BY InitEstablishes, NextKeeps, PTL DEF Spec

(* A call that may not be repeated runs at most once through losses,       *)
(* refusals, the second send without compression and the upload; a result  *)
(* means that it ran and a refusal that it did not.                        *)
THEOREM ExactlyOnceOutcomeAlways == Spec => []ExactlyOnceOutcome
<1>1. IndInv => ExactlyOnceOutcome
  BY DEF IndInv, ThreadOK, RunsOK, ExactlyOnceOutcome
<1> QED  BY <1>1, Invariance, PTL

(* What is known of a late request that may not be repeated.               *)
LEMMA LateIsTold ==
    ASSUME IndInv, NEW l \in late, LastCall(l)
    PROVE  /\ ~l.sticky => l.req.token = NoToken
           /\ l.sticky => l.req.token = view.token \/ ToldNothing(l.by)
<1>1. PICK t \in Threads : t = l.by  BY DEF IndInv, WellTyped
<1>2. LateOK(t) /\ l \in LastOf(t) /\ ~l.idem  BY <1>1 DEF IndInv, LastOf, LastCall
<1>3. GivenUp(t, l) /\ (~l.sticky => l.req.token = NoToken)  BY <1>2 DEF LateOK
<1> QED  BY <1>1, <1>3 DEF GivenUp, ToldNothing

(* The session lock travels with the response, so that the token a request *)
(* was sent with is the token of the view until its answer is committed or *)
(* the call ends without one; a request that outlives its call reaches a   *)
(* session the view has left only if the caller was told of no answer.     *)
THEOREM InFlightTokenIsCurrentAlways == Spec => []InFlightTokenIsCurrent
<1>1. ASSUME IndInv PROVE InFlightTokenIsCurrent
  <2>1. \A t \in Threads :
          call[t].sticky /\ wire[t].kind = "method" => wire[t].token = view.token
    BY <1>1 DEF IndInv, ThreadOK, WireOK
  <2>2. \A l \in late :
          l.sticky /\ LastCall(l) /\ l.req.token # view.token => ToldNothing(l.by)
    BY <1>1, LateIsTold
  <2> QED  BY <2>1, <2>2 DEF InFlightTokenIsCurrent
<1>2. IndInv => InFlightTokenIsCurrent  BY <1>1
<1> QED  BY <1>2, Invariance, PTL

(* What detach() returned is neither in the view, nor in a request that is *)
(* waited for, nor in the hands of a close(); it may be in a request whose *)
(* caller was told that there was no answer.                               *)
THEOREM DetachedIsForgottenAlways == Spec => []DetachedIsForgotten
<1>1. ASSUME IndInv, given # NoToken PROVE DetachedIsForgotten
  <2>1. view.token = NoToken /\ closer.token = NoToken  BY <1>1 DEF IndInv, ViewInv
  <2>2. \A t \in Threads : wire[t].kind = "method" => wire[t].token # given
    BY <1>1, <2>1 DEF IndInv, ThreadOK, WireOK
  <2>3. \A l \in late : LastCall(l) /\ l.req.token = given => ToldNothing(l.by)
    BY <1>1, <2>1, LateIsTold
  <2> QED  BY <1>1, <2>1, <2>2, <2>3 DEF DetachedIsForgotten
<1>2. IndInv => DetachedIsForgotten  BY <1>1 DEF DetachedIsForgotten
<1> QED  BY <1>2, Invariance, PTL

=============================================================================
