------------------------- MODULE TokenCacheProofs -------------------------
(***************************************************************************)
(* Proofs about TokenCache, for every number of workers, of retries and of *)
(* tokens, and every behaviour of the clock and of GreenInvoice.           *)
(***************************************************************************)
EXTENDS TokenCache, TLAPS

\* Tokens are numbered in the order they are issued.
Numbered ==
  /\ token <= issued
  /\ \A w \in Worker : thread[w].used <= issued /\ thread[w].refused <= issued

\* A token on its way into the cache is the last one issued, and nobody has
\* seen it.
Storing == {w \in Worker : thread[w].phase \in {"storeExpiry", "storeToken"}}

StoringNew ==
  \A w \in Storing :
    /\ thread[w].used = issued
    /\ token < issued
    /\ \A v \in Worker : thread[v].refused < issued /\ (v # w => thread[v].used < issued)

\* A worker that is about to drop a token has been refused with it.
Dropping == {w \in Worker : thread[w].phase \in {"wantDrop", "compare"}}

DroppingDead ==
  \A w \in Dropping : Reauthed(w) /\ ~Honoured(thread[w].refused)

\* Once a refused token is out of the cache it never comes back.
Gone ==
  \A w \in Worker \ Dropping :
    thread[w].refused = None \/ token # thread[w].refused

\* The inductive invariant.
IInv ==
  /\ TypeOK
  /\ Numbered
  /\ StoringNew
  /\ NoStampede
  /\ DroppingDead
  /\ Gone
  /\ RefusedNotReused

-----------------------------------------------------------------------------
(* Facts about threads.                                                    *)

LEMMA FieldTypes ==
  ASSUME NEW t \in Thread
  PROVE  /\ t.phase \in Phase
         /\ t.used \in Token \cup {None}
         /\ t.refused \in Token \cup {None, Unrefused}
         /\ t.attempt \in 0 .. MaxRetries
BY DEF Thread

LEMMA IdleType ==
  /\ Idle \in Thread
  /\ Idle.phase = "idle" /\ Idle.used = None /\ Idle.refused = Unrefused
BY CacheAssumption DEF Idle, Thread, Phase

\* Only the thread of w moves, to x.
Moves(w, x) ==
  /\ thread' \in [Worker -> Thread]
  /\ thread'[w] = x
  /\ \A v \in Worker \ {w} : thread'[v] = thread[v]

\* A thread goes to phase p, and keeps its tokens.
LEMMA GoesMoves ==
  ASSUME TypeOK, NEW w \in Worker, NEW p \in Phase, Goes(w, p)
  PROVE  \E x \in Thread : /\ Moves(w, x)
                           /\ x.phase = p
                           /\ x.used = thread[w].used
                           /\ x.refused = thread[w].refused
<1>. DEFINE t == thread[w]
            x == [t EXCEPT !.phase = p]
<1>1. thread' = [thread EXCEPT ![w] = x] /\ t \in Thread
  BY DEF Goes, TypeOK
<1>. HIDE DEF t
<1>2. x \in Thread /\ x.phase = p /\ x.used = t.used /\ x.refused = t.refused
  BY <1>1 DEF Thread
<1>. HIDE DEF x
<1>3. Moves(w, x)
  BY <1>1, <1>2 DEF TypeOK, Moves
<1>. QED BY <1>2, <1>3 DEF t

\* A thread takes token u to phase p.
Takes(w, p, u) == thread' = [thread EXCEPT ![w].phase = p, ![w].used = u]

LEMMA TakesMoves ==
  ASSUME TypeOK, NEW w \in Worker, NEW p \in Phase, NEW u \in Token \cup {None},
         Takes(w, p, u)
  PROVE  \E x \in Thread : /\ Moves(w, x)
                           /\ x.phase = p
                           /\ x.used = u
                           /\ x.refused = thread[w].refused
<1>. DEFINE t == thread[w]
            x == [t EXCEPT !.phase = p, !.used = u]
<1>1. thread' = [thread EXCEPT ![w] = x] /\ t \in Thread
  BY DEF TypeOK, Takes
<1>. HIDE DEF t
<1>2. x \in Thread /\ x.phase = p /\ x.used = u /\ x.refused = t.refused
  BY <1>1 DEF Thread
<1>. HIDE DEF x
<1>3. Moves(w, x)
  BY <1>1, <1>2 DEF TypeOK, Moves
<1>. QED BY <1>2, <1>3 DEF t

\* A refused thread goes on to invalidate.
LEMMA RefusedMoves ==
  ASSUME TypeOK, NEW w \in Worker, Refused(w)
  PROVE  \E x \in Thread : /\ Moves(w, x)
                           /\ x.phase = "wantDrop"
                           /\ x.used = thread[w].used
                           /\ x.refused = thread[w].used
<1>. DEFINE t == thread[w]
            x == [t EXCEPT !.phase = "wantDrop", !.refused = t.used]
<1>1. thread' = [thread EXCEPT ![w] = x] /\ t \in Thread
  BY DEF TypeOK, Refused
<1>. HIDE DEF t
<1>2. "wantDrop" \in Phase
  BY DEF Phase
<1>3. x \in Thread /\ x.phase = "wantDrop" /\ x.used = t.used /\ x.refused = t.used
  BY <1>1, <1>2 DEF Thread
<1>. HIDE DEF x
<1>4. Moves(w, x)
  BY <1>1, <1>3 DEF TypeOK, Moves
<1>. QED BY <1>3, <1>4 DEF t

\* A thread's call ends.
LEMMA EndMoves ==
  ASSUME TypeOK, NEW w \in Worker, thread' = [thread EXCEPT ![w] = Idle]
  PROVE  Moves(w, Idle)
BY IdleType DEF TypeOK, Moves

\* The next turn of request's loop, or its end.
LEMMA LoopsMoves ==
  ASSUME TypeOK, NEW w \in Worker, Loops(w)
  PROVE  \E x \in Thread : /\ Moves(w, x)
                           /\ x.phase \in {"idle", "checkToken"}
                           /\ \/ x.used = thread[w].used /\ x.refused = thread[w].refused
                              \/ x = Idle
<1>. DEFINE t == thread[w]
            k == t.attempt + 1
            x == [t EXCEPT !.phase = "checkToken", !.attempt = k]
<1>1. CASE t.attempt < MaxRetries
  <2>1. thread' = [thread EXCEPT ![w] = x]
    BY <1>1 DEF Loops, TypeOK
  <2>2. t \in Thread
    BY DEF TypeOK
  <2>3. k \in 0 .. MaxRetries /\ "checkToken" \in Phase
    BY <1>1, <2>2, FieldTypes, CacheAssumption DEF Phase
  <2>. HIDE DEF t, k
  <2>4. x \in Thread /\ x.phase = "checkToken" /\ x.used = t.used /\ x.refused = t.refused
    BY <2>2, <2>3 DEF Thread
  <2>. HIDE DEF x
  <2>. QED BY <2>1, <2>4 DEF TypeOK, Moves, t
<1>2. CASE ~(t.attempt < MaxRetries)
  BY <1>2, IdleType, EndMoves DEF Loops
<1>. QED BY <1>1, <1>2

-----------------------------------------------------------------------------
(* The inductive invariant.                                                *)

LEMMA InitIInv == Init => IInv
<1> SUFFICES ASSUME Init PROVE IInv
  OBVIOUS
<1>1. \A w \in Worker : thread[w] = Idle
  BY DEF Init
<1>2. TypeOK
  BY <1>1, CacheAssumption, NobodyAssumption, IdleType DEF Init, TypeOK, Instant, Locked
<1>3. Numbered /\ NoStampede /\ StoringNew
  BY <1>1, IdleType DEF Init, Numbered, NoStampede, StoringNew, Storing, None, Unrefused
<1>4. DroppingDead /\ Gone /\ RefusedNotReused
  BY <1>1, IdleType DEF Init, DroppingDead, Dropping, Gone, RefusedNotReused, None, Unrefused
<1>. QED BY <1>2, <1>3, <1>4 DEF IInv

\* A step outside the lock that changes nothing but the thread of w.
LEMMA QuietStep ==
  ASSUME IInv, NEW w \in Worker, NEW x \in Thread, Moves(w, x),
         UNCHANGED <<cache, lock, outside>>,
         thread[w].phase \notin Locked, x.phase \notin Locked,
         x.used \in {None, token, thread[w].used},
         x.refused \in {Unrefused, thread[w].refused, thread[w].used},
         x.phase = "wantDrop" => x.refused # Unrefused /\ ~Honoured(x.refused),
         x.phase # "wantDrop" => x.refused = None \/ token # x.refused,
         x.phase = "send" => x.used = None \/ x.used # x.refused
  PROVE  IInv'
<1>1. UNCHANGED <<token, expires, lock, clock, issued, ends, revoked>>
  BY DEF cache, outside
<1>2. /\ thread' \in [Worker -> Thread]
      /\ thread'[w] = x
      /\ \A v \in Worker : v = w \/ thread'[v] = thread[v]
  BY DEF Moves
<1>3. TypeOK'
  BY <1>1, <1>2 DEF IInv, TypeOK
<1>4. token \in Nat /\ issued \in Nat /\ thread[w].used \in Nat
      /\ thread[w].refused \in Nat \cup {Unrefused}
  BY CacheAssumption, FieldTypes DEF IInv, TypeOK, Token, None
<1>5. x.used <= issued /\ x.refused <= issued
  BY <1>4 DEF IInv, Numbered, None, Unrefused
<1>6. Numbered'
  BY <1>1, <1>2, <1>5 DEF IInv, Numbered
<1>7. StoringNew'
  <2>1. Storing' = Storing /\ w \notin Storing
    BY <1>2 DEF Storing, Locked
  <2>2. ASSUME NEW v \in Storing PROVE x.used < issued /\ x.refused < issued
    <3>1. token < issued /\ thread[w].used < issued /\ thread[w].refused < issued
      BY <2>1 DEF IInv, StoringNew, Storing
    <3>. QED BY <1>4, <3>1 DEF None, Unrefused
  <2>. QED BY <1>1, <1>2, <2>1, <2>2 DEF IInv, StoringNew, Storing
<1>8. NoStampede'
  BY <1>1, <1>2 DEF IInv, NoStampede, Valid, Fresh, Locked
<1>9. DroppingDead' /\ Gone'
  BY <1>1, <1>2 DEF IInv, DroppingDead, Dropping, Gone, Honoured, Reauthed, Locked
<1>10. RefusedNotReused'
  BY <1>1, <1>2 DEF IInv, RefusedNotReused
<1>. QED BY <1>3, <1>6, <1>7, <1>8, <1>9, <1>10 DEF IInv

\* The steps a thread takes without the lock.
LEMMA StepOutsideLock ==
  ASSUME IInv, NEW w \in Worker,
         Call(w) \/ CheckToken(w) \/ CheckExpiry(w) \/ ReadToken(w) \/ Ends(w) \/ Again(w) \/ Refused(w)
  PROVE  IInv'
<1>0. TypeOK /\ token \in Nat /\ token # Unrefused
  BY CacheAssumption DEF IInv, TypeOK, Token, None, Unrefused
<1>1. w \notin Dropping => thread[w].refused = None \/ token # thread[w].refused
  BY DEF IInv, Gone
<1>2. CASE Call(w) \/ CheckToken(w) \/ CheckExpiry(w)
  <2>1. PICK p \in Phase : /\ Goes(w, p) /\ p \notin Locked /\ p \notin {"send", "wantDrop"}
                           /\ thread[w].phase \notin Locked
                           /\ w \notin Dropping
                           /\ UNCHANGED <<cache, lock, outside>>
    BY <1>2 DEF Call, CheckToken, CheckExpiry, Phase, Locked, Dropping
  <2>2. PICK x \in Thread : /\ Moves(w, x) /\ x.phase = p /\ x.used = thread[w].used
                            /\ x.refused = thread[w].refused
    BY <1>0, <2>1, GoesMoves
  <2>3. /\ x.phase \notin Locked /\ x.phase # "send" /\ x.phase # "wantDrop"
        /\ x.used \in {None, token, thread[w].used}
        /\ x.refused \in {Unrefused, thread[w].refused, thread[w].used}
        /\ x.refused = None \/ token # x.refused
    BY <1>1, <2>1, <2>2
  <2>. QED BY <2>1, <2>2, <2>3, QuietStep
<1>3. CASE ReadToken(w)
  <2>1. /\ thread[w].phase \notin Locked /\ w \notin Dropping
        /\ "send" \in Phase /\ "send" \notin Locked
        /\ UNCHANGED <<cache, lock, outside>>
    BY <1>3 DEF ReadToken, Phase, Locked, Dropping
  <2>2. PICK x \in Thread : /\ Moves(w, x) /\ x.phase = "send" /\ x.used = token
                            /\ x.refused = thread[w].refused
    <3>1. Takes(w, "send", token) /\ token \in Token \cup {None}
      BY <1>0, <1>3 DEF ReadToken, TypeOK, Takes
    <3>. QED BY <1>0, <2>1, <3>1, TakesMoves
  <2>3. /\ x.phase \notin Locked /\ x.phase # "wantDrop"
        /\ x.used \in {None, token, thread[w].used}
        /\ x.refused \in {Unrefused, thread[w].refused, thread[w].used}
        /\ x.refused = None \/ token # x.refused
    BY <1>1, <2>1, <2>2
  <2>4. x.used = None \/ x.used # x.refused
    BY <2>2, <2>3
  <2>. QED BY <2>1, <2>2, <2>3, <2>4, QuietStep
<1>4. CASE Ends(w)
  <2>1. /\ thread[w].phase \notin Locked
        /\ UNCHANGED <<cache, lock, outside>>
        /\ Moves(w, Idle)
    BY <1>0, <1>4, EndMoves DEF Ends, Locked
  <2>. QED BY <1>0, <2>1, IdleType, QuietStep DEF Locked
<1>5. CASE Again(w)
  <2>1. /\ thread[w].phase \notin Locked /\ w \notin Dropping
        /\ UNCHANGED <<cache, lock, outside>>
    BY <1>5 DEF Again, Locked, Dropping
  <2>2. PICK x \in Thread : /\ Moves(w, x) /\ x.phase \in {"idle", "checkToken"}
                            /\ \/ x.used = thread[w].used /\ x.refused = thread[w].refused
                               \/ x = Idle
    BY <1>0, <1>5, LoopsMoves DEF Again
  <2>3. x.phase \notin Locked
    BY <2>2 DEF Locked
  <2>4. CASE x = Idle
    BY <1>0, <2>1, <2>2, <2>3, <2>4, IdleType, QuietStep
  <2>5. CASE x.used = thread[w].used /\ x.refused = thread[w].refused
    BY <1>1, <2>1, <2>2, <2>3, <2>5, QuietStep
  <2>. QED BY <2>2, <2>4, <2>5
<1>6. CASE Refused(w)
  <2>1. /\ thread[w].phase \notin Locked
        /\ ~Honoured(thread[w].used)
        /\ UNCHANGED <<cache, lock, outside>>
    BY <1>6 DEF Refused, Locked
  <2>2. PICK x \in Thread : /\ Moves(w, x) /\ x.phase = "wantDrop" /\ x.used = thread[w].used
                            /\ x.refused = thread[w].used
    BY <1>0, <1>6, RefusedMoves
  <2>3. x.phase \notin Locked /\ x.phase # "send"
    BY <2>2 DEF Locked
  <2>4. thread[w].used # Unrefused
    <3>1. thread[w].used \in Token \cup {None}
      BY <1>0, FieldTypes DEF TypeOK
    <3>. QED BY <3>1, CacheAssumption DEF Token, None, Unrefused
  <2>5. x.refused # Unrefused /\ ~Honoured(x.refused)
    BY <2>1, <2>2, <2>4 DEF Honoured
  <2>. QED BY <2>1, <2>2, <2>3, <2>5, QuietStep
<1>. QED BY <1>2, <1>3, <1>4, <1>5, <1>6

\* A step of the thread that holds the lock, or takes it: nobody else is in
\* a with statement, so only what w and the cache become matters.
LEMMA LockedStep ==
  ASSUME IInv, NEW w \in Worker, NEW x \in Thread, Moves(w, x),
         lock \in {w, Nobody}, lock' \in {w, Nobody}, x.phase \in Locked <=> lock' = w,
         UNCHANGED <<clock, revoked>>,
         token' \in Token \cup {None}, expires' \in Nat,
         issued' \in 0 .. MaxTokens, ends' \in [Token -> Nat],
         issued <= issued', token' <= issued', x.used <= issued', x.refused <= issued',
         \A t \in Token : t <= issued => ends'[t] = ends[t],
         x.phase \in {"storeExpiry", "storeToken"} =>
           /\ x.used = issued' /\ token' < issued' /\ x.refused < issued'
           /\ \A v \in Worker \ {w} : thread[v].used < issued' /\ thread[v].refused < issued',
         x.phase = "fetch" => ~Valid',
         x.phase \in {"wantDrop", "compare"} => x.refused # Unrefused /\ ~Honoured(x.refused)',
         x.phase \notin {"wantDrop", "compare"} => x.refused = None \/ token' # x.refused,
         \A v \in Worker \ {w} : token' \in {None, token} \/ thread[v].refused < token',
         x.phase = "send" => x.used = None \/ x.used # x.refused
  PROVE  IInv'
<1>1. /\ thread' \in [Worker -> Thread]
      /\ thread'[w] = x
      /\ \A v \in Worker : v = w \/ (thread'[v] = thread[v] /\ thread[v].phase \notin Locked)
  BY NobodyAssumption DEF Moves, IInv, TypeOK
<1>2. TypeOK'
  BY <1>1, NobodyAssumption DEF IInv, TypeOK
<1>3. ASSUME NEW v \in Worker
      PROVE  thread[v].used \in Nat /\ thread[v].refused \in Nat \cup {Unrefused}
  <2>1. thread[v] \in Thread
    BY DEF IInv, TypeOK
  <2>2. thread[v].used \in Token \cup {None} /\ thread[v].refused \in Token \cup {None, Unrefused}
    BY <2>1, FieldTypes
  <2>. QED BY <2>2, CacheAssumption DEF Token, None
<1>4. issued \in Nat /\ issued' \in Nat /\ token \in Nat /\ token' \in Nat
  BY CacheAssumption DEF IInv, TypeOK, Token, None
<1>5. Numbered'
  <2>. SUFFICES ASSUME NEW v \in Worker
                PROVE  thread'[v].used <= issued' /\ thread'[v].refused <= issued'
    BY DEF Numbered
  <2>1. CASE v = w
    BY <1>1, <2>1
  <2>2. CASE v # w
    BY <1>1, <1>3, <1>4, <2>2 DEF IInv, Numbered, Unrefused
  <2>. QED BY <2>1, <2>2
<1>6. StoringNew'
  <2>1. ASSUME NEW u \in Storing'
        PROVE  u = w /\ x.phase \in {"storeExpiry", "storeToken"}
    BY <1>1 DEF Storing, Locked
  <2>2. CASE x.phase \in {"storeExpiry", "storeToken"}
    <3>1. /\ x.used = issued' /\ token' < issued' /\ x.refused < issued'
          /\ \A v \in Worker \ {w} : thread[v].used < issued' /\ thread[v].refused < issued'
      BY <2>2
    <3>. QED BY <1>1, <2>1, <3>1 DEF StoringNew
  <2>3. CASE x.phase \notin {"storeExpiry", "storeToken"}
    BY <2>1, <2>3 DEF StoringNew
  <2>. QED BY <2>2, <2>3
<1>7. NoStampede'
  BY <1>1 DEF NoStampede, Locked
<1>8. DroppingDead'
  <2>. SUFFICES ASSUME NEW v \in Dropping' PROVE Reauthed(v)' /\ ~Honoured(thread[v].refused)'
    BY Zenon DEF DroppingDead
  <2>1. CASE v = w
    BY <1>1, <2>1 DEF Dropping, Honoured, Reauthed
  <2>2. CASE v # w
    <3>1. v \in Dropping /\ thread'[v] = thread[v]
      BY <1>1, <2>2 DEF Dropping
    <3>2. thread[v] \in Thread /\ Reauthed(v) /\ ~Honoured(thread[v].refused)
      BY <3>1 DEF IInv, DroppingDead, TypeOK, Dropping
    <3>3. thread[v].refused = None
          \/ (thread[v].refused \in Token /\ thread[v].refused <= issued)
      BY <3>1, <3>2, FieldTypes DEF Reauthed, IInv, Numbered, Dropping
    <3>4. ~Honoured(thread[v].refused)'
      BY <3>1, <3>2, <3>3 DEF Honoured
    <3>. QED BY <3>1, <3>2, <3>4 DEF Reauthed
  <2>. QED BY <2>1, <2>2
<1>9. Gone'
  <2>. SUFFICES ASSUME NEW v \in Worker \ Dropping'
                PROVE  thread'[v].refused = None \/ token' # thread'[v].refused
    BY DEF Gone
  <2>1. CASE v = w
    BY <1>1, <2>1 DEF Dropping
  <2>2. CASE v # w
    <3>1. v \in Worker \ Dropping /\ thread'[v] = thread[v]
      BY <1>1, <2>2 DEF Dropping
    <3>2. thread[v].refused = None \/ token # thread[v].refused
      BY <3>1 DEF IInv, Gone
    <3>3. CASE token' \in {None, token}
      BY <3>1, <3>2, <3>3
    <3>4. CASE thread[v].refused < token'
      <4>1. thread[v].refused # token'
        BY <1>3, <1>4, <3>4 DEF Unrefused
      <4>. QED BY <3>1, <4>1
    <3>. QED BY <2>2, <3>3, <3>4
  <2>. QED BY <2>1, <2>2
<1>10. RefusedNotReused'
  BY <1>1 DEF IInv, RefusedNotReused
<1>. QED BY <1>2, <1>5, <1>6, <1>7, <1>8, <1>9, <1>10 DEF IInv

\* What the lock holder's neighbourhood looks like before its step.
LEMMA Before ==
  ASSUME IInv, NEW w \in Worker
  PROVE  /\ TypeOK
         /\ thread[w] \in Thread
         /\ thread[w].used \in Token \cup {None} /\ thread[w].used <= issued
         /\ thread[w].refused \in Token \cup {None, Unrefused} /\ thread[w].refused <= issued
         /\ token \in Token \cup {None} /\ token <= issued
         /\ issued \in 0 .. MaxTokens /\ issued \in Nat
         /\ thread[w].phase \in Locked <=> lock = w
         /\ w \notin Dropping => thread[w].refused = None \/ token # thread[w].refused
<1>1. TypeOK /\ thread[w] \in Thread
  BY DEF IInv, TypeOK
<1>2. issued \in 0 .. MaxTokens /\ issued \in Nat
  BY <1>1, CacheAssumption DEF TypeOK
<1>. QED BY <1>1, <1>2, FieldTypes DEF IInv, TypeOK, Numbered, Gone

LEMMA AcquireStep ==
  ASSUME IInv, NEW w \in Worker, Acquire(w)
  PROVE  IInv'
<1>1. /\ lock = Nobody /\ lock' = w
      /\ UNCHANGED <<token, expires, clock, issued, ends, revoked>>
  BY DEF Acquire, cache, outside
<1>2. PICK p \in Phase : /\ Goes(w, p)
                         /\ \/ p = "recheck" /\ thread[w].phase = "wantRefresh"
                            \/ p = "compare" /\ thread[w].phase = "wantDrop"
  BY DEF Acquire, Phase
<1>3. PICK x \in Thread : /\ Moves(w, x) /\ x.phase = p /\ x.used = thread[w].used
                          /\ x.refused = thread[w].refused
  BY <1>2, Before, GoesMoves
<1>4. x.phase \in Locked /\ x.phase \notin {"storeExpiry", "storeToken", "fetch", "send", "wantDrop"}
  BY <1>2, <1>3 DEF Locked
<1>5. CASE x.phase = "compare"
  <2>1. w \in Dropping
    BY <1>2, <1>3, <1>5 DEF Dropping
  <2>2. thread[w].refused # Unrefused /\ ~Honoured(thread[w].refused)
    BY <2>1 DEF IInv, DroppingDead, Reauthed
  <2>3. x.refused # Unrefused /\ ~Honoured(x.refused)'
    BY <1>1, <1>3, <2>2 DEF Honoured
  <2>. QED BY <1>1, <1>3, <1>4, <1>5, <2>3, Before, LockedStep DEF IInv, TypeOK
<1>6. CASE x.phase = "recheck"
  <2>1. x.refused = None \/ token # x.refused
    BY <1>2, <1>3, <1>6, Before DEF Dropping
  <2>. QED BY <1>1, <1>3, <1>4, <1>6, <2>1, Before, LockedStep DEF IInv, TypeOK
<1>. QED BY <1>2, <1>3, <1>5, <1>6

LEMMA RecheckStep ==
  ASSUME IInv, NEW w \in Worker, Recheck(w)
  PROVE  IInv'
<1>1. /\ lock = w /\ w \notin Dropping
      /\ UNCHANGED <<token, expires, clock, issued, ends, revoked>>
  BY Before DEF Recheck, Locked, Dropping, cache, outside
<1>2. thread[w].refused = None \/ token # thread[w].refused
  BY <1>1, Before
<1>3. CASE Valid
  <2>1. Takes(w, "send", token) /\ lock' = Nobody /\ "send" \in Phase
    BY <1>3 DEF Recheck, Takes, Phase
  <2>2. PICK x \in Thread : /\ Moves(w, x) /\ x.phase = "send" /\ x.used = token
                            /\ x.refused = thread[w].refused
    BY <2>1, Before, TakesMoves
  <2>3. x.phase \notin Locked /\ lock' # w
    BY <2>1, <2>2, NobodyAssumption DEF Locked
  <2>4. x.used = None \/ x.used # x.refused
    BY <1>2, <2>2
  <2>. QED BY <1>1, <1>2, <2>1, <2>2, <2>3, <2>4, Before, LockedStep DEF IInv, TypeOK
<1>4. CASE ~Valid
  <2>1. Goes(w, "fetch") /\ lock' = lock /\ "fetch" \in Phase
    BY <1>4 DEF Recheck, Phase
  <2>2. PICK x \in Thread : /\ Moves(w, x) /\ x.phase = "fetch" /\ x.used = thread[w].used
                            /\ x.refused = thread[w].refused
    BY <2>1, Before, GoesMoves
  <2>3. x.phase \in Locked /\ ~Valid'
    BY <1>1, <1>4, <2>2 DEF Locked, Valid, Fresh
  <2>. QED BY <1>1, <1>2, <2>1, <2>2, <2>3, Before, LockedStep DEF IInv, TypeOK
<1>. QED BY <1>3, <1>4

LEMMA FetchedStep ==
  ASSUME IInv, NEW w \in Worker, Fetched(w)
  PROVE  IInv'
<1>1. /\ lock = w /\ lock' = w /\ w \notin Dropping /\ issued < MaxTokens /\ issued' = issued + 1
      /\ ends' = [ends EXCEPT ![issued + 1] = clock + Life]
      /\ UNCHANGED <<token, expires, clock, revoked>>
  BY Before DEF Fetched, Locked, Dropping, cache
<1>2. issued' \in Token /\ issued' \in 0 .. MaxTokens /\ clock + Life \in Nat
  BY <1>1, Before, CacheAssumption DEF Token, TypeOK, Instant
<1>3. ends' \in [Token -> Nat] /\ \A t \in Token : t <= issued => ends'[t] = ends[t]
  BY <1>1, <1>2, Before, CacheAssumption DEF TypeOK, Token
<1>4. PICK x \in Thread : /\ Moves(w, x) /\ x.phase = "storeExpiry" /\ x.used = issued'
                          /\ x.refused = thread[w].refused
  <2>1. Takes(w, "storeExpiry", issued') /\ "storeExpiry" \in Phase
    BY <1>1 DEF Fetched, Takes, Phase
  <2>. QED BY <1>2, <2>1, Before, TakesMoves
<1>5. thread[w].refused = None \/ token # thread[w].refused
  BY <1>1, Before
<1>6. \A v \in Worker : thread[v].used < issued' /\ thread[v].refused < issued'
  <2>. SUFFICES ASSUME NEW v \in Worker PROVE thread[v].used < issued' /\ thread[v].refused < issued'
    OBVIOUS
  <2>1. /\ thread[v].used \in Int /\ thread[v].used <= issued
        /\ thread[v].refused \in Int /\ thread[v].refused <= issued
    BY Before, CacheAssumption DEF Token, None, Unrefused
  <2>. QED BY <1>1, <2>1, Before
<1>7. token < issued' /\ issued <= issued' /\ x.refused < issued' /\ x.used <= issued'
  <2>1. token \in Int
    BY Before, CacheAssumption DEF Token, None
  <2>. QED BY <1>1, <1>4, <1>6, <2>1, Before
<1>8. token' <= issued' /\ x.refused <= issued' /\ token' < issued'
  <2>1. token \in Int /\ x.refused \in Int
    BY <1>4, Before, CacheAssumption DEF Token, None, Unrefused
  <2>. QED BY <1>1, <1>7, <2>1, Before
<1>9. x.phase \in Locked
  BY <1>4 DEF Locked
<1>. QED
  BY <1>1, <1>2, <1>3, <1>4, <1>5, <1>6, <1>7, <1>8, <1>9, Before, LockedStep DEF IInv, TypeOK

LEMMA FetchFailsStep ==
  ASSUME IInv, NEW w \in Worker, FetchFails(w)
  PROVE  IInv'
<1>1. /\ lock = w /\ lock' = Nobody /\ w \notin Dropping
      /\ UNCHANGED <<token, expires, clock, issued, ends, revoked>>
  BY Before DEF FetchFails, Locked, Dropping, cache, outside
<1>2. Moves(w, Idle) /\ Idle \in Thread
  BY Before, EndMoves, IdleType DEF FetchFails
<1>3. Idle.phase \notin Locked /\ lock' # w
  BY <1>1, IdleType, NobodyAssumption DEF Locked
<1>4. Idle.used <= issued /\ Idle.refused <= issued /\ token # Idle.refused /\ Idle.refused # Idle.used
  BY IdleType, Before, CacheAssumption DEF Token, None, Unrefused
<1>. QED BY <1>1, <1>2, <1>3, <1>4, IdleType, Before, LockedStep DEF IInv, TypeOK

LEMMA StoreExpiryStep ==
  ASSUME IInv, NEW w \in Worker, StoreExpiry(w)
  PROVE  IInv'
<1>1. /\ lock = w /\ lock' = w /\ w \notin Dropping /\ w \in Storing
      /\ UNCHANGED <<token, clock, issued, ends, revoked>>
  BY Before DEF StoreExpiry, Locked, Dropping, Storing, outside
<1>2. /\ thread[w].used = issued /\ token < issued /\ thread[w].refused < issued
      /\ \A v \in Worker \ {w} : thread[v].used < issued /\ thread[v].refused < issued
  BY <1>1 DEF IInv, StoringNew
<1>3. expires' \in Nat
  <2>1. issued \in Token
    BY <1>2, Before, CacheAssumption DEF Token, None
  <2>2. ends[issued] \in Nat /\ clock + Fallback \in Nat
    BY <2>1, Before, CacheAssumption DEF TypeOK, Instant
  <2>. QED BY <1>2, <2>2 DEF StoreExpiry
<1>4. PICK x \in Thread : /\ Moves(w, x) /\ x.phase = "storeToken" /\ x.used = thread[w].used
                          /\ x.refused = thread[w].refused
  <2>1. Goes(w, "storeToken") /\ "storeToken" \in Phase
    BY DEF StoreExpiry, Phase
  <2>. QED BY <2>1, Before, GoesMoves
<1>5. x.phase \in Locked
  BY <1>4 DEF Locked
<1>6. thread[w].refused = None \/ token # thread[w].refused
  BY <1>1, Before
<1>. QED BY <1>1, <1>2, <1>3, <1>4, <1>5, <1>6, Before, LockedStep DEF IInv, TypeOK

LEMMA StoreTokenStep ==
  ASSUME IInv, NEW w \in Worker, StoreToken(w)
  PROVE  IInv'
<1>1. /\ lock = w /\ lock' = Nobody /\ w \notin Dropping /\ w \in Storing /\ token' = thread[w].used
      /\ UNCHANGED <<expires, clock, issued, ends, revoked>>
  BY Before DEF StoreToken, Locked, Dropping, Storing, outside
<1>2. /\ thread[w].used = issued /\ thread[w].refused < issued
      /\ \A v \in Worker \ {w} : thread[v].used < issued /\ thread[v].refused < issued
  BY <1>1 DEF IInv, StoringNew
<1>3. PICK x \in Thread : /\ Moves(w, x) /\ x.phase = "send" /\ x.used = thread[w].used
                          /\ x.refused = thread[w].refused
  <2>1. Goes(w, "send") /\ "send" \in Phase
    BY DEF StoreToken, Phase
  <2>. QED BY <2>1, Before, GoesMoves
<1>4. x.phase \notin Locked /\ lock' # w
  BY <1>1, <1>3, NobodyAssumption DEF Locked
<1>5. x.refused # x.used
  <2>1. x.refused \in Int /\ x.used \in Int
    BY <1>3, Before, CacheAssumption DEF Token, None, Unrefused
  <2>. QED BY <1>2, <1>3, <2>1
<1>. QED BY <1>1, <1>2, <1>3, <1>4, <1>5, Before, LockedStep DEF IInv, TypeOK

LEMMA CompareStep ==
  ASSUME IInv, NEW w \in Worker, Compare(w)
  PROVE  IInv'
<1>1. /\ lock = w /\ w \in Dropping
      /\ UNCHANGED <<expires, clock, issued, ends, revoked>>
  BY Before DEF Compare, Locked, Dropping, outside
<1>2. CASE token = thread[w].refused
  <2>1. Goes(w, "clearExpiry") /\ "clearExpiry" \in Phase /\ token' = None /\ lock' = w
    BY <1>1, <1>2 DEF Compare, Phase
  <2>2. PICK x \in Thread : /\ Moves(w, x) /\ x.phase = "clearExpiry" /\ x.used = thread[w].used
                            /\ x.refused = thread[w].refused
    BY <2>1, Before, GoesMoves
  <2>3. x.phase \in Locked /\ token' \in Token \cup {None} /\ token' <= issued
        /\ (x.refused = None \/ token' # x.refused)
    BY <2>1, <2>2, Before DEF Locked, None
  <2>. QED BY <1>1, <2>1, <2>2, <2>3, Before, LockedStep DEF IInv, TypeOK
<1>3. CASE token # thread[w].refused
  <2>1. Loops(w) /\ token' = token /\ lock' = Nobody
    BY <1>3 DEF Compare
  <2>2. PICK x \in Thread : /\ Moves(w, x) /\ x.phase \in {"idle", "checkToken"}
                            /\ \/ x.used = thread[w].used /\ x.refused = thread[w].refused
                               \/ x = Idle
    BY <2>1, Before, LoopsMoves
  <2>3. x.phase \notin Locked /\ lock' # w /\ x.phase \notin {"send", "wantDrop", "compare", "fetch"}
    BY <2>1, <2>2, NobodyAssumption DEF Locked
  <2>4. x.used <= issued /\ x.refused <= issued /\ token # x.refused
    BY <1>3, <2>2, IdleType, Before, CacheAssumption DEF Token, None, Unrefused
  <2>. QED BY <1>1, <2>1, <2>2, <2>3, <2>4, Before, LockedStep DEF IInv, TypeOK
<1>. QED BY <1>2, <1>3

LEMMA ClearExpiryStep ==
  ASSUME IInv, NEW w \in Worker, ClearExpiry(w)
  PROVE  IInv'
<1>1. /\ lock = w /\ lock' = Nobody /\ w \notin Dropping /\ Loops(w) /\ expires' = 0
      /\ UNCHANGED <<token, clock, issued, ends, revoked>>
  BY Before DEF ClearExpiry, Locked, Dropping, outside
<1>2. PICK x \in Thread : /\ Moves(w, x) /\ x.phase \in {"idle", "checkToken"}
                          /\ \/ x.used = thread[w].used /\ x.refused = thread[w].refused
                             \/ x = Idle
  BY <1>1, Before, LoopsMoves
<1>3. x.phase \notin Locked /\ lock' # w /\ x.phase \notin {"send", "wantDrop", "compare", "fetch"}
  BY <1>1, <1>2, NobodyAssumption DEF Locked
<1>4. x.used <= issued /\ x.refused <= issued /\ (x.refused = None \/ token # x.refused)
  BY <1>1, <1>2, IdleType, Before, CacheAssumption DEF Token, None, Unrefused
<1>. QED BY <1>1, <1>2, <1>3, <1>4, Before, LockedStep DEF IInv, TypeOK

\* Time and revocations only make tokens less valid.
LEMMA OutsideStep ==
  ASSUME IInv, Tick \/ \E t \in Token : Revoke(t)
  PROVE  IInv'
<1>1. /\ UNCHANGED <<token, expires, lock, thread, issued, ends>>
      /\ clock' \in Instant /\ clock <= clock' /\ revoked \subseteq revoked' /\ revoked' \subseteq Token
  BY CacheAssumption DEF Tick, Revoke, IInv, TypeOK, Instant, cache
<1>2. TypeOK'
  BY <1>1 DEF IInv, TypeOK
<1>3. Numbered' /\ Gone' /\ RefusedNotReused'
  BY <1>1 DEF IInv, Numbered, Gone, Dropping, RefusedNotReused
<1>4. StoringNew'
  BY <1>1 DEF IInv, StoringNew, Storing
<1>5. NoStampede'
  <2>1. clock \in Int /\ clock' \in Int /\ expires - Skew \in Int
    BY <1>1, CacheAssumption DEF IInv, TypeOK, Instant
  <2>2. Valid' => Valid
    BY <1>1, <2>1 DEF Valid, Fresh
  <2>. QED BY <1>1, <2>2 DEF IInv, NoStampede
<1>6. DroppingDead'
  <2>. SUFFICES ASSUME NEW w \in Dropping
                PROVE  Reauthed(w) /\ ~Honoured(thread[w].refused)'
    BY <1>1 DEF DroppingDead, Dropping, Reauthed
  <2>1. Reauthed(w) /\ ~Honoured(thread[w].refused) /\ thread[w] \in Thread
    BY DEF IInv, DroppingDead, TypeOK, Dropping
  <2>2. thread[w].refused = None \/ thread[w].refused \in Token
    BY <2>1, FieldTypes DEF Reauthed
  <2>3. CASE thread[w].refused \in Token
    <3>1. ends[thread[w].refused] \in Int /\ clock \in Int /\ clock' \in Int
      BY <1>1, <2>3, CacheAssumption DEF IInv, TypeOK, Instant
    <3>. QED BY <1>1, <2>1, <3>1 DEF Honoured
  <2>4. CASE thread[w].refused = None
    BY <1>1, <2>1, <2>4 DEF Honoured
  <2>. QED BY <2>2, <2>3, <2>4
<1>. QED BY <1>2, <1>3, <1>4, <1>5, <1>6 DEF IInv

LEMMA StepIInv == IInv /\ [Next]_vars => IInv'
<1> SUFFICES ASSUME IInv, [Next]_vars PROVE IInv'
  OBVIOUS
<1>1. ASSUME NEW w \in Worker, Call(w) \/ Runs(w) PROVE IInv'
  BY <1>1, StepOutsideLock, AcquireStep, RecheckStep, FetchedStep, FetchFailsStep,
     StoreExpiryStep, StoreTokenStep, CompareStep, ClearExpiryStep DEF Runs
<1>2. CASE UNCHANGED vars
  <2>1. UNCHANGED <<token, expires, lock, thread, clock, issued, ends, revoked>>
    BY <1>2 DEF vars, cache, outside
  <2>2. TypeOK' /\ Numbered' /\ StoringNew' /\ NoStampede'
    BY <2>1 DEF IInv, TypeOK, Numbered, StoringNew, Storing, NoStampede, Valid, Fresh
  <2>3. DroppingDead' /\ Gone' /\ RefusedNotReused'
    BY <2>1 DEF IInv, DroppingDead, Gone, RefusedNotReused, Dropping, Honoured, Reauthed
  <2>. QED BY <2>2, <2>3 DEF IInv
<1>. QED BY <1>1, <1>2, OutsideStep DEF Next

LEMMA IInvHolds == Spec => []IInv
BY InitIInv, StepIInv, PTL DEF Spec

-----------------------------------------------------------------------------
(* The theorems.                                                           *)

\* The cache keeps its types, and threads hold the lock exactly inside the
\* with statements of get and invalidate_if_current.
THEOREM CacheTypes == Spec => []TypeOK
BY IInvHolds, PTL DEF IInv

\* However many workers find the cache empty or stale at once, they ask for
\* a token one at a time, and only while none that is valid is cached.
THEOREM OneRefreshAtATime == Spec => []NoStampede
BY IInvHolds, PTL DEF IInv

\* No request is repeated with the token it was refused with, whatever the
\* unlocked reads of get return.
THEOREM NewTokenAfterRefusal == Spec => []RefusedNotReused
BY IInvHolds, PTL DEF IInv

\* A refusal of an old token never costs the cache a token GreenInvoice
\* still honours.
THEOREM OnlyDeadTokensDropped == Spec => DropsOnlyDead
<1>1. IInv /\ [Next]_vars => [token # None /\ token' = None => ~Honoured(token)]_vars
  <2>. SUFFICES ASSUME IInv, Next, token # None, token' = None PROVE ~Honoured(token)
    OBVIOUS
  <2>1. PICK w \in Worker : token' # token /\ (Call(w) \/ Runs(w))
    BY DEF Next, Tick, Revoke, cache
  <2>2. Compare(w) \/ StoreToken(w)
    BY <2>1 DEF Call, Runs, CheckToken, CheckExpiry, ReadToken, Acquire, Recheck, Fetched,
       FetchFails, StoreExpiry, Ends, Again, Refused, ClearExpiry, cache
  <2>3. CASE Compare(w)
    <3>1. w \in Dropping /\ token = thread[w].refused
      BY <2>1, <2>3 DEF Compare, Dropping
    <3>. QED BY <3>1 DEF IInv, DroppingDead
  <2>4. CASE StoreToken(w)
    <3>1. w \in Storing /\ token' = thread[w].used
      BY <2>4 DEF StoreToken, Storing
    <3>2. token' = issued /\ token < issued
      BY <3>1 DEF IInv, StoringNew
    <3>3. token \in Token /\ issued \in Nat
      BY Before, <2>1
    <3>. QED BY <3>2, <3>3, CacheAssumption DEF Token, None
  <2>. QED BY <2>2, <2>3, <2>4
<1>. QED BY <1>1, IInvHolds, PTL DEF Spec, DropsOnlyDead
=============================================================================
