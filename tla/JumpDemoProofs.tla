--------------------------- MODULE JumpDemoProofs ---------------------------
(***************************************************************************)
(* Proofs about PointerGuard and JumpDemo, for every word size, rotation,  *)
(* key and choice of addresses.                                            *)
(***************************************************************************)
EXTENDS JumpDemo, TLAPS

\* Rotating back undoes the rotation.
LEMMA RotateBack ==
  ASSUME NEW w \in Word
  PROVE  ror(rol(w)) = w
<1> DEFINE up(b)   == IF b < WordSize - Rotation THEN b + Rotation
                                                 ELSE b + Rotation - WordSize
           down(b) == IF b < Rotation THEN b + WordSize - Rotation ELSE b - Rotation
<1>1. ASSUME NEW b \in Bits PROVE up(b) \in Bits /\ down(up(b)) = b
  BY RotationIsProper DEF Bits
<1>2. /\ rol(w) = [b \in Bits |-> w[down(b)]]
      /\ ror(rol(w)) = [b \in Bits |-> rol(w)[up(b)]]
  BY DEF rol, ror
<1> HIDE DEF up, down
<1>3. ASSUME NEW b \in Bits PROVE ror(rol(w))[b] = w[b]
  BY <1>1, <1>2, Zenon
<1> QED BY <1>2, <1>3, Zenon DEF Word

\* A second xor with the same word undoes the first.
LEMMA XorTwice ==
  ASSUME NEW a \in Word, NEW k \in Word
  PROVE  xor(xor(a, k), k) = a
<1> DEFINE differ(x, y) == x # y
<1>1. ASSUME NEW b \in Bits PROVE xor(xor(a, k), k)[b] = a[b]
  <2>1. a[b] \in BOOLEAN /\ k[b] \in BOOLEAN
    BY DEF Word
  <2>2. xor(xor(a, k), k)[b] = differ(differ(a[b], k[b]), k[b])
    BY Zenon DEF xor
  <2>3. \A x, y \in BOOLEAN : differ(differ(x, y), y) = x
    OBVIOUS
  <2> HIDE DEF differ
  <2> QED BY <2>1, <2>2, <2>3, Zenon
<1>2. xor(xor(a, k), k) = [b \in Bits |-> xor(xor(a, k), k)[b]]
  BY Zenon DEF xor
<1> QED BY <1>1, <1>2, Zenon DEF Word

LEMMA XorType ==
  ASSUME NEW a \in Word, NEW k \in Word
  PROVE  xor(a, k) \in Word
BY Zenon DEF Word, xor

LEMMA MangledType ==
  ASSUME NEW a \in Word, NEW k \in Word
  PROVE  Mangled(a, k) \in Word
<1> DEFINE down(b) == IF b < Rotation THEN b + WordSize - Rotation ELSE b - Rotation
<1>1. ASSUME NEW b \in Bits PROVE down(b) \in Bits
  BY RotationIsProper DEF Bits
<1>2. rol(xor(a, k)) = [b \in Bits |-> xor(a, k)[down(b)]]
  BY DEF rol
<1> HIDE DEF down
<1>3. ASSUME NEW b \in Bits PROVE xor(a, k)[down(b)] \in BOOLEAN
  BY <1>1, XorType, Zenon DEF Word
<1> QED BY <1>2, <1>3, Zenon DEF Mangled, Word

\* translate_address (utils.h) is what sigsetjmp does, and siglongjmp undoes it
\* whatever the key.
THEOREM RoundTrip ==
  ASSUME NEW a \in Word, NEW k \in Word
  PROVE  Demangled(translate_address(a, k), k) = a
BY RotateBack, XorTwice, XorType, Zenon DEF Demangled, translate_address

-----------------------------------------------------------------------------
\* The words of a context that leads to a place and a stack.
Words(place, stack) == [pc |-> Mangled(Address[place], key),
                        sp |-> Mangled(Address[stack], key)]

\* Once main has jumped, every context leads to its thread's own stack, to a
\* place where its thread may go on.
ContextsLeadHome ==
  pc # "main" =>
    /\ current_thread \in Threads
    /\ pc \notin {"setup_thread", "hello"}
    /\ sp = OwnStack[current_thread]
    /\ \A t \in Threads : env[t] \in {Words(Entry[t], OwnStack[t]),
                                      Words("yield", OwnStack[t])}

JumpInv == TypeOK /\ ContextsLeadHome

LEMMA AddressType ==
  ASSUME NEW p \in Places \cup StackNames
  PROVE  Address[p] \in Word
BY AddressesAreDistinct

LEMMA NamedPlace ==
  ASSUME NEW names \in {Places, StackNames}, NEW p \in names
  PROVE  Named(names, Address[p]) = p
<1>1. DOMAIN Address = Places \cup StackNames
  BY AddressesAreDistinct
<1>2. \A n \in names : Address[n] = Address[p] => n = p
  BY <1>1, AddressesAreDistinct
<1> QED BY <1>2, Zenon DEF Named

\* A jump to a context made of proper words goes where they lead.
LEMMA Landing ==
  ASSUME key \in Word, NEW p \in Places, NEW s \in StackNames
  PROVE  /\ Words(p, s) \in [pc : Word, sp : Word]
         /\ Named(Places, Demangled(Words(p, s).pc, key)) = p
         /\ Named(StackNames, Demangled(Words(p, s).sp, key)) = s
<1>1. /\ Address[p] \in Word
      /\ Address[s] \in Word
  BY AddressType
<1>2. /\ Words(p, s).pc = Mangled(Address[p], key)
      /\ Words(p, s).sp = Mangled(Address[s], key)
  BY DEF Words
<1>3. ASSUME NEW a \in Word PROVE Demangled(Mangled(a, key), key) = a
  BY RoundTrip, Zenon DEF Mangled, translate_address
<1>4. Words(p, s) \in [pc : Word, sp : Word]
  BY <1>1, MangledType DEF Words
<1>5. Named(Places, Address[p]) = p /\ Named(StackNames, Address[s]) = s
  BY NamedPlace
<1> QED BY <1>1, <1>2, <1>3, <1>4, <1>5, Zenon

LEMMA Homes ==
  /\ \A t \in Threads : OwnStack[t] \in StackNames /\ Entry[t] \in Places
  /\ "yield" \in Places
  /\ \A t \in Threads : Entry[t] \notin {"setup_thread", "hello"}
BY DEF OwnStack, Entry, StackNames, Places, Threads

LEMMA JumpInvInit == Init => JumpInv
<1> SUFFICES ASSUME Init PROVE JumpInv
  OBVIOUS
<1>1. env \in [Threads -> [pc : Word, sp : Word]]
  BY DEF Init, Word
<1>2. i \in [Threads -> 0 .. MaxCount]
  BY MaxCountIsNatural DEF Init
<1> QED BY <1>1, <1>2 DEF Init, JumpInv, TypeOK, ContextsLeadHome, StackNames

\* A jump to one of the threads, when every context leads home.
LEMMA JumpsLeadHome ==
  ASSUME JumpInv, UNCHANGED <<key, i>>,
         NEW tid \in Threads, NEW envs \in [Threads -> [pc : Word, sp : Word]],
         \A t \in Threads : envs[t] \in {Words(Entry[t], OwnStack[t]),
                                         Words("yield", OwnStack[t])},
         jump_to_thread(tid, envs)
  PROVE  JumpInv'
<1>1. key \in Word /\ OwnStack[tid] \in StackNames
  BY Homes DEF JumpInv, TypeOK
<1>2. PICK place \in {Entry[tid], "yield"} : envs[tid] = Words(place, OwnStack[tid])
  OBVIOUS
<1>3. place \in Places /\ place \notin {"setup_thread", "hello"}
  BY <1>2, Homes
<1>4. pc' = place /\ sp' = OwnStack[tid]
  <2>1. /\ Named(Places, Demangled(Words(place, OwnStack[tid]).pc, key)) = place
        /\ Named(StackNames, Demangled(Words(place, OwnStack[tid]).sp, key))
             = OwnStack[tid]
    BY <1>1, <1>3, Landing
  <2> QED BY <1>2, <2>1 DEF jump_to_thread
<1>5. env' = envs /\ current_thread' = tid
  BY DEF jump_to_thread
<1>6. TypeOK'
  BY <1>1, <1>3, <1>4, <1>5 DEF JumpInv, TypeOK
<1>7. ContextsLeadHome'
  <2>1. \A t \in Threads : env'[t] \in {Words(Entry[t], OwnStack[t])',
                                        Words("yield", OwnStack[t])'}
    BY <1>5 DEF Words
  <2> QED BY <1>3, <1>4, <1>5, <2>1 DEF ContextsLeadHome
<1> QED BY <1>6, <1>7 DEF JumpInv

\* A context that setup_thread makes leads to the entry of its thread.
LEMMA SetupLeadsToEntry ==
  ASSUME NEW t \in Threads
  PROVE  setup_thread(t) = Words(Entry[t], OwnStack[t])
<1>1. ASSUME NEW word PROVE translate_address(word, key) = Mangled(word, key)
  BY Zenon DEF translate_address, Mangled
<1>2. setup_thread(t) = [pc |-> translate_address(Address[Entry[t]], key),
                         sp |-> translate_address(Address[OwnStack[t]], key)]
  <2>1. setup_thread(t) \in
          [pc : {translate_address(Address[Entry[t]], key)},
           sp : {translate_address(Address[OwnStack[t]], key)}]
    BY DEF setup_thread, Saved
  <2>2. ASSUME NEW u, NEW v, NEW r \in [pc : {v}, sp : {u}]
        PROVE  r = [pc |-> v, sp |-> u]
    OBVIOUS
  <2> QED BY <2>1, <2>2, Zenon
<1>3. [pc |-> translate_address(Address[Entry[t]], key),
       sp |-> translate_address(Address[OwnStack[t]], key)]
        = Words(Entry[t], OwnStack[t])
  BY <1>1, Zenon DEF Words
<1> QED BY <1>2, <1>3, Zenon

LEMMA JumpInvNext == JumpInv /\ [Next]_demoVars => JumpInv'
<1> SUFFICES ASSUME JumpInv, [Next]_demoVars PROVE JumpInv'
  OBVIOUS
<1> USE DEF JumpInv
<1>1. CASE main
  <2> DEFINE envs == [t \in Threads |-> setup_thread(t)]
  <2>1. \A t \in Threads : setup_thread(t) = Words(Entry[t], OwnStack[t])
    BY SetupLeadsToEntry
  <2>2. envs \in [Threads -> [pc : Word, sp : Word]]
    BY <2>1, Homes, Landing DEF TypeOK
  <2> QED BY <1>1, <2>1, <2>2, JumpsLeadHome DEF main, Threads
<1>2. ASSUME NEW t \in Threads, Begins(t) PROVE JumpInv'
  <2>1. pc # "main" /\ pc' = "count"
    BY <1>2, Homes DEF Begins, Places
  <2>2. i' \in [Threads -> 0 .. MaxCount]
    BY <1>2, MaxCountIsNatural DEF Begins, TypeOK
  <2> QED BY <1>2, <2>1, <2>2 DEF Begins, TypeOK, ContextsLeadHome, Words
<1>3. ASSUME NEW t \in Threads, Counts(t) PROVE JumpInv'
  <2>1. pc # "main" /\ pc' \in {"count", "turn"}
    BY <1>3 DEF Counts
  <2>2. i' \in [Threads -> 0 .. MaxCount]
    BY <1>3, MaxCountIsNatural DEF Counts, TypeOK
  <2> QED BY <1>3, <2>1, <2>2 DEF Counts, TypeOK, ContextsLeadHome, Words
<1>4. CASE yield
  <2> DEFINE envs == [env EXCEPT ![current_thread] = Saved("yield")]
  <2>1. current_thread \in Threads /\ sp = OwnStack[current_thread]
    BY <1>4 DEF yield, ContextsLeadHome
  <2>2. Saved("yield") = Words("yield", OwnStack[current_thread])
    BY <2>1 DEF Saved, Words
  <2>3. Saved("yield") \in [pc : Word, sp : Word]
    BY <2>1, <2>2, Homes, Landing DEF TypeOK
  <2>4. envs \in [Threads -> [pc : Word, sp : Word]]
    BY <2>3 DEF TypeOK
  <2>5. \A t \in Threads : envs[t] \in {Words(Entry[t], OwnStack[t]),
                                        Words("yield", OwnStack[t])}
    BY <1>4, <2>1, <2>2 DEF yield, ContextsLeadHome, TypeOK
  <2>6. 1 - current_thread \in Threads
    BY <2>1 DEF Threads
  <2> QED BY <1>4, <2>4, <2>5, <2>6, JumpsLeadHome DEF yield
<1>5. CASE ReturnsAgain
  BY <1>5 DEF ReturnsAgain, TypeOK, ContextsLeadHome, Words
<1>6. CASE UNCHANGED demoVars
  BY <1>6 DEF demoVars, TypeOK, ContextsLeadHome, Words
<1> QED BY <1>1, <1>2, <1>3, <1>4, <1>5, <1>6 DEF Next, AllCounted

LEMMA JumpInvariance == Spec => []JumpInv
BY JumpInvInit, JumpInvNext, PTL DEF Spec

\* Under every key each jump lands at a place of the program and on a stack.
THEOREM JumpsLand == Spec => []TypeOK
BY JumpInvariance, PTL DEF JumpInv

\* Each coroutine keeps to its own stack, however long the two take turns.
THEOREM OwnStackOnly == Spec => []EachOnItsStack
<1>1. JumpInv => EachOnItsStack
  BY DEF JumpInv, ContextsLeadHome, EachOnItsStack
<1> QED BY <1>1, JumpInvariance, PTL

\* No jump ever leads back into main: the printf after its jump is dead code.
THEOREM NeverHello == Spec => []HelloIsNeverPrinted
<1>1. JumpInv => HelloIsNeverPrinted
  BY DEF JumpInv, ContextsLeadHome, HelloIsNeverPrinted
<1> QED BY <1>1, JumpInvariance, PTL

-----------------------------------------------------------------------------
(***************************************************************************)
(* Turns.                                                                  *)
(***************************************************************************)

\* The turns that thread t has finished.
Turns(t) == i[t] \div Period[t]

\* A thread that waits stopped at the end of a turn in yield, or has not begun.
WaitsItsTurn(t) ==
  /\ i[t] % Period[t] = 0
  /\ \/ env[t] = Words("yield", OwnStack[t])
     \/ env[t] = Words(Entry[t], OwnStack[t]) /\ i[t] = 0

\* TurnsAlternate for every place of the program, with what the contexts
\* remember: a jump that led to an entry again would start a thread over.
TurnsTaken ==
  IF pc = "main" THEN \A t \in Threads : i[t] = 0
  ELSE /\ WaitsItsTurn(1 - current_thread)
       /\ pc \in {"thread0", "thread1"} =>
            pc = Entry[current_thread] /\ i[current_thread] = 0
       /\ pc = "turn" => i[current_thread] % Period[current_thread] = 0
       /\ Turns(0) = Turns(1) + (IF pc = "turn" THEN 1 - current_thread
                                                ELSE current_thread)

\* Counting on finishes a turn at every multiple of the period only.
LEMMA CountOn ==
  ASSUME NEW t \in Threads, NEW n \in Nat
  PROVE  /\ (n + 1) % Period[t] # 0 =>
              (n + 1) \div Period[t] = n \div Period[t]
         /\ (n + 1) % Period[t] = 0 =>
              (n + 1) \div Period[t] = (n \div Period[t]) + 1
<1>1. CASE t = 0
  <2>1. Period[t] = 3
    BY <1>1 DEF Period
  <2> QED BY <2>1
<1>2. CASE t = 1
  <2>1. Period[t] = 5
    BY <1>2 DEF Period, Threads
  <2> QED BY <2>1
<1> QED BY <1>1, <1>2 DEF Threads

LEMMA NothingCounted ==
  ASSUME NEW t \in Threads
  PROVE  0 % Period[t] = 0 /\ 0 \div Period[t] = 0
<1>1. Period[t] \in {3, 5}
  BY DEF Period, Threads
<1> QED BY <1>1

\* Where a jump to a thread's own context goes.
LEMMA LandsAt ==
  ASSUME key \in Word, NEW tid \in Threads, NEW envs,
         NEW place \in {Entry[tid], "yield"},
         envs[tid] = Words(place, OwnStack[tid]),
         jump_to_thread(tid, envs)
  PROVE  pc' = place /\ env' = envs /\ current_thread' = tid
<1>1. place \in Places /\ OwnStack[tid] \in StackNames
  BY Homes
<1>2. Named(Places, Demangled(Words(place, OwnStack[tid]).pc, key)) = place
  BY <1>1, Landing
<1> QED BY <1>2 DEF jump_to_thread

LEMMA TurnsStep ==
  ASSUME JumpInv, JumpInv', [Next]_demoVars, TurnsTaken
  PROVE  TurnsTaken'
<1>a. PICK me : me = current_thread
  OBVIOUS
<1>b. PICK other : other = 1 - current_thread
  OBVIOUS
<1> USE <1>a, <1>b
<1>1. /\ key \in Word
      /\ i \in [Threads -> Nat]
      /\ env \in [Threads -> [pc : Word, sp : Word]]
      /\ pc # "main" => me \in Threads /\ other \in Threads /\ other # me
                        /\ sp = OwnStack[me]
  <2>1. i \in [Threads -> Nat]
    BY MaxCountIsNatural DEF JumpInv, TypeOK
  <2>2. pc # "main" => me \in Threads /\ sp = OwnStack[me]
    BY DEF JumpInv, ContextsLeadHome
  <2> QED BY <2>1, <2>2 DEF JumpInv, TypeOK, Threads
<1>2. CASE main
  <2> DEFINE envs == [t \in Threads |-> setup_thread(t)]
  <2>1. /\ \A t \in Threads : envs[t] = Words(Entry[t], OwnStack[t])
        /\ 0 \in Threads /\ 1 \in Threads
    BY SetupLeadsToEntry DEF Threads
  <2>2. jump_to_thread(0, envs) /\ UNCHANGED <<key, i>> /\ pc = "main"
    BY <1>2 DEF main
  <2> HIDE DEF envs
  <2>3. pc' = Entry[0] /\ env' = envs /\ current_thread' = 0
    BY <1>1, <2>1, <2>2, LandsAt
  <2>4. i[0] = 0 /\ i[1] = 0 /\ i' = i
    BY <2>1, <2>2 DEF TurnsTaken
  <2>5. Words(Entry[1], OwnStack[1])' = Words(Entry[1], OwnStack[1])
    BY <2>2 DEF Words
  <2>6. (WaitsItsTurn(1 - current_thread))'
    BY <2>1, <2>3, <2>4, <2>5, NothingCounted DEF WaitsItsTurn
  <2>7. Turns(0)' = 0 /\ Turns(1)' = 0
    BY <2>1, <2>4, NothingCounted DEF Turns
  <2>8. pc' = "thread0" /\ Entry[0] = "thread0"
    BY <2>3 DEF Entry, Threads
  <2> QED BY <2>3, <2>4, <2>6, <2>7, <2>8 DEF TurnsTaken
<1>3. ASSUME NEW t \in Threads, Begins(t) PROVE TurnsTaken'
  <2>1. /\ pc = Entry[t] /\ pc' = "count" /\ i' = [i EXCEPT ![t] = 0]
        /\ UNCHANGED <<key, env, current_thread>>
    BY <1>3 DEF Begins
  <2>2. pc \in {"thread0", "thread1"} /\ pc # "main"
    BY <2>1 DEF Entry, Threads
  <2>3. t = me /\ i[t] = 0
    <3>1. Entry[t] = Entry[me] /\ i[me] = 0 /\ me \in Threads
      BY <1>1, <2>1, <2>2 DEF TurnsTaken
    <3> QED BY <3>1 DEF Entry, Threads
  <2>4. i' = i
    BY <1>1, <2>1, <2>3
  <2> QED BY <2>1, <2>2, <2>4 DEF TurnsTaken, WaitsItsTurn, Turns, Words
<1>4. ASSUME NEW t \in Threads, Counts(t) PROVE TurnsTaken'
  <2>1. /\ pc = "count" /\ sp = OwnStack[t]
        /\ i' = [i EXCEPT ![t] = @ + 1]
        /\ pc' = IF i'[t] % Period[t] = 0 THEN "turn" ELSE "count"
        /\ UNCHANGED <<key, env, current_thread>>
    BY <1>4 DEF Counts
  <2>2. t = me /\ other \in Threads /\ other # t
    BY <1>1, <2>1 DEF OwnStack, Threads
  <2>3. i'[t] = i[t] + 1 /\ i'[other] = i[other] /\ i[t] \in Nat
    BY <1>1, <2>1, <2>2
  <2>4. WaitsItsTurn(other)'
    BY <2>1, <2>3 DEF TurnsTaken, WaitsItsTurn, Words
  <2>5. Turns(t)' = Turns(t) + (IF pc' = "turn" THEN 1 ELSE 0)
    <3>1. Turns(t)' = (i[t] + 1) \div Period[t]
      BY <2>3 DEF Turns
    <3>2. pc' = "turn" <=> (i[t] + 1) % Period[t] = 0
      BY <2>1, <2>3
    <3>3. (i[t] \div Period[t]) + 0 = i[t] \div Period[t]
      BY <2>3 DEF Period, Threads
    <3> QED BY <2>3, <3>1, <3>2, <3>3, CountOn DEF Turns
  <2>6. Turns(other)' = Turns(other)
    BY <2>3 DEF Turns
  <2>7. /\ Turns(0) \in Int /\ Turns(1) \in Int
        /\ Turns(0) = Turns(1) + me
    <3>1. \A n \in Nat : n \div 3 \in Int /\ n \div 5 \in Int
      OBVIOUS
    <3>2. i[0] \in Nat /\ i[1] \in Nat /\ Period[0] = 3 /\ Period[1] = 5
      BY <1>1 DEF Threads, Period
    <3> QED BY <2>1, <3>1, <3>2 DEF TurnsTaken, Turns
  <2>8. Turns(0)' = Turns(1)' + (IF pc' = "turn" THEN 1 - me ELSE me)
    <3> HIDE DEF Turns
    <3>1. CASE t = 0
      BY <2>2, <2>5, <2>6, <2>7, <3>1
    <3>2. CASE t = 1
      BY <2>2, <2>5, <2>6, <2>7, <3>2
    <3> QED BY <3>1, <3>2 DEF Threads
  <2>9. pc' \in {"turn", "count"} /\ (pc' = "turn" => i'[t] % Period[t] = 0)
    BY <2>1
  <2> QED BY <2>1, <2>2, <2>4, <2>8, <2>9 DEF TurnsTaken
<1>5. CASE yield
  <2> DEFINE envs == [env EXCEPT ![me] = Saved("yield")]
  <2>1. /\ pc = "turn" /\ UNCHANGED <<key, i>>
        /\ jump_to_thread(other, envs)
    BY <1>5 DEF yield
  <2>2. /\ me \in Threads /\ other \in Threads /\ other # me /\ 1 - other = me
        /\ envs[other] = env[other]
        /\ envs[me] = Words("yield", OwnStack[me])
    BY <1>1, <2>1 DEF Saved, Words, Threads
  <2> HIDE DEF envs
  <2>3. PICK place \in {Entry[other], "yield"} :
          /\ env[other] = Words(place, OwnStack[other])
          /\ place = Entry[other] => i[other] = 0
    <3>1. Entry[other] # "yield"
      BY <2>2 DEF Entry, Threads
    <3> QED BY <2>1, <3>1 DEF TurnsTaken, WaitsItsTurn
  <2>4. pc' = place /\ env' = envs /\ current_thread' = other
    BY <1>1, <2>1, <2>2, <2>3, LandsAt
  <2>5. i' = i /\ Words("yield", OwnStack[me])' = Words("yield", OwnStack[me])
    BY <2>1 DEF Words
  <2>6. WaitsItsTurn(me)'
    BY <2>1, <2>2, <2>4, <2>5 DEF TurnsTaken, WaitsItsTurn
  <2>7. Turns(0)' = Turns(1)' + other
    BY <2>1, <2>5 DEF TurnsTaken, Turns
  <2>8. /\ pc' \notin {"main", "turn"}
        /\ pc' \in {"thread0", "thread1"} => pc' = Entry[other]
    BY <2>2, <2>4 DEF Entry, Threads
  <2>9. pc' = Entry[other] => i'[other] = 0
    BY <2>3, <2>4, <2>5
  <2> QED BY <2>2, <2>4, <2>6, <2>7, <2>8, <2>9 DEF TurnsTaken
<1>6. CASE ReturnsAgain
  <2>1. /\ pc = "yield" /\ pc' = "count"
        /\ UNCHANGED <<key, env, current_thread, i>>
    BY <1>6 DEF ReturnsAgain, JumpInv, ContextsLeadHome
  <2> QED BY <2>1 DEF TurnsTaken, WaitsItsTurn, Turns, Words
<1>7. CASE UNCHANGED demoVars
  BY <1>7 DEF demoVars, TurnsTaken, WaitsItsTurn, Turns, Words
<1> QED BY <1>2, <1>3, <1>4, <1>5, <1>6, <1>7 DEF Next, AllCounted

\* The coroutines take turns for as long as they count, to whatever MaxCount:
\* yield comes back where it left, so that neither starts over or skips a turn.
THEOREM TurnsAlternateAlways == Spec => []TurnsAlternate
<1>1. Init => TurnsTaken
  BY DEF Init, TurnsTaken
<1>2. JumpInv /\ TurnsTaken /\ [Next]_demoVars => (JumpInv /\ TurnsTaken)'
  BY JumpInvNext, TurnsStep
<1>3. JumpInv /\ TurnsTaken => TurnsAlternate
  BY DEF TurnsTaken, WaitsItsTurn, Turns, TurnsAlternate
<1> QED BY <1>1, <1>2, <1>3, JumpInvInit, PTL DEF Spec

=============================================================================
