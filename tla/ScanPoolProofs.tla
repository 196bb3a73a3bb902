--------------------------- MODULE ScanPoolProofs ---------------------------
(***************************************************************************)
(* For any number of workers, files and findings and any capacities, the   *)
(* scan never sends on a closed channel, leaves no goroutine behind, and   *)
(* implements ScanContract: it hands over each broken file once and        *)
(* answers when there is none left.                                        *)
(***************************************************************************)
EXTENDS ScanPool, SequenceTheorems, FiniteSetTheorems, TLAPS

-----------------------------------------------------------------------------
(* Sequences and what is in them.                                          *)

LEMMA RangeAppend ==
    ASSUME NEW S, NEW s \in Seq(S), NEW e \in S
    PROVE  Range(Append(s, e)) = Range(s) \cup {e}
<1>1. /\ Append(s, e) \in Seq(S) /\ Len(Append(s, e)) = Len(s) + 1
      /\ \A k \in 1..Len(s) : Append(s, e)[k] = s[k]
      /\ Append(s, e)[Len(s) + 1] = e
  BY AppendProperties
<1>2. /\ Len(s) \in Nat /\ DOMAIN s = 1..Len(s)
      /\ DOMAIN Append(s, e) = 1..(Len(s) + 1)
  BY <1>1, LenProperties
<1>3. \A k : k \in 1..(Len(s) + 1) <=> k \in 1..Len(s) \/ k = Len(s) + 1
  BY <1>2
<1> QED
  BY <1>1, <1>2, <1>3 DEF Range

(* Taking the head of a sequence without repetitions.                      *)
LEMMA RangeTail ==
    ASSUME NEW S, NEW s \in Seq(S), s # <<>>, Distinct(s)
    PROVE  /\ Head(s) \in Range(s)
           /\ Range(Tail(s)) = Range(s) \ {Head(s)}
           /\ Distinct(Tail(s))
<1>1. /\ Tail(s) \in Seq(S) /\ Len(Tail(s)) = Len(s) - 1
      /\ \A k \in 1..Len(Tail(s)) : Tail(s)[k] = s[k + 1]
  BY HeadTailProperties
<1>2. /\ Len(s) \in Nat \ {0} /\ DOMAIN s = 1..Len(s) /\ Head(s) = s[1]
      /\ DOMAIN Tail(s) = 1..Len(Tail(s))
  BY <1>1, LenProperties, EmptySeq
<1>3. \A k \in 1..Len(s) : k = 1 \/ (k - 1 \in 1..Len(Tail(s)) /\ (k - 1) + 1 = k)
  BY <1>1, <1>2
<1>4. \A k \in 1..Len(Tail(s)) : k + 1 \in 1..Len(s) /\ k + 1 # 1
  BY <1>1, <1>2
<1>5. 1 \in 1..Len(s)
  BY <1>2
<1>6. ASSUME NEW x \in Range(Tail(s)) PROVE x \in Range(s) \ {Head(s)}
  <2>1. PICK k \in 1..Len(Tail(s)) : x = s[k + 1]
    BY <1>1, <1>2 DEF Range
  <2> QED
    BY <2>1, <1>2, <1>4, <1>5 DEF Range, Distinct
<1>7. ASSUME NEW x \in Range(s) \ {Head(s)} PROVE x \in Range(Tail(s))
  <2>1. PICK k \in 1..Len(s) : x = s[k] /\ k # 1
    BY <1>2 DEF Range
  <2>2. Tail(s)[k - 1] = s[k] /\ k - 1 \in 1..Len(Tail(s))
    BY <1>1, <1>3, <2>1
  <2> QED
    BY <1>2, <2>1, <2>2 DEF Range
<1>8. Distinct(Tail(s))
  <2> SUFFICES ASSUME NEW j \in 1..Len(Tail(s)), NEW k \in 1..Len(Tail(s)),
                      Tail(s)[j] = Tail(s)[k]
               PROVE  j = k
    BY DEF Distinct
  <2>1. j + 1 = k + 1
    BY <1>1, <1>4 DEF Distinct
  <2> QED
    BY <2>1, <1>1, <1>2
<1> QED
  BY <1>2, <1>5, <1>6, <1>7, <1>8 DEF Range

LEMMA DistinctAppend ==
    ASSUME NEW S, NEW s \in Seq(S), NEW e \in S, Distinct(s), e \notin Range(s)
    PROVE  Distinct(Append(s, e))
<1>1. /\ Len(Append(s, e)) = Len(s) + 1
      /\ \A k \in 1..Len(s) : Append(s, e)[k] = s[k]
      /\ Append(s, e)[Len(s) + 1] = e
  BY AppendProperties
<1>2. Len(s) \in Nat /\ DOMAIN s = 1..Len(s)
  BY LenProperties
<1>3. \A k \in 1..Len(s) : s[k] # e
  BY <1>2 DEF Range
<1>4. \A k \in 1..(Len(s) + 1) : k \in 1..Len(s) \/ k = Len(s) + 1
  BY <1>2
<1> SUFFICES ASSUME NEW j \in 1..(Len(s) + 1), NEW k \in 1..(Len(s) + 1),
                    Append(s, e)[j] = Append(s, e)[k]
             PROVE  j = k
  BY <1>1 DEF Distinct
<1> QED
  BY <1>1, <1>3, <1>4 DEF Distinct

-----------------------------------------------------------------------------
(* Types.                                                                  *)

LEMMA Bounds ==
    ASSUME root \in Roots
    PROVE  /\ ToList \in 0..LastFile
           /\ FilesCap \in Nat \ {0} /\ ResultsCap \in Nat \ {0}
<1>1. Cardinality(Workers) \in Nat \ {0}
  BY PoolAssumption, FS_CardinalityType, FS_EmptySet
<1>2. \A a, b \in Nat \ {0} : a * b \in Nat \ {0}
  OBVIOUS
<1>3. FilesCap \in Nat \ {0} /\ ResultsCap \in Nat \ {0}
  BY <1>1, <1>2, PoolAssumption DEF FilesCap, ResultsCap
<1>4. ToList \in 0..LastFile
  BY PoolAssumption DEF ToList
<1> QED
  BY <1>3, <1>4

LEMMA InitType == Init => TypeOK
<1> SUFFICES ASSUME Init PROVE TypeOK
  OBVIOUS
<1>1. FilesCap \in Nat \ {0} /\ ResultsCap \in Nat \ {0} /\ LastFile \in Nat
  BY Bounds, PoolAssumption DEF Init
<1>2. \A S : <<>> \in Seq(S) /\ Len(<<>>) = 0
  BY EmptySeq
<1>3. /\ root \in Roots /\ broken \subseteq 1..LastFile /\ listed = 0
      /\ files = <<>> /\ results = <<>> /\ visited = <<>>
  BY DEF Init
<1>4. 0 \in 0..LastFile /\ 0 <= FilesCap /\ 0 <= ResultsCap
  BY <1>1
<1> QED
  BY <1>1, <1>2, <1>3, <1>4 DEF Init, TypeOK

(* A worker that has a file, has one of the walk's.                        *)
LEMMA Held ==
    ASSUME TypeOK, Delivery, NEW w \in Busy
    PROVE  hold[w] \in 1..LastFile
<1>1. hold[w] \in 1..Taken /\ Taken <= listed /\ listed <= LastFile /\ Taken \in Int
  BY LenProperties, PoolAssumption DEF TypeOK, Delivery, Taken
<1>2. LastFile \in Nat /\ listed \in Nat
  BY PoolAssumption DEF TypeOK
<1> QED
  BY <1>1, <1>2

(* One step of each goroutine keeps the types and the capacities.          *)
LEMMA TypeInductive == TypeOK /\ Delivery /\ [Next]_vars => TypeOK'
<1> SUFFICES ASSUME TypeOK, Delivery, [Next]_vars PROVE TypeOK'
  OBVIOUS
<1>0. /\ ToList \in 0..LastFile /\ LastFile \in Nat
      /\ FilesCap \in Nat \ {0} /\ ResultsCap \in Nat \ {0}
      /\ Len(files) \in Nat /\ Len(results) \in Nat
  BY Bounds, PoolAssumption, LenProperties DEF TypeOK
<1> USE DEF inputVars, walkVars, channelVars, workerVars, callerVars
<1>1. CASE Lstat \/ EndWalk \/ CloseFiles
  BY <1>1 DEF Lstat, EndWalk, CloseFiles, TypeOK
<1>2. CASE List
  <2>1. listed + 1 \in 1..LastFile
    BY <1>0, <1>2 DEF List, TypeOK
  <2>2. /\ Append(files, listed + 1) \in Seq(1..LastFile)
        /\ Len(Append(files, listed + 1)) = Len(files) + 1
    BY <2>1, AppendProperties DEF TypeOK
  <2>3. Len(files) + 1 <= FilesCap
    BY <1>0, <1>2 DEF List
  <2> QED
    BY <1>0, <1>2, <2>1, <2>2, <2>3 DEF List, TypeOK
<1>3. ASSUME NEW w \in Workers, Receive(w) PROVE TypeOK'
  <2>1. /\ Head(files) \in 1..LastFile /\ Tail(files) \in Seq(1..LastFile)
        /\ Len(Tail(files)) = Len(files) - 1
    BY <1>3, HeadTailProperties DEF Receive, TypeOK
  <2> QED
    BY <1>0, <1>3, <2>1 DEF Receive, TypeOK
<1>4. ASSUME NEW w \in Workers, Scan(w) \/ EndWorker(w) PROVE TypeOK'
  BY <1>4 DEF Scan, EndWorker, TypeOK
<1>5. ASSUME NEW w \in Workers, Send(w) PROVE TypeOK'
  <2>1. hold[w] \in 1..LastFile
    BY <1>5, Held DEF Send, Busy
  <2>2. /\ Append(results, hold[w]) \in Seq(1..LastFile)
        /\ Len(Append(results, hold[w])) = Len(results) + 1
    BY <2>1, AppendProperties DEF TypeOK
  <2>3. Len(results) + 1 <= ResultsCap
    BY <1>0, <1>5 DEF Send
  <2> QED
    BY <1>0, <1>5, <2>1, <2>2, <2>3 DEF Send, TypeOK
<1>6. CASE Visit
  <2>1. /\ Head(results) \in 1..LastFile /\ Tail(results) \in Seq(1..LastFile)
        /\ Len(Tail(results)) = Len(results) - 1
    BY <1>6, HeadTailProperties DEF Visit, TypeOK
  <2>2. Append(visited, Head(results)) \in Seq(1..LastFile)
    BY <2>1, AppendProperties DEF TypeOK
  <2> QED
    BY <1>0, <1>6, <2>1, <2>2 DEF Visit, TypeOK
<1>7. CASE CloseResults \/ Return
  BY <1>7 DEF CloseResults, Return, TypeOK
<1>8. CASE UNCHANGED vars
  BY <1>8 DEF vars, TypeOK
<1> QED
  BY <1>1, <1>2, <1>3, <1>4, <1>5, <1>6, <1>7, <1>8
  DEF Next, Walker, Worker, Caller, Terminated

-----------------------------------------------------------------------------
(* Who has ended.                                                          *)

LEMMA ClosingInductive ==
    ASSUME TypeOK, Closing, [Next]_vars
    PROVE  Closing'
<1>0. ToList \in 0..LastFile /\ LastFile \in Nat /\ listed \in Nat
  BY Bounds, PoolAssumption DEF TypeOK
<1> USE DEF inputVars, walkVars, channelVars, workerVars, callerVars
<1>a. UNCHANGED root => UNCHANGED ToList
  BY DEF ToList
<1>1. CASE Lstat
  <2>1. /\ walker = "lstat" /\ walker' \in {"close", "walk"}
        /\ walker' = "close" => root = "missing"
        /\ walkErr' = (root = "missing")
        /\ UNCHANGED <<root, listed, files, filesOpen, worker, resultsOpen, answer>>
    BY <1>1 DEF Lstat
  <2>2. filesOpen = TRUE
    BY <2>1 DEF Closing
  <2>3. root = "missing" => listed = ToList
    BY <1>0, <2>1 DEF ToList, Closing
  <2>4. /\ filesOpen' = (walker' # "done")
        /\ walkErr' = (root' = "missing" /\ walker' # "lstat")
    BY <2>1, <2>2
  <2> QED
    BY <1>a, <2>1, <2>2, <2>3, <2>4 DEF Closing
<1>2. CASE List
  <2>1. ~ \E w \in Workers : worker[w] = "done"
    BY <1>2 DEF List, Closing
  <2> QED
    BY <1>0, <1>a, <1>2, <2>1 DEF List, Closing, TypeOK
<1>3. CASE EndWalk
  BY <1>0, <1>a, <1>3 DEF EndWalk, Closing, TypeOK
<1>4. CASE CloseFiles
  BY <1>0, <1>a, <1>4 DEF CloseFiles, Closing, TypeOK
<1>5. ASSUME NEW w \in Workers, Receive(w) \/ Scan(w) \/ Send(w) PROVE Closing'
  <2>1. /\ worker[w] # "done" /\ worker'[w] # "done"
        /\ \A v \in Workers \ {w} : worker'[v] = worker[v]
        /\ UNCHANGED <<root, walker, listed, walkErr, filesOpen, resultsOpen, answer>>
        /\ files = <<>> => files' = <<>>
    BY <1>5 DEF Receive, Scan, Send, TypeOK
  <2>2. resultsOpen
    BY <2>1 DEF Closing
  <2>3. (\E v \in Workers : worker'[v] = "done") => \E v \in Workers : worker[v] = "done"
    BY <2>1
  <2> QED
    BY <1>a, <2>1, <2>2, <2>3 DEF Closing
<1>6. ASSUME NEW w \in Workers, EndWorker(w) PROVE Closing'
  <2>1. resultsOpen
    BY <1>6 DEF EndWorker, Closing
  <2> QED
    BY <1>a, <1>6, <2>1 DEF EndWorker, Closing
<1>7. CASE CloseResults
  BY <1>a, <1>7 DEF CloseResults, Closing
<1>8. CASE Visit \/ Return
  BY <1>a, <1>8 DEF Visit, Return, Closing
<1>10. CASE UNCHANGED vars
  BY <1>a, <1>10 DEF vars, Closing
<1> QED
  BY <1>1, <1>2, <1>3, <1>4, <1>5, <1>6, <1>7, <1>8, <1>10
  DEF Next, Walker, Worker, Caller, Terminated

-----------------------------------------------------------------------------
(* Where each broken file is.                                              *)

(* Steps that move no file.                                                *)
LEMMA DeliveryUnmoved ==
    ASSUME Delivery, UNCHANGED <<broken, listed, files, hold, results, visited>>,
           \A w \in Workers : /\ worker'[w] = "send" <=> worker[w] = "send"
                              /\ worker'[w] = "scan" <=> worker[w] = "scan"
    PROVE  Delivery'
<1>1. UNCHANGED Taken
  BY DEF Taken
<1>2. UNCHANGED Busy
  <2>1. \A w \in Workers : w \in Busy' <=> w \in Busy
    BY DEF Busy
  <2>2. Busy' \subseteq Workers /\ Busy \subseteq Workers
    BY DEF Busy
  <2> QED
    BY <2>1, <2>2
<1>3. \A w \in Busy : worker'[w] = "send" => worker[w] = "send"
  BY DEF Busy
<1> QED
  BY <1>1, <1>2, <1>3 DEF Delivery

LEMMA DeliveryList == TypeOK /\ Delivery /\ List => Delivery'
<1> SUFFICES ASSUME TypeOK, Delivery, List PROVE Delivery'
  OBVIOUS
<1>0. listed + 1 \in 1..LastFile /\ listed \in Nat /\ Len(files) \in Nat
  BY Bounds, PoolAssumption, LenProperties DEF TypeOK, List
<1>1. /\ files' = Append(files, listed + 1) /\ listed' = listed + 1
      /\ UNCHANGED <<broken, worker, hold, results, visited>>
  BY DEF List, inputVars, workerVars, callerVars
<1>2. /\ Len(files') = Len(files) + 1
      /\ \A k \in 1..Len(files) : files'[k] = files[k]
      /\ files'[Len(files) + 1] = listed + 1
  BY <1>0, <1>1, AppendProperties DEF TypeOK
<1>3. UNCHANGED Taken
  BY <1>0, <1>1, <1>2 DEF Taken
<1>4. UNCHANGED Busy
  BY <1>1 DEF Busy
<1>5. Len(files') <= listed'
  BY <1>0, <1>1, <1>2 DEF Delivery
<1>6. \A k \in 1..Len(files') : files'[k] = Taken + k
  <2>1. \A k \in 1..Len(files) : files[k] = Taken + k
    BY DEF Delivery
  <2>2. files'[Len(files) + 1] = Taken + (Len(files) + 1)
    BY <1>0, <1>2 DEF Taken
  <2>3. \A k \in 1..Len(files') : k \in 1..Len(files) \/ k = Len(files) + 1
    BY <1>0, <1>2
  <2> QED
    BY <1>2, <2>1, <2>2, <2>3
<1> QED
  BY <1>1, <1>3, <1>4, <1>5, <1>6 DEF Delivery

(* The head of the queue is the next file of the walk: nobody has it yet.  *)
LEMMA DeliveryReceive ==
    ASSUME TypeOK, Delivery, NEW w \in Workers, Receive(w)
    PROVE  Delivery'
<1>0. /\ worker[w] = "receive" /\ files # <<>> /\ files' = Tail(files)
      /\ hold' = [hold EXCEPT ![w] = Head(files)]
      /\ worker' = [worker EXCEPT ![w] = "scan"]
      /\ UNCHANGED <<broken, listed, results, visited>>
  BY DEF Receive, inputVars, walkVars, callerVars
<1>1. /\ Len(files) \in Nat \ {0} /\ listed \in Nat
      /\ Len(files') = Len(files) - 1 /\ Head(files) = files[1]
      /\ \A k \in 1..Len(files') : files'[k] = files[k + 1]
  BY <1>0, HeadTailProperties, LenProperties, EmptySeq DEF TypeOK
<1>2. /\ Taken' = Taken + 1 /\ Taken \in Nat
      /\ Len(files') <= listed' /\ Len(files) <= listed
  BY <1>0, <1>1 DEF Taken, Delivery
<1>3. Head(files) = Taken + 1
  BY <1>1 DEF Delivery
<1>4. \A k \in 1..Len(files') : files'[k] = Taken' + k
  <2> SUFFICES ASSUME NEW k \in 1..Len(files') PROVE files'[k] = Taken' + k
    OBVIOUS
  <2>1. k + 1 \in 1..Len(files) /\ k \in Nat
    BY <1>1
  <2>2. files[k + 1] = Taken + (k + 1)
    BY <2>1 DEF Delivery
  <2> QED
    BY <1>1, <1>2, <2>1, <2>2
<1>5. /\ hold'[w] = Taken + 1 /\ worker'[w] = "scan" /\ Busy' = Busy \cup {w} /\ w \notin Busy
      /\ \A v \in Busy : hold'[v] = hold[v] /\ worker'[v] = worker[v]
  BY <1>0, <1>3 DEF TypeOK, Busy
<1>6. /\ Taken + 1 \notin 1..Taken /\ Taken + 1 \in 1..Taken'
      /\ \A f \in 1..Taken : f \in 1..Taken'
      /\ \A f \in 1..Taken' : f \in 1..Taken \/ f = Taken + 1
  BY <1>2
<1>7. \A v \in Busy' :
          /\ hold'[v] \in 1..Taken'
          /\ hold'[v] \notin Range(results) \cup Range(visited)
          /\ worker'[v] = "send" => hold'[v] \in broken
          /\ \A u \in Busy' \ {v} : hold'[u] # hold'[v]
  BY <1>5, <1>6 DEF Delivery
<1>8. \A f \in broken \cap (1..Taken') :
          f \in Range(results) \cup Range(visited) \/ \E v \in Busy' : hold'[v] = f
  BY <1>5, <1>6 DEF Delivery
<1> QED
  BY <1>0, <1>2, <1>4, <1>5, <1>6, <1>7, <1>8 DEF Delivery

(* A file without a finding leaves the pool, one with a finding stays.     *)
LEMMA DeliveryScan ==
    ASSUME TypeOK, Delivery, NEW w \in Workers, Scan(w)
    PROVE  Delivery'
<1>0. /\ worker[w] = "scan"
      /\ worker' = [worker EXCEPT ![w] = IF hold[w] \in broken THEN "send" ELSE "receive"]
      /\ UNCHANGED <<broken, listed, files, hold, results, visited>>
  BY DEF Scan, inputVars, walkVars, channelVars, callerVars
<1>1. UNCHANGED Taken
  BY <1>0 DEF Taken
<1>2. /\ w \in Busy /\ Busy \ {w} \subseteq Busy' /\ Busy' \subseteq Busy
      /\ hold[w] \in broken => w \in Busy'
      /\ \A v \in Busy' : worker'[v] = "send" => worker[v] = "send" \/ hold[v] \in broken
  BY <1>0 DEF TypeOK, Busy
<1> QED
  BY <1>0, <1>1, <1>2 DEF Delivery

LEMMA DeliverySend ==
    ASSUME TypeOK, Delivery, NEW w \in Workers, Send(w)
    PROVE  Delivery'
<1>0. /\ worker[w] = "send" /\ results' = Append(results, hold[w])
      /\ worker' = [worker EXCEPT ![w] = "receive"]
      /\ UNCHANGED <<broken, listed, files, hold, visited>>
  BY DEF Send, inputVars, walkVars, callerVars
<1>1. UNCHANGED Taken
  BY <1>0 DEF Taken
<1>2. /\ w \in Busy /\ Busy' = Busy \ {w}
      /\ \A v \in Busy' : worker'[v] = worker[v]
  BY <1>0 DEF TypeOK, Busy
<1>3. /\ hold[w] \in 1..LastFile /\ hold[w] \in broken \cap (1..Taken)
      /\ hold[w] \notin Range(results) /\ hold[w] \notin Range(visited)
      /\ \A v \in Busy \ {w} : hold[v] # hold[w]
  <2>1. hold[w] \in 1..LastFile
    BY <1>2, Held
  <2> QED
    BY <1>0, <1>2, <2>1 DEF Delivery
<1>4. Range(results') = Range(results) \cup {hold[w]} /\ Distinct(results')
  <2>1. results \in Seq(1..LastFile) /\ Distinct(results)
    BY DEF TypeOK, Delivery
  <2>2. PICK e : e = hold[w]
    OBVIOUS
  <2>3. e \in 1..LastFile /\ e \notin Range(results)
    BY <1>3, <2>2
  <2>4. results' = Append(results, e)
    BY <1>0, <2>2
  <2>5. PICK S : results \in Seq(S) /\ e \in S
    BY <2>1, <2>3
  <2>6. Range(results') = Range(results) \cup {e}
    BY <2>4, <2>5, RangeAppend
  <2>7. Distinct(results')
    BY <2>1, <2>3, <2>4, DistinctAppend
  <2> QED
    BY <2>2, <2>6, <2>7
<1>5. \A v \in Busy' :
          /\ hold[v] \in 1..Taken
          /\ hold[v] \notin Range(results') \cup Range(visited)
          /\ worker'[v] = "send" => hold[v] \in broken
          /\ \A u \in Busy' \ {v} : hold[u] # hold[v]
  BY <1>2, <1>3, <1>4 DEF Delivery
<1>6. \A f \in broken \cap (1..Taken) :
          f \in Range(results') \cup Range(visited) \/ \E v \in Busy' : hold[v] = f
  BY <1>2, <1>3, <1>4 DEF Delivery
<1> QED
  BY <1>0, <1>1, <1>2, <1>3, <1>4, <1>5, <1>6 DEF Delivery

LEMMA DeliveryVisit == TypeOK /\ Delivery /\ Visit => Delivery'
<1> SUFFICES ASSUME TypeOK, Delivery, Visit PROVE Delivery'
  OBVIOUS
<1>0. /\ results # <<>> /\ visited' = Append(visited, Head(results)) /\ results' = Tail(results)
      /\ UNCHANGED <<broken, listed, files, worker, hold>>
  BY DEF Visit, inputVars, walkVars, workerVars
<1>1. UNCHANGED Taken /\ UNCHANGED Busy
  BY <1>0 DEF Taken, Busy
<1>2. /\ Head(results) \in Range(results)
      /\ Range(results') = Range(results) \ {Head(results)}
      /\ Distinct(results')
  BY <1>0, RangeTail DEF TypeOK, Delivery
<1>3. Range(visited') = Range(visited) \cup {Head(results)}
  BY <1>0, HeadTailProperties, RangeAppend DEF TypeOK
<1>4. Range(results') \cup Range(visited') = Range(results) \cup Range(visited)
  BY <1>2, <1>3
<1> QED
  BY <1>0, <1>1, <1>2, <1>3, <1>4 DEF Delivery

LEMMA DeliveryInductive == TypeOK /\ Delivery /\ [Next]_vars => Delivery'
<1> SUFFICES ASSUME TypeOK, Delivery, [Next]_vars PROVE Delivery'
  OBVIOUS
<1> USE DEF inputVars, walkVars, channelVars, workerVars, callerVars
<1>1. CASE Lstat \/ EndWalk \/ CloseFiles \/ CloseResults \/ Return \/ UNCHANGED vars
  BY <1>1, DeliveryUnmoved DEF Lstat, EndWalk, CloseFiles, CloseResults, Return, vars
<1>2. ASSUME NEW w \in Workers, EndWorker(w) PROVE Delivery'
  BY <1>2, DeliveryUnmoved DEF EndWorker, TypeOK
<1> QED
  BY <1>1, <1>2, DeliveryList, DeliveryReceive, DeliveryScan, DeliverySend, DeliveryVisit
  DEF Next, Walker, Worker, Caller, Terminated

-----------------------------------------------------------------------------
(* Together.                                                               *)

PoolInv == TypeOK /\ Closing /\ Delivery

LEMMA PoolInit == Init => PoolInv
<1> SUFFICES ASSUME Init PROVE PoolInv
  OBVIOUS
<1>1. TypeOK /\ ToList \in 0..LastFile /\ LastFile \in Nat
  BY InitType, Bounds, PoolAssumption DEF TypeOK
<1>2. Closing
  <2>1. /\ walker = "lstat" /\ listed = 0 /\ filesOpen = TRUE /\ walkErr = FALSE
        /\ resultsOpen = TRUE /\ answer = "none"
        /\ \A w \in Workers : worker[w] = "receive"
    BY DEF Init
  <2>2. /\ filesOpen = (walker # "done")
        /\ walkErr = (root = "missing" /\ walker # "lstat")
    BY <2>1
  <2>3. \A w \in Workers : worker[w] # "done"
    BY <2>1
  <2> QED
    BY <1>1, <2>1, <2>2, <2>3 DEF Closing
<1>3. /\ files = <<>> /\ results = <<>> /\ visited = <<>>
      /\ listed = 0 /\ worker = [w \in Workers |-> "receive"]
  BY DEF Init
<1>4. Len(files) = 0 /\ 1..Len(files) = {} /\ 1..Len(results) = {}
  BY <1>3, EmptySeq
<1>5. Taken = 0 /\ 1..Taken = {}
  <2>1. listed = 0 /\ Len(files) = 0
    BY <1>3, <1>4
  <2>2. Taken = 0
    BY <2>1 DEF Taken
  <2> QED
    BY <2>2
<1>6. Busy = {}
  BY <1>3 DEF Busy
<1>7. Range(results) = {} /\ Range(visited) = {}
  BY <1>3 DEF Range
<1>8. Distinct(results)
  BY <1>4 DEF Distinct
<1>9. Delivery
  BY <1>3, <1>4, <1>5, <1>6, <1>7, <1>8 DEF Delivery
<1> QED
  BY <1>1, <1>2, <1>9 DEF PoolInv

LEMMA PoolInductive == PoolInv /\ [Next]_vars => PoolInv'
BY TypeInductive, ClosingInductive, DeliveryInductive DEF PoolInv

THEOREM PoolIsInvariant == Spec => []PoolInv
BY PoolInit, PoolInductive, PTL DEF Spec

(* Whatever the number of workers, files and findings, the channels hold   *)
(* no more than their capacity.                                            *)
THEOREM PoolTypes == Spec => []TypeOK
<1>1. PoolInv => TypeOK
  BY DEF PoolInv
<1> QED
  BY <1>1, PoolIsInvariant, PTL

(* No send meets a closed channel, in any interleaving of any number of    *)
(* workers.                                                                *)
THEOREM NeverSendsOnClosed == Spec => []NoSendOnClosed
<1>1. PoolInv => NoSendOnClosed
  BY DEF PoolInv, Closing, NoSendOnClosed
<1> QED
  BY <1>1, PoolIsInvariant, PTL

(* The caller goes on alone.                                               *)
THEOREM LeavesNothingRunning == Spec => []NothingRunsOn
<1>1. PoolInv => NothingRunsOn
  BY PoolAssumption DEF PoolInv, Closing, NothingRunsOn
<1> QED
  BY <1>1, PoolIsInvariant, PTL

-----------------------------------------------------------------------------
(* The contract.                                                           *)

(* What the caller was not given yet.                                      *)
Left == (broken \cap 1..ToList) \ Range(visited)

LEMMA ContractInit == Init => Contract!Init
<1> SUFFICES ASSUME Init PROVE Contract!Init
  OBVIOUS
<1>1. root = "missing" => 1..ToList = {}
  BY DEF ToList
<1> QED
  BY <1>1 DEF Init, Contract!Init

(* Receiving a finding hands a file over that was not handed over before.  *)
LEMMA VisitHandsOver ==
    ASSUME PoolInv, Visit
    PROVE  \E f \in Left : Contract!HandOver(f)
<1>0. TypeOK /\ Closing /\ Delivery
  BY DEF PoolInv
<1>1. /\ results # <<>> /\ answer = "none"
      /\ visited' = Append(visited, Head(results))
      /\ UNCHANGED <<root, broken, answer>>
  BY DEF Visit, inputVars
<1>2. results \in Seq(1..LastFile) /\ visited \in Seq(1..LastFile) /\ Distinct(results)
  BY <1>0 DEF TypeOK, Delivery
<1>3. Head(results) \in Range(results) /\ Head(results) \in 1..LastFile
  BY <1>1, <1>2, RangeTail, HeadTailProperties
<1>4. Head(results) \in (broken \cap (1..Taken)) \ Range(visited)
  BY <1>0, <1>3 DEF Delivery
<1>5. \A k \in 1..Taken : k \in 1..ToList
  <2>1. /\ Len(files) \in Nat /\ listed \in Nat /\ listed <= ToList
        /\ ToList \in 0..LastFile /\ LastFile \in Nat
    BY <1>0, LenProperties, Bounds, PoolAssumption DEF TypeOK, Closing
  <2> QED
    BY <2>1 DEF Taken
<1>6. Head(results) \in Left
  BY <1>4, <1>5 DEF Left
<1>7. Range(visited') = Range(visited) \cup {Head(results)}
  BY <1>1, <1>2, <1>3, RangeAppend
<1>8. UNCHANGED ToList
  BY <1>1 DEF ToList
<1>9. Contract!HandOver(Head(results))
  BY <1>1, <1>7, <1>8 DEF Contract!HandOver
<1> QED
  BY <1>6, <1>9

(* When the caller answers, every file was taken, no worker has one and no *)
(* finding waits: nothing is left.                                         *)
LEMMA ReturnAnswers ==
    ASSUME PoolInv, Return
    PROVE  Contract!Answer
<1>0. TypeOK /\ Closing /\ Delivery
  BY DEF PoolInv
<1>1. /\ results = <<>> /\ ~resultsOpen /\ answer = "none"
      /\ answer' = IF walkErr THEN "error" ELSE "ok"
      /\ UNCHANGED <<root, broken, visited>>
  BY DEF Return, inputVars
<1>2. \A w \in Workers : worker[w] = "done"
  BY <1>0, <1>1 DEF Closing
<1>3. walker = "done" /\ files = <<>> /\ listed = ToList
  BY <1>0, <1>2, PoolAssumption DEF Closing, TypeOK
<1>4. Busy = {} /\ Range(results) = {} /\ Taken = ToList
  <2>1. Len(files) = 0 /\ ToList \in Int
    BY <1>3, <1>0, Bounds, PoolAssumption DEF TypeOK
  <2>2. Taken = ToList
    BY <1>3, <2>1 DEF Taken
  <2> QED
    BY <1>1, <1>2, <2>2 DEF Busy, Range
<1>5. Left = {}
  BY <1>0, <1>4 DEF Left, Delivery
<1>6. walkErr = (root = "missing")
  BY <1>0, <1>3 DEF Closing
<1>7. UNCHANGED ToList
  BY <1>1 DEF ToList
<1> QED
  BY <1>1, <1>5, <1>6, <1>7 DEF Contract!Answer, Left

(* Every other step is invisible to the caller.                            *)
LEMMA StepMaps == PoolInv /\ [Next]_vars => [Contract!Next]_(Contract!scanContractVars)
<1> SUFFICES ASSUME PoolInv, [Next]_vars
             PROVE  Contract!Next \/ UNCHANGED Contract!scanContractVars
  OBVIOUS
<1>1. CASE Visit
  BY <1>1, VisitHandsOver DEF Contract!Next, Left
<1>2. CASE Return
  BY <1>2, ReturnAnswers DEF Contract!Next
<1>3. CASE UNCHANGED <<root, broken, visited, answer>>
  <2>1. UNCHANGED ToList
    BY <1>3 DEF ToList
  <2> QED
    BY <1>3, <2>1 DEF Contract!scanContractVars
<1>4. [Next]_vars => Visit \/ Return \/ UNCHANGED <<root, broken, visited, answer>>
  BY DEF Next, Walker, Worker, Caller, Lstat, List, EndWalk, CloseFiles, Receive, Scan, Send,
         EndWorker, CloseResults, Terminated, vars, inputVars, callerVars
<1> QED
  BY <1>1, <1>2, <1>3, <1>4

(* The pool keeps the contract that Doctor's scan assumes: each broken     *)
(* file is handed over once, none is lost in a channel or with a worker    *)
(* when the caller answers, and the answer is an error exactly when the    *)
(* root could not be examined.                                             *)
THEOREM PoolKeepsContract == Spec => ImplementsContract
<1>1. Init => Contract!Init
  BY ContractInit
<1>2. PoolInv /\ [Next]_vars => [Contract!Next]_(Contract!scanContractVars)
  BY StepMaps
<1> QED
  BY <1>1, <1>2, PoolIsInvariant, PTL DEF Spec, ImplementsContract, Contract!Spec

=============================================================================
