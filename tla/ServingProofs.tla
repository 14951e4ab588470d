---------------------------- MODULE ServingProofs ----------------------------
(***************************************************************************)
(* Theorems about what stands between a visitor and a file: Serving, for   *)
(* any number of requests, any limits and any quota, the rate Limiter, for *)
(* any callers, windows and limits, and the ServeCache, for any objects    *)
(* and requests; and about the composition the run checks.                 *)
(***************************************************************************)
EXTENDS MCServing, FiniteSetTheorems, WellFoundedInduction, TLAPS

-----------------------------------------------------------------------------
(* The types.  Only variants are generated, and a request that is about to *)
(* meter its bytes has computed a month.                                   *)

ReqShaped ==
  \A r \in Requests :
    /\ req[r].pc \in {"open", "wait", "source", "put"} => req[r].kind \in Variants
    /\ req[r].pc = "add" => req[r].month \in 1 .. month

TypeInv == TypeOK /\ ReqShaped

\* A step of one request that leads no flight, before or after.
LEMMA OneRequestType ==
  ASSUME TypeInv, NEW r \in Requests, NEW q \in ReqRecords,
         req[r].pc \notin {"source", "put"},
         q.pc \in {"open", "wait"} => q.kind \in Variants,
         q.pc \notin {"source", "put"},
         q.pc = "add" => q.month \in 1 .. month,
         req' = [req EXCEPT ![r] = q], UNCHANGED <<month, flight>>
  PROVE  /\ req' \in [Requests -> ReqRecords]
         /\ ReqShaped'
         /\ \A k \in Variants : flight'[k] # None =>
              req'[flight'[k]].kind = k /\ req'[flight'[k]].pc \in {"source", "put"}
<1>1. req' \in [Requests -> ReqRecords]
  BY DEF TypeInv, TypeOK
<1>2. ReqShaped'
  BY DEF TypeInv, TypeOK, ReqShaped
<1>3. ASSUME NEW k \in Variants, flight[k] # None
      PROVE  req'[flight[k]] = req[flight[k]] /\ flight[k] \in Requests
  BY <1>3 DEF TypeInv, TypeOK
<1> QED BY <1>1, <1>2, <1>3 DEF TypeInv, TypeOK

LEMMA IdleTyped == Idle \in ReqRecords /\ Idle.pc = "idle"
BY ServingAssumption DEF ServingAssumption, Idle, ReqRecords, Kinds, Variants

\* Landing a flight keeps the types: its leader and those who wait for it go
\* on, and no other flight is touched.
LEMMA LandType ==
  ASSUME TypeInv, NEW k \in Variants, NEW step \in {"idle", "open", "send"},
         NEW r \in Requests, req[r].pc \in {"source", "put"}, Land(k, step)
  PROVE  /\ req' \in [Requests -> ReqRecords]
         /\ flight' \in [Variants -> Requests \cup {None}]
         /\ \A v \in Requests : req'[v] = req[v] \/ req'[v].pc = step
         /\ \A j \in Variants : flight'[j] # None =>
              req'[flight'[j]].kind = j /\ req'[flight'[j]].pc \in {"source", "put"}
<1>1. ASSUME NEW v \in Requests
      PROVE  Resumed(req[v], step) \in ReqRecords /\ Resumed(req[v], step).pc = step
  <2>1. req[v] \in ReqRecords
    BY DEF TypeInv, TypeOK
  <2>2. CASE step = "idle"
    BY <2>2, IdleTyped DEF Resumed
  <2>3. CASE step = "open"
    BY <2>1, <2>3 DEF Resumed, ReqRecords, Kinds, Variants
  <2>4. CASE step = "send"
    BY <2>1, <2>4 DEF Resumed, ReqRecords
  <2> QED BY <2>2, <2>3, <2>4
<1>2. req' = [v \in Requests |-> IF Aboard(v, k) THEN Resumed(req[v], step) ELSE req[v]]
  BY DEF Land
<1>3. req' \in [Requests -> ReqRecords]
  BY <1>1, <1>2 DEF TypeInv, TypeOK
<1>4. flight' = [flight EXCEPT ![k] = None]
  BY DEF Land
<1>5. flight' \in [Variants -> Requests \cup {None}]
  BY <1>4 DEF TypeInv, TypeOK
<1>6. ASSUME NEW j \in Variants, flight'[j] # None
      PROVE  req'[flight'[j]].kind = j /\ req'[flight'[j]].pc \in {"source", "put"}
  <2>1. j # k /\ flight'[j] = flight[j] /\ flight[j] \in Requests /\ flight[j] # None
    BY <1>4, <1>6 DEF TypeInv, TypeOK
  <2>2. req[flight[j]].kind = j /\ req[flight[j]].pc \in {"source", "put"}
    BY <2>1 DEF TypeInv, TypeOK
  <2>3. ~Aboard(flight[j], k)
    <3>1. CASE flight[j] = flight[k]
      BY <2>1, <2>2, <3>1 DEF TypeInv, TypeOK
    <3>2. CASE flight[j] # flight[k]
      BY <2>2, <3>2 DEF Aboard, At
    <3> QED BY <3>1, <3>2
  <2> QED BY <1>2, <2>1, <2>2, <2>3
<1> QED BY <1>1, <1>2, <1>3, <1>5, <1>6

-----------------------------------------------------------------------------
(* Each action preserves the type invariant.                               *)

LEMMA FindType ==
  ASSUME TypeInv, NEW r \in Requests, Find(r)
  PROVE  TypeInv'
<1>1. PICK who \in People, kind \in Kinds :
        req' = [req EXCEPT ![r] = [Idle EXCEPT !.pc = IF who = "admin" THEN "claim" ELSE "check",
                                     !.kind = kind, !.admin = who = "admin",
                                     !.claims = kind = "orig" /\ image.limit > 0
                                                                 /\ who # "owner"]]
  BY ZenonT(60) DEF Find
<1> DEFINE q == [Idle EXCEPT !.pc = IF who = "admin" THEN "claim" ELSE "check",
                   !.kind = kind, !.admin = who = "admin",
                   !.claims = kind = "orig" /\ image.limit > 0 /\ who # "owner"]
<1>2. q \in ReqRecords /\ q.pc \in {"claim", "check"}
  BY IdleTyped DEF Idle, ReqRecords
<1>3. UNCHANGED <<month, flight>> /\ req[r].pc = "idle"
  BY DEF Find, At, objects
<1> HIDE DEF q
<1>4. req' = [req EXCEPT ![r] = q]
  BY <1>1 DEF q
<1>5. /\ req' \in [Requests -> ReqRecords]
      /\ ReqShaped'
      /\ \A k \in Variants : flight'[k] # None =>
           req'[flight'[k]].kind = k /\ req'[flight'[k]].pc \in {"source", "put"}
  BY <1>2, <1>3, <1>4, OneRequestType
<1>6. admitted' \in 0 .. MaxRequests
  BY SMTT(30), ServingAssumption DEF ServingAssumption, Find, TypeInv, TypeOK
<1> QED BY <1>3, <1>5, <1>6 DEF Find, TypeInv, TypeOK, traffic, objects

LEMMA Bounds == Months \in Nat /\ 1 \in 1 .. Months /\ MaxEvents \in Nat /\ MaxRequests \in Nat
BY ServingAssumption DEF ServingAssumption

LEMMA MonthBounds ==
  ASSUME TypeInv
  PROVE  month \in 0 .. Months /\ month \in 1 .. month /\ month \in Nat
<1>1. month \in 1 .. Months
  BY DEF TypeInv, TypeOK
<1> QED BY <1>1, Bounds

LEMMA StepsOn ==
  ASSUME TypeInv, NEW r \in Requests, NEW step \in {"open", "source", "put", "send", "meter"},
         Goto(r, step)
  PROVE  req' = [req EXCEPT ![r].pc = step] /\ req' \in [Requests -> ReqRecords]
<1>1. [req[r] EXCEPT !.pc = step] \in ReqRecords
  BY DEF TypeInv, TypeOK, ReqRecords
<1> QED BY <1>1 DEF Goto, TypeInv, TypeOK

\* The steps that only move one request on, or end it.
MovesOn(r) ==
  \E q \in ReqRecords :
    /\ req' = [req EXCEPT ![r] = q]
    /\ req[r].pc \notin {"source", "put"}
    /\ q.pc \notin {"source", "put"}
    /\ q.pc \in {"open", "wait"} => q.kind \in Variants
    /\ q.pc = "add" => q.month \in 1 .. month

LEMMA MovedOnType ==
  ASSUME TypeInv, NEW r \in Requests, MovesOn(r), UNCHANGED <<month, flight>>
  PROVE  /\ req' \in [Requests -> ReqRecords]
         /\ ReqShaped'
         /\ \A k \in Variants : flight'[k] # None =>
              req'[flight'[k]].kind = k /\ req'[flight'[k]].pc \in {"source", "put"}
<1>1. PICK q \in ReqRecords :
        /\ req' = [req EXCEPT ![r] = q]
        /\ req[r].pc \notin {"source", "put"}
        /\ q.pc \notin {"source", "put"}
        /\ q.pc \in {"open", "wait"} => q.kind \in Variants
        /\ q.pc = "add" => q.month \in 1 .. month
  BY DEF MovesOn
<1> QED BY <1>1, OneRequestType

LEMMA GotoMovesOn ==
  ASSUME TypeInv, NEW r \in Requests, NEW step, Goto(r, step),
         step \in {"idle", "check", "claim", "load", "open", "wait", "send", "meter"},
         step \in {"open", "wait"} => req[r].kind \in Variants,
         req[r].pc \notin {"source", "put"}
  PROVE  MovesOn(r)
<1> DEFINE q == [req[r] EXCEPT !.pc = step]
<1>1. req[r] \in ReqRecords
  BY DEF TypeInv, TypeOK
<1>2. q \in ReqRecords /\ q.pc = step /\ q.kind = req[r].kind
  BY <1>1 DEF ReqRecords
<1>3. req' = [req EXCEPT ![r] = q]
  BY DEF Goto
<1> HIDE DEF q
<1> QED BY <1>2, <1>3 DEF MovesOn

LEMMA FinishMovesOn ==
  ASSUME TypeInv, NEW r \in Requests, Finish(r), req[r].pc \notin {"source", "put"}
  PROVE  MovesOn(r)
BY IdleTyped DEF Finish, MovesOn

LEMMA CheckBandwidthType ==
  ASSUME TypeInv, NEW r \in Requests, CheckBandwidth(r)
  PROVE  TypeInv'
<1>1. MovesOn(r)
  BY GotoMovesOn, FinishMovesOn DEF CheckBandwidth, At
<1> QED BY <1>1, MovedOnType DEF CheckBandwidth, TypeInv, TypeOK, traffic, objects

LEMMA ClaimViewType ==
  ASSUME TypeInv, NEW r \in Requests, ClaimView(r)
  PROVE  TypeInv'
<1>1. MovesOn(r)
  BY GotoMovesOn, FinishMovesOn DEF ClaimView, At
<1>2. image' \in ImageRecords
  BY DEF ClaimView, TypeInv, TypeOK, ImageRecords
<1> QED BY <1>1, <1>2, MovedOnType DEF ClaimView, TypeInv, TypeOK, traffic, objects

LEMMA LoadFilePolicyType ==
  ASSUME TypeInv, NEW r \in Requests, LoadFilePolicy(r)
  PROVE  TypeInv'
<1>1. req[r].kind # "orig" => req[r].kind \in Variants
  BY DEF TypeInv, TypeOK, ReqRecords, Kinds
<1>2. MovesOn(r)
  BY <1>1, GotoMovesOn, FinishMovesOn DEF LoadFilePolicy, At
<1> QED BY <1>2, MovedOnType DEF LoadFilePolicy, TypeInv, TypeOK, traffic, objects

LEMMA OpenThumbType ==
  ASSUME TypeInv, NEW r \in Requests, OpenThumb(r)
  PROVE  TypeInv'
<1> DEFINE k == req[r].kind
<1>1. k \in Variants /\ req[r].pc = "open"
  BY DEF OpenThumb, At, TypeInv, ReqShaped
<1>2. CASE UNCHANGED flight /\ (Goto(r, "send") \/ Goto(r, "wait"))
  <2>1. MovesOn(r)
    BY <1>1, <1>2, GotoMovesOn
  <2> QED BY <1>2, <2>1, MovedOnType DEF OpenThumb, TypeInv, TypeOK, traffic
<1>3. CASE flight[k] = None /\ flight' = [flight EXCEPT ![k] = r] /\ Goto(r, "source")
  <2>1. req' = [req EXCEPT ![r].pc = "source"] /\ req' \in [Requests -> ReqRecords]
    BY <1>3, StepsOn
  <2>2. flight' \in [Variants -> Requests \cup {None}]
    BY <1>3 DEF TypeInv, TypeOK
  <2>3. ASSUME NEW j \in Variants, flight'[j] # None
        PROVE  req'[flight'[j]].kind = j /\ req'[flight'[j]].pc \in {"source", "put"}
    <3>1. CASE j = k
      BY <1>1, <1>3, <2>1, <3>1 DEF TypeInv, TypeOK, ReqRecords
    <3>2. CASE j # k
      BY <1>1, <1>3, <2>1, <2>3, <3>2 DEF TypeInv, TypeOK, ReqRecords
    <3> QED BY <3>1, <3>2
  <2>4. ReqShaped'
    BY <1>1, <2>1 DEF OpenThumb, TypeInv, TypeOK, ReqShaped, ReqRecords
  <2> QED BY <2>1, <2>2, <2>3, <2>4 DEF OpenThumb, TypeInv, TypeOK, traffic
<1> QED BY <1>2, <1>3 DEF OpenThumb

\* Landing keeps the shape of everybody: nobody who lands is at a step that
\* asks for a variant, but for those whom a width sends back to the thumbnail.
LEMMA LandShape ==
  ASSUME TypeInv, NEW k \in Variants, NEW step \in {"idle", "open", "send"},
         Land(k, step), UNCHANGED month
  PROVE  ReqShaped'
<1>1. req' = [v \in Requests |-> IF Aboard(v, k) THEN Resumed(req[v], step) ELSE req[v]]
  BY DEF Land
<1>2. ASSUME NEW v \in Requests
      PROVE  /\ req'[v].pc \in {"open", "wait", "source", "put"} => req'[v].kind \in Variants
             /\ req'[v].pc = "add" => req'[v].month \in 1 .. month
  <2>1. CASE ~Aboard(v, k)
    BY <1>1, <2>1 DEF TypeInv, ReqShaped
  <2>2. CASE Aboard(v, k) /\ step = "idle"
    BY <1>1, <2>2, IdleTyped DEF Resumed
  <2>3. CASE Aboard(v, k) /\ step = "open"
    <3>1. req'[v] = [req[v] EXCEPT !.pc = "open", !.kind = "thumb"] /\ req[v] \in ReqRecords
      BY <1>1, <2>3 DEF Resumed, TypeInv, TypeOK
    <3>2. req'[v].pc = "open" /\ req'[v].kind = "thumb"
      BY <3>1 DEF ReqRecords
    <3> QED BY <3>2 DEF Variants
  <2>4. CASE Aboard(v, k) /\ step = "send"
    BY <1>1, <2>4 DEF Resumed, TypeInv, TypeOK, ReqRecords
  <2> QED BY <2>1, <2>2, <2>3, <2>4
<1> QED BY <1>2 DEF ReqShaped

LEMMA GenerateThumbType ==
  ASSUME TypeInv, NEW r \in Requests, GenerateThumb(r)
  PROVE  TypeInv'
<1>1. req[r].kind \in Variants /\ req[r].pc = "source"
  BY DEF GenerateThumb, At, TypeInv, ReqShaped
<1>2. UNCHANGED <<image, file, store, deletions, month, events, admitted, most, taken, raced>>
        /\ UNCHANGED traffic
  BY DEF GenerateThumb
<1>3. CASE Goto(r, "put") /\ UNCHANGED flight
  <2>1. req' = [req EXCEPT ![r].pc = "put"] /\ req' \in [Requests -> ReqRecords]
    BY <1>3, StepsOn
  <2>2. ReqShaped'
    BY <1>1, <1>2, <2>1 DEF TypeInv, TypeOK, ReqShaped, ReqRecords
  <2>3. ASSUME NEW j \in Variants, flight[j] # None
        PROVE  req'[flight[j]].kind = j /\ req'[flight[j]].pc \in {"source", "put"}
    <3>1. flight[j] \in Requests /\ req[flight[j]].kind = j
            /\ req[flight[j]].pc \in {"source", "put"}
      BY <2>3 DEF TypeInv, TypeOK
    <3> QED BY <2>1, <3>1 DEF TypeInv, TypeOK, ReqRecords
  <2> QED BY <1>2, <1>3, <2>1, <2>2, <2>3 DEF TypeInv, TypeOK, traffic
<1>4. CASE \E step \in {"idle", "open"} : Land(req[r].kind, step)
  <2>1. PICK step \in {"idle", "open"} : Land(req[r].kind, step)
    BY <1>4
  <2> QED BY <1>1, <1>2, <2>1, LandType, LandShape DEF TypeInv, TypeOK, traffic
<1> QED BY <1>3, <1>4 DEF GenerateThumb

LEMMA PutThumbType ==
  ASSUME TypeInv, NEW r \in Requests, PutThumb(r)
  PROVE  TypeInv'
<1>1. req[r].kind \in Variants /\ req[r].pc = "put"
  BY DEF PutThumb, At, TypeInv, ReqShaped
<1>2. UNCHANGED <<image, file, deletions, month, events, admitted, most, taken>>
        /\ UNCHANGED traffic
  BY DEF PutThumb
<1>3. store' \subseteq Kinds /\ raced' \subseteq Variants
  BY <1>1 DEF PutThumb, TypeInv, TypeOK, Kinds
<1>4. PICK step \in {"idle", "send"} : Land(req[r].kind, step)
  BY DEF PutThumb
<1> QED BY <1>1, <1>2, <1>3, <1>4, LandType, LandShape DEF TypeInv, TypeOK, traffic

LEMMA SendType ==
  ASSUME TypeInv, NEW r \in Requests, Send(r)
  PROVE  TypeInv'
<1>1. MovesOn(r)
  BY GotoMovesOn, FinishMovesOn DEF Send, At
<1> QED BY <1>1, MovedOnType DEF Send, TypeInv, TypeOK, traffic, objects

LEMMA MeterMonthType ==
  ASSUME TypeInv, NEW r \in Requests, MeterMonth(r)
  PROVE  TypeInv'
<1> DEFINE q == [req[r] EXCEPT !.pc = "add", !.month = month]
<1>1. q \in ReqRecords /\ q.pc = "add" /\ q.month = month
  <2>1. req[r] \in ReqRecords
    BY DEF TypeInv, TypeOK
  <2> QED BY <2>1, MonthBounds DEF ReqRecords
<1>2. req' = [req EXCEPT ![r] = q] /\ req[r].pc = "meter" /\ month \in 1 .. month
  BY MonthBounds DEF MeterMonth, At
<1> HIDE DEF q
<1>3. MovesOn(r)
  BY <1>1, <1>2 DEF MovesOn
<1> QED BY <1>3, MovedOnType DEF MeterMonth, TypeInv, TypeOK, traffic, objects

LEMMA MeterAddType ==
  ASSUME TypeInv, NEW r \in Requests, MeterAdd(r)
  PROVE  TypeInv'
<1>1. MovesOn(r)
  BY FinishMovesOn DEF MeterAdd, At
<1>2. Bytes[req[r].kind] \in Nat /\ req[r].month \in 1 .. Months
  BY ServingAssumption DEF ServingAssumption, MeterAdd, At, TypeInv, TypeOK, ReqShaped, ReqRecords
<1>3. /\ owner' \in [used: Nat, month: 1 .. Months]
      /\ spent' \in [1 .. Months -> Nat]
      /\ free' \in Nat /\ turned' \in BOOLEAN
  <2>1. owner \in [used: Nat, month: 1 .. Months] /\ spent \in [1 .. Months -> Nat]
          /\ free \in Nat /\ turned \in BOOLEAN
    BY DEF TypeInv, TypeOK
  <2>2. Added(req[r].month, Bytes[req[r].kind]) \in [used: Nat, month: 1 .. Months]
    BY <1>2, <2>1 DEF Added
  <2>3. owner' \in [used: Nat, month: 1 .. Months]
    BY <2>2 DEF MeterAdd
  <2>4. spent' \in [1 .. Months -> Nat] /\ free' \in Nat
    BY SMTT(30), <1>2, <2>1 DEF MeterAdd
  <2> QED BY <2>3, <2>4 DEF MeterAdd
<1> QED BY <1>1, <1>3, MovedOnType DEF MeterAdd, TypeInv, TypeOK, objects

LEMMA CrashType ==
  ASSUME TypeInv, Crash
  PROVE  TypeInv'
<1>1. req' \in [Requests -> ReqRecords] /\ ReqShaped'
  BY IdleTyped DEF Crash, ReqShaped
<1>2. events' \in 0 .. MaxEvents /\ flight' = [k \in Variants |-> None]
  BY ServingAssumption DEF ServingAssumption, Crash, TypeInv, TypeOK
<1> QED BY <1>1, <1>2 DEF Crash, TypeInv, TypeOK, traffic

\* What others do to the image, its file, its objects and the clock.
LEMMA OutsideType ==
  ASSUME TypeInv, SetLimit \/ Obstruct \/ Trash \/ Purge \/ \E k \in Kinds : DeleteFile(k)
  PROVE  TypeInv'
<1>1. ReqShaped' /\ UNCHANGED <<req, flight>>
  BY DEF SetLimit, Obstruct, Trash, Purge, DeleteFile, TypeInv, ReqShaped, objects
<1>2. CASE SetLimit
  <2>1. image' \in ImageRecords /\ most' \in Limits
    <3>1. PICK n \in Limits \ {image.limit} : image' = [image EXCEPT !.limit = n] /\ most' = IF n > most THEN n ELSE most
      BY <1>2 DEF SetLimit
    <3>2. image \in ImageRecords /\ most \in Limits
      BY DEF TypeInv, TypeOK
    <3>3. most' \in Limits
      BY <3>1, <3>2
    <3>4. image' \in ImageRecords
      BY <3>1, <3>2 DEF ImageRecords
    <3> QED BY <3>3, <3>4
  <2>2. events' \in 0 .. MaxEvents
    BY <1>2, Bounds DEF SetLimit, TypeInv, TypeOK
  <2> QED BY <1>1, <1>2, <2>1, <2>2 DEF SetLimit, TypeInv, TypeOK, traffic, objects
<1>3. CASE Obstruct
  <2>1. image' \in ImageRecords
    <3>1. PICK o \in Changes : image' = [image EXCEPT !.obstacles =
             IF o \in @ THEN @ \ {o}
             ELSE IF o \in {"pending", "rejected"} THEN (@ \ {"pending", "rejected"}) \cup {o}
             ELSE @ \cup {o}]
      BY <1>3 DEF Obstruct
    <3>2. o \in Obstacles
      BY ServingAssumption DEF ServingAssumption
    <3>3. image'.obstacles \subseteq Obstacles
      BY <3>1, <3>2 DEF TypeInv, TypeOK, ImageRecords
    <3> QED BY <3>1, <3>3 DEF TypeInv, TypeOK, ImageRecords
  <2>2. events' \in 0 .. MaxEvents
    BY <1>3, Bounds DEF Obstruct, TypeInv, TypeOK
  <2> QED BY <1>1, <1>3, <2>1, <2>2 DEF Obstruct, TypeInv, TypeOK, traffic, objects
<1>4. CASE Trash
  BY <1>1, <1>4 DEF Trash, TypeInv, TypeOK, ImageRecords, traffic, objects
<1>5. CASE Purge
  <2>1. image' \in ImageRecords /\ deletions' \subseteq Kinds
    BY <1>5 DEF Purge, DeletedKeys, Kinds, Variants, TypeInv, TypeOK, ImageRecords
  <2> QED BY <1>1, <1>5, <2>1 DEF Purge, TypeInv, TypeOK, traffic
<1>6. CASE \E k \in Kinds : DeleteFile(k)
  BY <1>1, <1>6 DEF DeleteFile, TypeInv, TypeOK, traffic
<1> QED BY <1>2, <1>3, <1>4, <1>5, <1>6

LEMMA NextMonthType ==
  ASSUME TypeInv, NextMonth
  PROVE  TypeInv'
<1>1. month' = month + 1 /\ month' \in 1 .. Months /\ UNCHANGED <<req, flight>>
  BY Bounds DEF NextMonth, TypeInv, TypeOK, objects
<1>2. ReqShaped'
  <2>1. \A m \in 1 .. month : m \in 1 .. month'
    BY <1>1, MonthBounds
  <2> QED BY <1>1, <2>1 DEF TypeInv, ReqShaped
<1> QED BY <1>1, <1>2 DEF NextMonth, TypeInv, TypeOK, traffic, objects

LEMMA TypesStart == Init => TypeInv
<1> SUFFICES ASSUME Init PROVE TypeInv
  OBVIOUS
<1>1. ReqShaped /\ req \in [Requests -> ReqRecords]
  BY IdleTyped DEF Init, ReqShaped
<1>2. image \in ImageRecords /\ most \in Limits /\ store \subseteq Kinds
  BY ServingAssumption DEF ServingAssumption, Init, ImageRecords, Kinds, Variants
<1>3. owner \in [used: Nat, month: 1 .. Months] /\ month \in 1 .. Months
        /\ spent \in [1 .. Months -> Nat] /\ events \in 0 .. MaxEvents
        /\ admitted \in 0 .. MaxRequests
  BY Bounds DEF Init
<1> QED BY <1>1, <1>2, <1>3 DEF Init, TypeInv, TypeOK

LEMMA TypesGoOn == TypeInv /\ [Next]_vars => TypeInv'
<1> SUFFICES ASSUME TypeInv, [Next]_vars PROVE TypeInv'
  OBVIOUS
<1>1. ASSUME NEW r \in Requests, Serve(r) PROVE TypeInv'
  BY <1>1, FindType, CheckBandwidthType, ClaimViewType, LoadFilePolicyType, OpenThumbType,
     GenerateThumbType, PutThumbType, SendType, MeterMonthType, MeterAddType DEF Serve
<1>2. CASE UNCHANGED vars
  BY <1>2 DEF vars, traffic, objects, TypeInv, TypeOK, ReqShaped
<1> QED BY <1>1, <1>2, CrashType, OutsideType, NextMonthType DEF Next

\* The types of Serving, for any number of requests: in particular no request
\* generates a variant but the one that leads its flight.
THEOREM ServingTypes == Spec => []TypeInv
BY TypesStart, TypesGoOn, PTL DEF Spec

\* The type invariant that the runs check.
THEOREM ServingTypeOK == Spec => []TypeOK
<1>1. TypeInv => TypeOK
  BY DEF TypeInv
<1> QED BY <1>1, ServingTypes, PTL

-----------------------------------------------------------------------------
(* How the requests that have passed the claim go on.                      *)

\* The steps between the claim of a view and the delivery.
InHands == {"load", "open", "wait", "source", "put", "send"}

GoesOn(v) ==
  \/ req'[v] = req[v]
  \/ req'[v].pc = "idle"
  \/ /\ req[v].pc \in InHands /\ req'[v].pc \in InHands
     /\ req'[v].claims = req[v].claims /\ req'[v].admin = req[v].admin

LEMMA GotoGoesOn ==
  ASSUME TypeInv, NEW r \in Requests, NEW step \in InHands, Goto(r, step), req[r].pc \in InHands
  PROVE  \A v \in Requests : GoesOn(v)
<1>1. req[r] \in ReqRecords /\ req' = [req EXCEPT ![r] = [req[r] EXCEPT !.pc = step]]
  BY DEF TypeInv, TypeOK, Goto
<1>2. req'[r] = [req[r] EXCEPT !.pc = step] /\ \A v \in Requests \ {r} : req'[v] = req[v]
  BY <1>1 DEF TypeInv, TypeOK
<1>3. GoesOn(r)
  BY <1>1, <1>2 DEF GoesOn, ReqRecords
<1> QED BY <1>2, <1>3 DEF GoesOn

LEMMA FinishGoesOn ==
  ASSUME TypeInv, NEW r \in Requests, Finish(r)
  PROVE  \A v \in Requests : GoesOn(v)
BY IdleTyped DEF Finish, GoesOn, TypeInv, TypeOK

LEMMA LandGoesOn ==
  ASSUME TypeInv, NEW k \in Variants, NEW step \in {"idle", "open", "send"}, Land(k, step)
  PROVE  \A v \in Requests : GoesOn(v)
<1> SUFFICES ASSUME NEW v \in Requests PROVE GoesOn(v)
  OBVIOUS
<1>1. req'[v] = IF Aboard(v, k) THEN Resumed(req[v], step) ELSE req[v]
  BY DEF Land
<1>2. CASE ~Aboard(v, k)
  BY <1>1, <1>2 DEF GoesOn
<1>3. CASE Aboard(v, k)
  <2>1. req[v].pc \in InHands /\ req[v] \in ReqRecords
    <3>1. CASE v = flight[k]
      BY <3>1, ServingAssumption DEF ServingAssumption, TypeInv, TypeOK, InHands
    <3>2. CASE At(v, "wait")
      BY <3>2 DEF At, InHands, TypeInv, TypeOK
    <3> QED BY <1>3, <3>1, <3>2 DEF Aboard
  <2>2. CASE step = "idle"
    BY <1>1, <1>3, <2>2, IdleTyped DEF Resumed, GoesOn
  <2>3. CASE step = "open"
    BY <1>1, <1>3, <2>1, <2>3 DEF Resumed, GoesOn, InHands, ReqRecords
  <2>4. CASE step = "send"
    BY <1>1, <1>3, <2>1, <2>4 DEF Resumed, GoesOn, InHands, ReqRecords
  <2> QED BY <2>2, <2>3, <2>4
<1> QED BY <1>2, <1>3

LEMMA LookingGoesOn ==
  ASSUME TypeInv, NEW r \in Requests,
         LoadFilePolicy(r) \/ OpenThumb(r) \/ GenerateThumb(r) \/ PutThumb(r)
  PROVE  /\ \A v \in Requests : GoesOn(v)
         /\ UNCHANGED <<image, month, most, taken>> /\ UNCHANGED traffic
<1>1. CASE LoadFilePolicy(r)
  BY <1>1, GotoGoesOn, FinishGoesOn DEF LoadFilePolicy, At, InHands
<1>2. CASE OpenThumb(r)
  BY <1>2, GotoGoesOn DEF OpenThumb, At, InHands
<1>3. CASE GenerateThumb(r)
  <2>1. req[r].kind \in Variants
    BY <1>3 DEF GenerateThumb, At, TypeInv, ReqShaped
  <2>2. CASE Goto(r, "put")
    BY <1>3, <2>2, GotoGoesOn DEF GenerateThumb, At, InHands
  <2>3. CASE \E step \in {"idle", "open"} : Land(req[r].kind, step)
    BY <1>3, <2>1, <2>3, LandGoesOn DEF GenerateThumb
  <2> QED BY <1>3, <2>2, <2>3 DEF GenerateThumb
<1>4. CASE PutThumb(r)
  <2>1. req[r].kind \in Variants
    BY <1>4 DEF PutThumb, At, TypeInv, ReqShaped
  <2>2. PICK step \in {"idle", "send"} : Land(req[r].kind, step)
    BY <1>4 DEF PutThumb
  <2> QED BY <1>4, <2>1, <2>2, LandGoesOn DEF PutThumb
<1> QED BY <1>1, <1>2, <1>3, <1>4

\* What happens outside the requests leaves them as they are.
LEMMA OutsideLeavesRequests ==
  ASSUME SetLimit \/ Obstruct \/ Trash \/ Purge \/ \E k \in Kinds : DeleteFile(k)
  PROVE  UNCHANGED <<req, month, taken, traffic>>
BY DEF SetLimit, Obstruct, Trash, Purge, DeleteFile

-----------------------------------------------------------------------------
(* Views.  Each view claimed is either delivered or in the hands of one    *)
(* request, or lost.                                                       *)

Holders == {r \in Requests : req[r].claims /\ req[r].pc \in InHands}

ViewsInv ==
  /\ image.limit <= most
  /\ image.served <= most
  /\ taken + Cardinality(Holders) <= image.served

LEMMA HoldersCount == IsFiniteSet(Holders) /\ Cardinality(Holders) \in Nat
<1>1. Holders \in SUBSET Requests
  BY DEF Holders
<1> QED BY <1>1, FS_Subset, FS_CardinalityType, ServingAssumption DEF ServingAssumption

LEMMA ViewTypes ==
  ASSUME TypeInv
  PROVE  image.limit \in Nat /\ image.served \in Nat /\ most \in Nat /\ taken \in Nat
BY ServingAssumption DEF ServingAssumption, TypeInv, TypeOK, ImageRecords

\* No new holder, and no view taken or given back.
LEMMA FewerHolders ==
  ASSUME TypeInv, ViewsInv, Holders' \subseteq Holders, taken' = taken,
         image'.served = image.served, image'.limit <= most', most <= most', most' \in Nat
  PROVE  ViewsInv'
<1>1. Holders' \in SUBSET Holders
  OBVIOUS
<1>2. Cardinality(Holders') <= Cardinality(Holders) /\ Cardinality(Holders') \in Nat
  BY <1>1, HoldersCount, FS_Subset, FS_CardinalityType
<1> QED BY <1>2, HoldersCount, ViewTypes DEF ViewsInv

LEMMA GoOnViews ==
  ASSUME TypeInv, ViewsInv, \A v \in Requests : GoesOn(v), UNCHANGED <<image, most, taken>>
  PROVE  ViewsInv'
<1>1. Holders' \subseteq Holders
  BY DEF Holders, GoesOn, InHands
<1> QED BY <1>1, FewerHolders, ViewTypes DEF ViewsInv

\* A request that is moved to a step outside its holding a view.
LEMMA OutOfHandsViews ==
  ASSUME TypeInv, ViewsInv, NEW r \in Requests, NEW q, req' = [req EXCEPT ![r] = q],
         q.pc \notin InHands, UNCHANGED <<image, most, taken>>
  PROVE  ViewsInv'
<1>1. Holders' \subseteq Holders
  BY DEF Holders, TypeInv, TypeOK
<1> QED BY <1>1, FewerHolders, ViewTypes DEF ViewsInv

LEMMA ClaimViewViews ==
  ASSUME TypeInv, ViewsInv, NEW r \in Requests, ClaimView(r)
  PROVE  ViewsInv'
<1>1. req[r] \in ReqRecords /\ req[r].pc = "claim" /\ r \notin Holders
  BY DEF ClaimView, At, TypeInv, TypeOK, Holders, InHands
<1>2. UNCHANGED <<most, taken>>
  BY DEF ClaimView
<1>3. CASE ~req[r].claims /\ Goto(r, "load") /\ UNCHANGED image
  <2>1. req' = [req EXCEPT ![r] = [req[r] EXCEPT !.pc = "load"]]
    BY <1>3 DEF Goto
  <2>2. Holders' \subseteq Holders
    BY <1>1, <1>3, <2>1 DEF Holders, TypeInv, TypeOK, ReqRecords
  <2> QED BY <1>2, <1>3, <2>2, FewerHolders, ViewTypes DEF ViewsInv
<1>4. CASE req[r].claims /\ MayClaim /\ image' = [image EXCEPT !.served = @ + 1] /\ Goto(r, "load")
  <2>1. req' = [req EXCEPT ![r] = [req[r] EXCEPT !.pc = "load"]]
    BY <1>4 DEF Goto
  <2>2. Holders' = Holders \cup {r}
    BY <1>1, <1>4, <2>1 DEF Holders, InHands, TypeInv, TypeOK, ReqRecords
  <2>3. Cardinality(Holders') = Cardinality(Holders) + 1
    BY <1>1, <2>2, HoldersCount, FS_AddElement
  <2>4. image'.served = image.served + 1 /\ image'.limit = image.limit /\ image.served < image.limit
    BY <1>4 DEF MayClaim, TypeInv, TypeOK, ImageRecords
  <2> QED BY <1>2, <2>3, <2>4, HoldersCount, ViewTypes DEF ViewsInv
<1>5. CASE Finish(r) /\ UNCHANGED image
  BY <1>2, <1>5, FinishGoesOn, GoOnViews
<1> QED BY <1>3, <1>4, <1>5 DEF ClaimView

LEMMA SendViews ==
  ASSUME TypeInv, ViewsInv, NEW r \in Requests, Send(r)
  PROVE  ViewsInv'
<1>1. req[r] \in ReqRecords /\ req[r].pc = "send" /\ UNCHANGED <<image, most>>
  BY DEF Send, At, TypeInv, TypeOK
<1>2. CASE Goto(r, "meter") /\ taken' = IF req[r].claims THEN taken + 1 ELSE taken
  <2>1. req' = [req EXCEPT ![r] = [req[r] EXCEPT !.pc = "meter"]]
    BY <1>2 DEF Goto
  <2>2. Holders' = Holders \ {r}
    BY <1>1, <2>1 DEF Holders, InHands, TypeInv, TypeOK, ReqRecords
  <2>3. CASE req[r].claims
    <3>1. r \in Holders
      BY <1>1, <2>3 DEF Holders, InHands
    <3>2. Cardinality(Holders') = Cardinality(Holders) - 1
      BY <2>2, <3>1, HoldersCount, FS_RemoveElement
    <3> QED BY <1>1, <1>2, <2>3, <3>2, HoldersCount, ViewTypes DEF ViewsInv
  <2>4. CASE ~req[r].claims
    BY <1>1, <1>2, <2>2, <2>4, FewerHolders, ViewTypes DEF ViewsInv
  <2> QED BY <2>3, <2>4
<1>3. CASE Finish(r) /\ UNCHANGED taken
  BY <1>1, <1>3, FinishGoesOn, GoOnViews
<1> QED BY <1>2, <1>3 DEF Send

LEMMA OtherStepsViews ==
  ASSUME TypeInv, ViewsInv, NEW r \in Requests,
         Find(r) \/ CheckBandwidth(r) \/ MeterMonth(r) \/ MeterAdd(r)
  PROVE  ViewsInv'
<1>1. UNCHANGED <<image, most, taken>>
  BY DEF Find, CheckBandwidth, MeterMonth, MeterAdd
<1>2. req[r] \in ReqRecords
  BY DEF TypeInv, TypeOK
<1>3. \E q : req' = [req EXCEPT ![r] = q] /\ q.pc \notin InHands
  <2>1. CASE Find(r)
    <3>1. PICK who \in People, kind \in Kinds :
            req' = [req EXCEPT ![r] = [Idle EXCEPT !.pc = IF who = "admin" THEN "claim" ELSE "check",
                                         !.kind = kind, !.admin = who = "admin",
                                         !.claims = kind = "orig" /\ image.limit > 0
                                                                     /\ who # "owner"]]
      BY ZenonT(60), <2>1 DEF Find
    <3> DEFINE q == [Idle EXCEPT !.pc = IF who = "admin" THEN "claim" ELSE "check",
                       !.kind = kind, !.admin = who = "admin",
                       !.claims = kind = "orig" /\ image.limit > 0 /\ who # "owner"]
    <3>2. q.pc \in {"claim", "check"}
      BY DEF Idle
    <3>3. req' = [req EXCEPT ![r] = q]
      BY <3>1
    <3> HIDE DEF q
    <3> QED BY <3>2, <3>3 DEF InHands
  <2>2. CASE CheckBandwidth(r)
    BY <1>2, <2>2, IdleTyped DEF CheckBandwidth, Goto, Finish, ReqRecords, InHands
  <2>3. CASE MeterMonth(r)
    <3> DEFINE q == [req[r] EXCEPT !.pc = "add", !.month = month]
    <3>1. req' = [req EXCEPT ![r] = q] /\ q.pc = "add"
      BY <1>2, <2>3 DEF MeterMonth, ReqRecords
    <3> QED BY <3>1 DEF InHands
  <2>4. CASE MeterAdd(r)
    BY <2>4, IdleTyped DEF MeterAdd, Finish, InHands
  <2> QED BY <2>1, <2>2, <2>3, <2>4
<1> QED BY <1>1, <1>3, OutOfHandsViews

LEMMA OutsideViews ==
  ASSUME TypeInv, ViewsInv,
         SetLimit \/ Obstruct \/ Trash \/ Purge \/ \E k \in Kinds : DeleteFile(k)
  PROVE  ViewsInv'
<1>1. Holders' = Holders /\ taken' = taken
  BY OutsideLeavesRequests DEF Holders
<1>2. CASE SetLimit
  <2>1. PICK l \in Limits : image' = [image EXCEPT !.limit = l]
                             /\ most' = IF l > most THEN l ELSE most
    BY <1>2 DEF SetLimit
  <2>2. l \in Nat
    BY ServingAssumption DEF ServingAssumption
  <2>3. image'.served = image.served /\ image'.limit = l
    BY <2>1 DEF TypeInv, TypeOK, ImageRecords
  <2>4. l <= most' /\ most <= most' /\ most' \in Nat
    BY <2>1, <2>2, ViewTypes
  <2> QED BY <1>1, <2>3, <2>4, FewerHolders
<1>3. CASE Obstruct \/ Trash \/ Purge \/ \E k \in Kinds : DeleteFile(k)
  <2>1. image'.served = image.served /\ image'.limit = image.limit /\ most' = most
    BY <1>3 DEF Obstruct, Trash, Purge, DeleteFile, TypeInv, TypeOK, ImageRecords
  <2> QED BY <1>1, <2>1, FewerHolders, ViewTypes DEF ViewsInv
<1> QED BY <1>2, <1>3

THEOREM ViewsCorrect == Spec => []ViewsInv
<1>1. Init => ViewsInv
  <2> SUFFICES ASSUME Init PROVE ViewsInv
    OBVIOUS
  <2>1. Holders = {}
    BY IdleTyped DEF Init, Holders, InHands
  <2>2. PICK l \in Limits : image = [st |-> "live", obstacles |-> {}, limit |-> l, served |-> 0] /\ most = l
    BY DEF Init
  <2>3. l \in Nat /\ taken = 0
    BY ServingAssumption DEF ServingAssumption, Init
  <2> QED BY <2>1, <2>2, <2>3, FS_EmptySet DEF ViewsInv
<1>2. TypeInv /\ ViewsInv /\ [Next]_vars => ViewsInv'
  <2> SUFFICES ASSUME TypeInv, ViewsInv, [Next]_vars PROVE ViewsInv'
    OBVIOUS
  <2>1. ASSUME NEW r \in Requests, Serve(r) PROVE ViewsInv'
    BY <2>1, OtherStepsViews, ClaimViewViews, SendViews, LookingGoesOn, GoOnViews DEF Serve
  <2>2. CASE Crash
    <3>1. Holders' = {} /\ UNCHANGED <<image, most, taken>>
      BY <2>2, IdleTyped DEF Crash, Holders, InHands
    <3> QED BY <3>1, FewerHolders, ViewTypes DEF ViewsInv
  <2>3. CASE NextMonth \/ UNCHANGED vars
    <3>1. Holders' = Holders /\ UNCHANGED <<image, most, taken>>
      BY <2>3 DEF NextMonth, vars, Holders
    <3> QED BY <3>1, FewerHolders, ViewTypes DEF ViewsInv
  <2> QED BY <2>1, <2>2, <2>3, OutsideViews DEF Next
<1> QED BY <1>1, <1>2, ServingTypes, PTL DEF Spec

\* Views are never oversold (ClaimView's conditional update), however many
\* requests read the row before the last view was claimed.
THEOREM ViewsAreNeverOversold == Spec => []ViewsNeverOversold
<1>1. TypeInv /\ ViewsInv => ViewsNeverOversold
  BY HoldersCount, ViewTypes DEF ViewsInv, ViewsNeverOversold
<1> QED BY <1>1, ServingTypes, ViewsCorrect, PTL

-----------------------------------------------------------------------------
(* Traffic.  The month's weight is what was metered in it and what the     *)
(* requests let through under the quota may still add.                     *)

Ahead == InHands \cup {"claim", "meter"}

\* The requests that may add to month m: those that computed it, and those
\* that have not computed a month yet if m has not passed.
Carriers(m) ==
  {r \in Requests :
     /\ ~req[r].admin
     /\ \/ req[r].pc = "add" /\ req[r].month = m
        \/ req[r].pc \in Ahead /\ month <= m}

Weight(m) == spent[m] + Cardinality(Carriers(m)) * Largest
Ceiling == Quota - 1 + Cardinality(Requests) * Largest + free

TrafficInv ==
  /\ owner.month <= month
  /\ ~turned =>
       /\ owner.used = spent[owner.month]
       /\ \A m \in 1 .. Months : m > owner.month => spent[m] = 0
       /\ Quota > 0 => \A m \in 1 .. Months : Weight(m) <= Ceiling

LEMMA LargestIs == Largest \in Nat /\ \A k \in Kinds : Bytes[k] \in Nat /\ Bytes[k] <= Largest
<1>1. /\ Bytes["orig"] \in Nat /\ Bytes["thumb"] \in Nat /\ Bytes["width"] \in Nat
      /\ Kinds = {"orig", "thumb", "width"}
  BY ServingAssumption DEF ServingAssumption, Kinds, Variants
<1>2. \E n \in {Bytes[k] : k \in Kinds} : \A k \in Kinds : Bytes[k] <= n
  <2>1. PICK k \in Kinds : \A j \in Kinds : Bytes[j] <= Bytes[k]
    BY <1>1
  <2> QED BY <2>1
<1>3. Largest \in {Bytes[k] : k \in Kinds} /\ \A k \in Kinds : Bytes[k] <= Largest
  BY <1>2 DEF Largest
<1> QED BY <1>1, <1>3

LEMMA TimesMonotone ==
  ASSUME NEW a \in Nat, NEW b \in Nat, NEW l \in Nat, a <= b
  PROVE  a * l \in Nat /\ a * l <= b * l
<1>1. PICK d \in Nat : b = a + d
  BY b - a \in Nat, b = a + (b - a)
<1>2. b * l = a * l + d * l
  BY <1>1
<1>3. a * l \in Nat /\ d * l \in Nat
  OBVIOUS
<1> QED BY <1>2, <1>3

LEMMA CarriersCount ==
  ASSUME NEW m
  PROVE  /\ IsFiniteSet(Carriers(m)) /\ Cardinality(Carriers(m)) \in Nat
         /\ Cardinality(Carriers(m)) <= Cardinality(Requests)
         /\ Cardinality(Requests) \in Nat
<1>1. Carriers(m) \in SUBSET Requests
  BY DEF Carriers
<1> QED BY <1>1, FS_Subset, FS_CardinalityType, ServingAssumption DEF ServingAssumption

LEMMA Room == Cardinality(Requests) \in Nat /\ Cardinality(Requests) * Largest \in Nat
<1>1. Cardinality(Requests) \in Nat
  BY FS_CardinalityType, ServingAssumption DEF ServingAssumption
<1> QED BY <1>1, LargestIs

LEMMA TrafficTypes ==
  ASSUME TypeInv
  PROVE  /\ owner.used \in Nat /\ owner.month \in 1 .. Months /\ month \in 1 .. Months
         /\ owner = [used |-> owner.used, month |-> owner.month]
         /\ \A m \in 1 .. Months : m \in Nat /\ spent[m] \in Nat
         /\ free \in Nat /\ turned \in BOOLEAN /\ Quota \in Nat
BY ServingAssumption, Bounds DEF ServingAssumption, TypeInv, TypeOK

\* Nobody new carries bytes to any month, and nothing is metered.
LEMMA FewerCarriers ==
  ASSUME TypeInv, TrafficInv, UNCHANGED traffic, month <= month', month' \in Nat,
         \A m \in 1 .. Months : Carriers(m)' \subseteq Carriers(m)
  PROVE  TrafficInv'
<1>1. owner'.month <= month'
  BY TrafficTypes DEF TrafficInv, traffic
<1>2. ASSUME NEW m \in 1 .. Months
      PROVE  Weight(m)' <= Weight(m) /\ Weight(m) \in Int /\ Weight(m)' \in Int
  <2>1. Carriers(m)' \in SUBSET Carriers(m)
    BY <1>2
  <2>2. Cardinality(Carriers(m)') <= Cardinality(Carriers(m)) /\ Cardinality(Carriers(m)') \in Nat
    BY <2>1, CarriersCount, FS_Subset, FS_CardinalityType
  <2>3. /\ Cardinality(Carriers(m)') * Largest \in Nat
        /\ Cardinality(Carriers(m)) * Largest \in Nat
        /\ Cardinality(Carriers(m)') * Largest <= Cardinality(Carriers(m)) * Largest
    BY <2>2, CarriersCount, LargestIs, TimesMonotone
  <2>4. spent'[m] = spent[m] /\ spent[m] \in Nat
    BY TrafficTypes DEF traffic
  <2> QED BY <2>3, <2>4 DEF Weight
<1>3. Ceiling' = Ceiling /\ Ceiling \in Int
  BY TrafficTypes, Room DEF Ceiling, traffic
<1> QED BY <1>1, <1>2, <1>3 DEF TrafficInv, traffic

LEMMA GoOnTraffic ==
  ASSUME TypeInv, TrafficInv, \A v \in Requests : GoesOn(v), UNCHANGED <<traffic, month>>
  PROVE  TrafficInv'
<1>1. \A m \in 1 .. Months : Carriers(m)' \subseteq Carriers(m)
  BY DEF Carriers, GoesOn, Ahead, InHands
<1> QED BY <1>1, FewerCarriers, MonthBounds

\* A request that is moved to a step at which it carries nothing, or as little
\* as before.
LEMMA MovedTraffic ==
  ASSUME TypeInv, TrafficInv, NEW r \in Requests, NEW q, req' = [req EXCEPT ![r] = q],
         UNCHANGED <<traffic, month>>,
         \/ q.admin \/ q.pc \in {"idle", "check"}
         \/ /\ req[r].pc \in Ahead /\ q.admin = req[r].admin
            /\ q.pc \in Ahead \/ (q.pc = "add" /\ q.month = month)
  PROVE  TrafficInv'
<1>1. ASSUME NEW m \in 1 .. Months
      PROVE  Carriers(m)' \subseteq Carriers(m)
  <2> SUFFICES ASSUME NEW v \in Requests, v \in Carriers(m)' PROVE v \in Carriers(m)
    BY DEF Carriers
  <2>1. CASE v # r
    BY <2>1 DEF Carriers, TypeInv, TypeOK
  <2>2. CASE v = r
    <3>1. req'[r] = q /\ month' = month
      BY DEF TypeInv, TypeOK
    <3>2. month \in Nat /\ m \in Nat
      BY TrafficTypes
    <3> QED BY <2>2, <3>1, <3>2 DEF Carriers, Ahead, InHands
  <2> QED BY <2>1, <2>2
<1> QED BY <1>1, FewerCarriers, MonthBounds

\* A request passes the check: what the month has used is below the quota, and
\* everybody who carries bytes fits above it.
LEMMA CheckBandwidthTraffic ==
  ASSUME TypeInv, TrafficInv, NEW r \in Requests, CheckBandwidth(r)
  PROVE  TrafficInv'
<1>1. req[r] \in ReqRecords /\ req[r].pc = "check" /\ UNCHANGED <<traffic, month>>
  BY DEF CheckBandwidth, At, TypeInv, TypeOK
<1>2. CASE Finish(r)
  BY <1>1, <1>2, FinishGoesOn, GoOnTraffic
<1>3. CASE ~UsedUp /\ Goto(r, "claim")
  <2>1. /\ req' = [req EXCEPT ![r] = [req[r] EXCEPT !.pc = "claim"]]
        /\ [req[r] EXCEPT !.pc = "claim"].pc = "claim"
    BY <1>1, <1>3 DEF Goto, ReqRecords
  <2>2. ASSUME NEW m \in 1 .. Months, ~turned, Quota > 0
        PROVE  Weight(m)' <= Ceiling'
    <3>1. spent'[m] = spent[m] /\ Ceiling' = Ceiling /\ spent[m] \in Nat /\ free \in Nat
      BY <1>1, TrafficTypes DEF traffic, Ceiling
    <3>2. CASE month <= m
      <4>1. spent[m] <= Quota - 1
        BY <1>3, <2>2, <3>1, <3>2, TrafficTypes DEF TrafficInv, UsedUp, EffectiveUsed
      <4>2. Carriers(m)' \in SUBSET Requests
        BY DEF Carriers
      <4>3. /\ Cardinality(Carriers(m)') \in Nat /\ Cardinality(Requests) \in Nat
            /\ Cardinality(Carriers(m)') <= Cardinality(Requests)
        BY <4>2, FS_Subset, FS_CardinalityType, ServingAssumption DEF ServingAssumption
      <4>4. /\ Cardinality(Carriers(m)') * Largest \in Nat /\ Cardinality(Requests) * Largest \in Nat
            /\ Cardinality(Carriers(m)') * Largest <= Cardinality(Requests) * Largest
        BY <4>3, LargestIs, TimesMonotone
      <4> QED BY <3>1, <4>1, <4>4, TrafficTypes DEF Weight, Ceiling
    <3>3. CASE ~(month <= m)
      <4>1. Carriers(m)' = Carriers(m)
        BY <1>1, <2>1, <3>3 DEF Carriers, TypeInv, TypeOK
      <4> QED BY <2>2, <3>1, <4>1 DEF Weight, TrafficInv
    <3> QED BY <3>2, <3>3
  <2> QED BY <1>1, <2>2 DEF TrafficInv, traffic
<1> QED BY <1>2, <1>3 DEF CheckBandwidth

\* A request meters its bytes: it no longer carries them.
LEMMA MeterAddTraffic ==
  ASSUME TypeInv, TrafficInv, NEW r \in Requests, MeterAdd(r)
  PROVE  TrafficInv'
<1> DEFINE n == Bytes[req[r].kind]
           d == req[r].month
<1>1. /\ owner' = Added(d, n)
      /\ spent' = [spent EXCEPT ![d] = @ + n]
      /\ free' = IF req[r].admin THEN free + n ELSE free
      /\ turned' = (turned \/ owner.month > d)
      /\ Finish(r) /\ req[r].pc = "add" /\ month' = month
  BY DEF MeterAdd, At
<1>2. n \in Nat /\ n <= Largest /\ d \in 1 .. Months /\ d \in Nat /\ d <= month
  <2>1. req[r].kind \in Kinds /\ d \in 1 .. month
    BY <1>1 DEF TypeInv, TypeOK, ReqRecords, ReqShaped
  <2>2. n \in Nat /\ n <= Largest
    BY <2>1, LargestIs
  <2>3. month \in 1 .. Months
    BY TrafficTypes
  <2>4. d \in 1 .. Months /\ d \in Nat /\ d <= month
    BY <2>1, <2>3, Bounds
  <2> QED BY <2>2, <2>4
<1> HIDE DEF n, d
<1>3. owner'.month = d /\ owner'.used = IF owner.month = d THEN owner.used + n ELSE n
  BY <1>1 DEF Added
<1>4. /\ spent'[d] = spent[d] + n
      /\ \A m \in 1 .. Months : m # d => spent'[m] = spent[m]
  BY <1>1, <1>2 DEF TypeInv, TypeOK
<1>5. ASSUME ~turned'
      PROVE  /\ owner'.used = spent'[owner'.month]
             /\ \A m \in 1 .. Months : m > owner'.month => spent'[m] = 0
  <2>1. ~turned /\ ~(owner.month > d)
    BY <1>1, <1>5
  <2>2. owner.month <= d /\ owner.month \in 1 .. Months /\ owner.used \in Nat
    BY <1>2, <2>1, TrafficTypes
  <2>3. /\ owner.used = spent[owner.month]
        /\ \A m \in 1 .. Months : m > owner.month => spent[m] = 0
    BY <2>1 DEF TrafficInv
  <2>4. \A m \in 1 .. Months : m \in Nat /\ spent[m] \in Nat
    BY TrafficTypes
  <2> QED BY <1>2, <1>3, <1>4, <2>2, <2>3, <2>4, Bounds
<1>6. ASSUME ~turned', Quota > 0, NEW m \in 1 .. Months
      PROVE  Weight(m)' <= Ceiling'
  <2>1. ~turned /\ Weight(m) <= Ceiling
    BY <1>1, <1>6 DEF TrafficInv
  <2>2. \A v \in Requests \ {r} : v \in Carriers(m)' <=> v \in Carriers(m)
    BY <1>1 DEF Finish, Carriers, TypeInv, TypeOK
  <2>3. r \notin Carriers(m)'
    BY <1>1, IdleTyped DEF Finish, Carriers, Ahead, InHands, TypeInv, TypeOK
  <2>4. Carriers(m)' = Carriers(m) \ {r}
    BY <2>2, <2>3 DEF Carriers
  <2>5. /\ Cardinality(Carriers(m)) \in Nat /\ Cardinality(Requests) * Largest \in Nat
        /\ IF r \in Carriers(m)
             THEN Cardinality(Carriers(m)') = Cardinality(Carriers(m)) - 1
             ELSE Cardinality(Carriers(m)') = Cardinality(Carriers(m))
    <3>1. IsFiniteSet(Carriers(m)) /\ Cardinality(Carriers(m)) \in Nat
      BY CarriersCount
    <3> QED BY <2>4, <3>1, Room, FS_RemoveElement
  <2>6. /\ Cardinality(Carriers(m)) * Largest \in Int
        /\ (Cardinality(Carriers(m)) - 1) * Largest = Cardinality(Carriers(m)) * Largest - Largest
    BY <2>5, LargestIs
  <2>7. spent[m] \in Nat /\ free \in Nat /\ Quota \in Nat
    BY TrafficTypes
  <2>8. CASE m # d
    <3>1. r \notin Carriers(m)
      BY <1>1, <2>8 DEF Carriers, Ahead, InHands, d
    <3> QED BY <1>1, <1>2, <1>4, <2>1, <2>5, <2>6, <2>7, <2>8, <3>1 DEF Weight, Ceiling
  <2>9. CASE m = d /\ req[r].admin
    <3>1. r \notin Carriers(m)
      BY <2>9 DEF Carriers
    <3> QED BY <1>1, <1>2, <1>4, <2>1, <2>5, <2>6, <2>7, <2>9, <3>1 DEF Weight, Ceiling
  <2>10. CASE m = d /\ ~req[r].admin
    <3>1. r \in Carriers(m)
      BY <1>1, <2>10 DEF Carriers, d
    <3>2. Weight(m)' = spent[m] + n + (Cardinality(Carriers(m)) * Largest - Largest)
      BY <1>4, <2>5, <2>6, <2>10, <3>1 DEF Weight
    <3>3. Ceiling' = Ceiling /\ Ceiling \in Int
      BY <1>1, <2>5, <2>7, <2>10 DEF Ceiling
    <3> QED BY <1>2, <2>1, <2>6, <2>7, <3>2, <3>3, LargestIs DEF Weight
  <2> QED BY <2>8, <2>9, <2>10
<1>7. owner'.month <= month'
  BY <1>1, <1>2, <1>3
<1> QED BY <1>5, <1>6, <1>7 DEF TrafficInv

LEMMA OtherStepsTraffic ==
  ASSUME TypeInv, TrafficInv, NEW r \in Requests,
         Find(r) \/ ClaimView(r) \/ Send(r) \/ MeterMonth(r)
  PROVE  TrafficInv'
<1>1. UNCHANGED <<traffic, month>> /\ req[r] \in ReqRecords
  BY DEF Find, ClaimView, Send, MeterMonth, TypeInv, TypeOK
<1>2. CASE Finish(r)
  BY <1>1, <1>2, FinishGoesOn, GoOnTraffic
<1>3. CASE Find(r)
  <2>1. PICK who \in People, kind \in Kinds :
          req' = [req EXCEPT ![r] = [Idle EXCEPT !.pc = IF who = "admin" THEN "claim" ELSE "check",
                                       !.kind = kind, !.admin = who = "admin",
                                       !.claims = kind = "orig" /\ image.limit > 0
                                                                   /\ who # "owner"]]
    BY ZenonT(60), <1>3 DEF Find
  <2> DEFINE q == [Idle EXCEPT !.pc = IF who = "admin" THEN "claim" ELSE "check",
                     !.kind = kind, !.admin = who = "admin",
                     !.claims = kind = "orig" /\ image.limit > 0 /\ who # "owner"]
  <2>2. q.admin \/ q.pc \in {"idle", "check"}
    BY DEF Idle
  <2>3. req' = [req EXCEPT ![r] = q]
    BY <2>1
  <2> HIDE DEF q
  <2> QED BY <1>1, <2>2, <2>3, MovedTraffic
<1>4. CASE (ClaimView(r) /\ Goto(r, "load")) \/ (Send(r) /\ Goto(r, "meter"))
  <2>1. PICK step \in {"load", "meter"} : Goto(r, step)
    BY <1>4
  <2> DEFINE q == [req[r] EXCEPT !.pc = step]
  <2>2. q.pc \in Ahead /\ q.admin = req[r].admin
    BY <1>1 DEF ReqRecords, Ahead, InHands
  <2>3. req' = [req EXCEPT ![r] = q] /\ req[r].pc \in Ahead
    BY <1>4, <2>1 DEF Goto, ClaimView, Send, At, Ahead, InHands
  <2> HIDE DEF q
  <2> QED BY <1>1, <2>2, <2>3, MovedTraffic
<1>5. CASE MeterMonth(r)
  <2> DEFINE q == [req[r] EXCEPT !.pc = "add", !.month = month]
  <2>1. q.pc = "add" /\ q.month = month /\ q.admin = req[r].admin
    BY <1>1 DEF ReqRecords
  <2>2. req' = [req EXCEPT ![r] = q] /\ req[r].pc \in Ahead
    BY <1>5 DEF MeterMonth, At, Ahead
  <2> HIDE DEF q
  <2> QED BY <1>1, <2>1, <2>2, MovedTraffic
<1> QED BY <1>2, <1>3, <1>4, <1>5 DEF ClaimView, Send

THEOREM TrafficCorrect == Spec => []TrafficInv
<1>1. Init => TrafficInv
  <2> SUFFICES ASSUME Init PROVE TrafficInv
    OBVIOUS
  <2>1. /\ owner.month = 1 /\ owner.used = 0 /\ month = 1 /\ free = 0
        /\ \A m \in 1 .. Months : spent[m] = 0
    BY DEF Init
  <2>2. ASSUME NEW m \in 1 .. Months
        PROVE  Carriers(m) = {}
    BY IdleTyped DEF Init, Carriers, Ahead, InHands
  <2>3. ASSUME NEW m \in 1 .. Months, Quota > 0
        PROVE  Weight(m) <= Ceiling
    <3>1. Cardinality(Carriers(m)) = 0
      BY <2>2, FS_EmptySet
    <3>2. Cardinality(Carriers(m)) * Largest = 0 /\ Cardinality(Requests) * Largest \in Nat
      BY <3>1, LargestIs, CarriersCount
    <3>3. Quota \in Nat
      BY ServingAssumption DEF ServingAssumption
    <3> QED BY <2>1, <2>3, <3>2, <3>3 DEF Weight, Ceiling
  <2> QED BY <2>1, <2>3, Bounds DEF TrafficInv
<1>2. TypeInv /\ TrafficInv /\ [Next]_vars => TrafficInv'
  <2> SUFFICES ASSUME TypeInv, TrafficInv, [Next]_vars PROVE TrafficInv'
    OBVIOUS
  <2>1. ASSUME NEW r \in Requests, Serve(r) PROVE TrafficInv'
    <3>1. CASE LoadFilePolicy(r) \/ OpenThumb(r) \/ GenerateThumb(r) \/ PutThumb(r)
      BY <3>1, LookingGoesOn, GoOnTraffic
    <3> QED BY <2>1, <3>1, OtherStepsTraffic, CheckBandwidthTraffic, MeterAddTraffic DEF Serve
  <2>2. CASE Crash
    <3>1. \A v \in Requests : GoesOn(v)
      BY <2>2, IdleTyped DEF Crash, GoesOn
    <3> QED BY <2>2, <3>1, GoOnTraffic DEF Crash
  <2>3. CASE NextMonth
    <3>1. UNCHANGED <<req, traffic>> /\ month' = month + 1 /\ month \in Nat
      BY <2>3, MonthBounds DEF NextMonth
    <3>2. \A m \in 1 .. Months : Carriers(m)' \subseteq Carriers(m)
      BY <3>1 DEF Carriers
    <3> QED BY <3>1, <3>2, FewerCarriers
  <2>4. ASSUME UNCHANGED <<req, month, traffic>> PROVE TrafficInv'
    BY <2>4, GoOnTraffic DEF GoesOn
  <2> QED BY <2>1, <2>2, <2>3, <2>4, OutsideLeavesRequests DEF Next, vars
<1> QED BY <1>1, <1>2, ServingTypes, PTL DEF Spec

\* The overrun of the monthly cap is bounded (Check against Add), and the
\* owner's row is what was metered in its month, whatever the quota, the sizes
\* and the number of requests in flight.
THEOREM BandwidthIsBounded == Spec => []BandwidthHolds
<1>1. TypeInv /\ TrafficInv => BandwidthHolds
  <2> SUFFICES ASSUME TypeInv, TrafficInv, ~turned PROVE BandwidthHolds
    BY DEF BandwidthHolds
  <2>1. ASSUME NEW m \in 1 .. Months, Quota > 0
        PROVE  spent[m] <= Quota - 1 + Cardinality(Requests) * Largest + free
    <3>1. Weight(m) <= Ceiling
      BY <2>1 DEF TrafficInv
    <3>2. /\ Cardinality(Carriers(m)) * Largest \in Nat /\ Cardinality(Requests) * Largest \in Nat
          /\ spent[m] \in Nat /\ free \in Nat /\ Quota \in Nat
      BY CarriersCount, LargestIs, TrafficTypes
    <3> QED BY <3>1, <3>2 DEF Weight, Ceiling
  <2> QED BY <2>1 DEF TrafficInv, BandwidthHolds
<1> QED BY <1>1, ServingTypes, TrafficCorrect, PTL

-----------------------------------------------------------------------------
(* Thumbnails of a file that is gone.                                      *)

\* A thumbnail left behind by the deletions of a purge was put there by a
\* request that had read the original before it (the Put of an on-demand
\* thumbnail against purgeOne's delete_file tasks).
THEOREM OnlyRacedThumbsStray == Spec => []StrayThumbsWereRaced
<1>1. Init => StrayThumbsWereRaced
  BY DEF Init, StrayThumbsWereRaced
<1>2. TypeInv /\ StrayThumbsWereRaced /\ [Next]_vars => StrayThumbsWereRaced'
  <2> SUFFICES ASSUME TypeInv, StrayThumbsWereRaced, [Next]_vars PROVE StrayThumbsWereRaced'
    OBVIOUS
  <2>1. ASSUME NEW r \in Requests, PutThumb(r) PROVE StrayThumbsWereRaced'
    BY <2>1 DEF PutThumb, StrayThumbsWereRaced, TypeInv, TypeOK
  <2>2. CASE Purge
    BY <2>2 DEF Purge, DeletedKeys, StrayThumbsWereRaced
  <2>3. ASSUME NEW k \in Kinds, DeleteFile(k) PROVE StrayThumbsWereRaced'
    BY <2>3 DEF DeleteFile, StrayThumbsWereRaced
  <2>4. ASSUME UNCHANGED <<file, store, deletions, raced>> PROVE StrayThumbsWereRaced'
    BY <2>4 DEF StrayThumbsWereRaced
  <2>5. ASSUME NEW r \in Requests, Serve(r) PROVE StrayThumbsWereRaced'
    BY <2>1, <2>4, <2>5 DEF Serve, Find, CheckBandwidth, ClaimView, LoadFilePolicy, OpenThumb,
       GenerateThumb, Send, MeterMonth, MeterAdd, objects
  <2> QED BY <2>2, <2>3, <2>4, <2>5 DEF Next, vars, objects, Crash, SetLimit, Obstruct, Trash,
         NextMonth
<1> QED BY <1>1, <1>2, ServingTypes, PTL DEF Spec

-----------------------------------------------------------------------------
(* The rate limiter.                                                       *)

\* The instances count as everybody does.
LEMMA SameSizes == \A set : C!Cardinality(set) = Cardinality(set) /\ L!Cardinality(set) = Cardinality(set)
BY DEF C!Cardinality, L!Cardinality, Cardinality

-----------------------------------------------------------------------------
\* What was let through of a caller, as far as a window limited it.
Passes == [at: Nat, lim: L!LimitRecords]
InOrder(s) == \A m, n \in DOMAIN s : m < n => s[m].at <= s[n].at
Limited(s, w) == {n \in DOMAIN s : s[n].lim[w] > 0}
Between(s, w, m, n) == {i \in Limited(s, w) : m <= i /\ i <= n}

\* n passed in the window that m opened, which was not full then.
Opens(s, w, m, n) ==
  /\ m \in 1 .. n /\ s[n].at <= s[m].at + L!LengthOf(w)
  /\ Cardinality(Between(s, w, m, n)) <= s[n].lim[w]

\* The windows of those who passed before m were over at a time.
OverBy(s, w, m, time) ==
  \A j \in Limited(s, w) : j < m => \E o \in DOMAIN s : Opens(s, w, o, j) /\ s[o].at + L!LengthOf(w) < time

Windowed(s, w) ==
  \A n \in Limited(s, w) : \E m \in DOMAIN s : Opens(s, w, m, n) /\ OverBy(s, w, m, s[m].at)

\* A window that m opened and that has counted everybody since.
Current(s, w, h, m) ==
  /\ h.reset = s[m].at + L!LengthOf(w) /\ h.count = Cardinality(Between(s, w, m, Len(s)))
  /\ OverBy(s, w, m, s[m].at)
  /\ \A n \in Limited(s, w) : n >= m => Opens(s, w, m, n)

SlotHolds(s, w, h, time) ==
  /\ Windowed(s, w)
  /\ IF h.reset >= time THEN \E m \in DOMAIN s : Current(s, w, h, m)
     ELSE OverBy(s, w, Len(s) + 1, time)

-----------------------------------------------------------------------------
LEMMA LengthsAre ==
  /\ \A w \in L!Windows : L!LengthOf(w) \in Nat
  /\ L!Fixed \in L!LimitRecords /\ L!Unlimited \in L!LimitRecords
<1>1. Len(Lengths) \in Nat \ {0}
  BY LimiterAssumption
<1>2. ASSUME NEW w \in L!Windows PROVE L!LengthOf(w) \in Nat
  BY <1>1, LimiterAssumption DEF L!Windows, L!LengthOf
<1>3. L!Fixed \in L!LimitRecords /\ L!Unlimited \in L!LimitRecords
  BY LimiterAssumption DEF L!Fixed, L!Unlimited, L!LimitRecords
<1> QED BY <1>2, <1>3

LEMMA PassIs ==
  ASSUME NEW s \in Seq(Passes), NEW n \in DOMAIN s
  PROVE  /\ Len(s) \in Nat /\ n \in 1 .. Len(s) /\ s[n].at \in Nat
         /\ \A w \in L!Windows : s[n].lim[w] \in 0 .. MaxLimit
<1>1. s[n] \in Passes /\ Len(s) \in Nat /\ n \in 1 .. Len(s)
  OBVIOUS
<1> QED BY <1>1 DEF Passes, L!LimitRecords

LEMMA FiniteBetween ==
  ASSUME NEW s \in Seq(Passes), NEW w \in L!Windows, NEW S \in SUBSET DOMAIN s
  PROVE  IsFiniteSet(S) /\ Cardinality(S) \in Nat
<1>1. DOMAIN s = 1 .. Len(s) /\ Len(s) \in Nat
  OBVIOUS
<1>2. IsFiniteSet(DOMAIN s)
  BY <1>1, FS_Interval
<1> QED BY <1>2, FS_Subset, FS_CardinalityType

LEMMA Appended ==
  ASSUME NEW s \in Seq(Passes), NEW e \in Passes
  PROVE  LET t == Append(s, e) IN
         /\ t \in Seq(Passes) /\ Len(t) = Len(s) + 1 /\ t[Len(t)] = e
         /\ \A n \in DOMAIN s : n \in DOMAIN t /\ t[n] = s[n] /\ n < Len(t)
         /\ \A n \in DOMAIN t : n \in DOMAIN s \/ n = Len(t)
OBVIOUS

\* Who passes later changes nothing of what was.
LEMMA Before ==
  ASSUME NEW s \in Seq(Passes), NEW e \in Passes, NEW w \in L!Windows
  PROVE  LET t == Append(s, e) IN
         /\ t \in Seq(Passes) /\ Len(t) = Len(s) + 1 /\ t[Len(t)] = e
         /\ \A n \in DOMAIN s : n \in DOMAIN t /\ t[n] = s[n] /\ n < Len(t)
         /\ \A n \in DOMAIN t : n \in DOMAIN s \/ n = Len(t)
         /\ \A m \in Nat, n \in DOMAIN s : Between(t, w, m, n) = Between(s, w, m, n)
         /\ \A m \in Nat, n \in DOMAIN s : Opens(t, w, m, n) <=> Opens(s, w, m, n)
<1> DEFINE t == Append(s, e)
<1>1. /\ t \in Seq(Passes) /\ Len(t) = Len(s) + 1 /\ t[Len(t)] = e
      /\ \A n \in DOMAIN s : n \in DOMAIN t /\ t[n] = s[n] /\ n < Len(t)
      /\ \A n \in DOMAIN t : n \in DOMAIN s \/ n = Len(t)
  OBVIOUS
<1> HIDE DEF t
<1>2. \A n \in DOMAIN s : n \in Limited(t, w) <=> n \in Limited(s, w)
  BY <1>1 DEF Limited
<1>3. ASSUME NEW m \in Nat, NEW n \in DOMAIN s PROVE Between(t, w, m, n) = Between(s, w, m, n)
  <2>1. \A i \in DOMAIN t : i <= n => i \in DOMAIN s
    BY <1>1
  <2> QED BY <2>1, <1>1, <1>2 DEF Between, Limited
<1>4. ASSUME NEW m \in Nat, NEW n \in DOMAIN s PROVE Opens(t, w, m, n) <=> Opens(s, w, m, n)
  <2>1. m \in 1 .. n => m \in DOMAIN s
    OBVIOUS
  <2> QED BY <2>1, <1>1, <1>3 DEF Opens
<1> QED BY <1>1, <1>3, <1>4 DEF t

LEMMA OverBefore ==
  ASSUME NEW s \in Seq(Passes), NEW e \in Passes, NEW w \in L!Windows, NEW m \in 1 .. Len(s) + 1, NEW time \in Int,
         OverBy(s, w, m, time)
  PROVE  OverBy(Append(s, e), w, m, time)
<1> DEFINE t == Append(s, e)
<1>1. ASSUME NEW j \in Limited(t, w), j < m PROVE \E o \in DOMAIN t : Opens(t, w, o, j) /\ t[o].at + L!LengthOf(w) < time
  <2>1. j \in DOMAIN s /\ j \in Limited(s, w)
    BY <1>1, Before DEF Limited
  <2>2. PICK o \in DOMAIN s : Opens(s, w, o, j) /\ s[o].at + L!LengthOf(w) < time
    BY <2>1, <1>1 DEF OverBy
  <2> QED BY <2>1, <2>2, Before
<1> QED BY <1>1 DEF OverBy

LEMMA WindowedBefore ==
  ASSUME NEW s \in Seq(Passes), NEW e \in Passes, NEW w \in L!Windows, Windowed(s, w),
         e.lim[w] = 0 \/ \E m \in DOMAIN Append(s, e) :
           Opens(Append(s, e), w, m, Len(s) + 1) /\ OverBy(Append(s, e), w, m, Append(s, e)[m].at)
  PROVE  Windowed(Append(s, e), w)
<1> DEFINE t == Append(s, e)
<1>1. ASSUME NEW n \in Limited(t, w), n \in DOMAIN s PROVE \E m \in DOMAIN t : Opens(t, w, m, n) /\ OverBy(t, w, m, t[m].at)
  <2>1. n \in Limited(s, w)
    BY <1>1, Before DEF Limited
  <2>2. PICK m \in DOMAIN s : Opens(s, w, m, n) /\ OverBy(s, w, m, s[m].at)
    BY <2>1 DEF Windowed
  <2>3. s[m].at \in Int /\ m \in 1 .. Len(s) + 1 /\ t[m] = s[m]
    BY PassIs
  <2>4. OverBy(t, w, m, s[m].at)
    BY <2>2, <2>3, OverBefore
  <2> QED BY <1>1, <2>2, <2>3, <2>4, Before
<1>2. ASSUME NEW n \in Limited(t, w), n \notin DOMAIN s PROVE \E m \in DOMAIN t : Opens(t, w, m, n) /\ OverBy(t, w, m, t[m].at)
  <2>1. n = Len(s) + 1 /\ t[n] = e /\ e.lim[w] > 0
    BY <1>2, Before DEF Limited
  <2>2. e.lim[w] # 0
    BY <2>1
  <2> QED BY <2>1, <2>2
<1> QED BY <1>1, <1>2 DEF Windowed

-----------------------------------------------------------------------------
\* The five things that happen to a window.
LEMMA NewSlot ==
  ASSUME NEW w \in L!Windows
  PROVE  SlotHolds(<<>>, w, L!NoHits, 0)
BY DEF SlotHolds, Windowed, OverBy, Limited, L!NoHits

LEMMA SweptSlot ==
  ASSUME NEW s, NEW w \in L!Windows, NEW h, NEW time \in Nat, SlotHolds(s, w, h, time), ~(h.reset >= time)
  PROVE  SlotHolds(s, w, L!NoHits, time)
BY DEF SlotHolds, L!NoHits

LEMMA TickedSlot ==
  ASSUME NEW s \in Seq(Passes), NEW w \in L!Windows, NEW h \in [count: Nat, reset: Int], NEW time \in Nat,
         SlotHolds(s, w, h, time), \A n \in DOMAIN s : s[n].at <= time
  PROVE  SlotHolds(s, w, h, time + 1)
<1>1. CASE h.reset >= time + 1
  BY <1>1 DEF SlotHolds
<1>2. CASE ~(h.reset >= time)
  <2>1. \A o \in DOMAIN s : s[o].at + L!LengthOf(w) < time => s[o].at + L!LengthOf(w) < time + 1
    BY PassIs, LengthsAre
  <2> QED BY <1>2, <2>1 DEF SlotHolds, OverBy
<1>3. CASE h.reset = time
  <2>1. PICK m \in DOMAIN s : Current(s, w, h, m)
    BY <1>3 DEF SlotHolds
  <2>2. ASSUME NEW j \in Limited(s, w) PROVE \E o \in DOMAIN s : Opens(s, w, o, j) /\ s[o].at + L!LengthOf(w) < time + 1
    <3>1. CASE j >= m
      BY <1>3, <2>1, <3>1 DEF Current
    <3>2. CASE j < m
      <4>1. PICK o \in DOMAIN s : Opens(s, w, o, j) /\ s[o].at + L!LengthOf(w) < s[m].at
        BY <2>1, <3>2 DEF Current, OverBy
      <4>2. s[m].at <= time /\ s[o].at \in Nat /\ s[m].at \in Nat /\ L!LengthOf(w) \in Nat
        BY PassIs, LengthsAre
      <4> QED BY <4>1, <4>2
    <3> QED BY <3>1, <3>2 DEF Limited
  <2> QED BY <1>3, <2>2 DEF SlotHolds, OverBy
<1> QED BY <1>1, <1>2, <1>3

LEMMA PassedBy ==
  ASSUME NEW s \in Seq(Passes), NEW w \in L!Windows, NEW h \in [count: Nat, reset: Int], NEW e \in Passes,
         SlotHolds(s, w, h, e.at), e.lim[w] = 0
  PROVE  SlotHolds(Append(s, e), w, h, e.at)
<1> DEFINE t == Append(s, e)
<1>0. e.at \in Nat
    BY DEF Passes
<1>1. Windowed(t, w)
  BY WindowedBefore DEF SlotHolds
<1>2. Limited(t, w) = Limited(s, w)
  BY Before DEF Limited
<1>3. CASE h.reset >= e.at
  <2>1. PICK m \in DOMAIN s : Current(s, w, h, m)
    BY <1>3 DEF SlotHolds
  <2>2. m \in DOMAIN t /\ t[m] = s[m] /\ m \in 1 .. Len(s) + 1 /\ s[m].at \in Nat
    BY PassIs, Before
  <2>3. Between(t, w, m, Len(t)) = Between(s, w, m, Len(s))
    BY <1>2, Before DEF Between, Limited
  <2>4. OverBy(t, w, m, t[m].at)
    BY <2>1, <2>2, OverBefore DEF Current
  <2>5. \A n \in Limited(t, w) : n >= m => Opens(t, w, m, n)
    BY <1>2, <2>1, Before DEF Current, Limited
  <2> QED BY <1>1, <1>3, <2>1, <2>2, <2>3, <2>4, <2>5 DEF SlotHolds, Current
<1>4. CASE ~(h.reset >= e.at)
  <2>1. OverBy(t, w, Len(s) + 1, e.at)
    BY <1>0, <1>4, OverBefore DEF SlotHolds
  <2>2. OverBy(t, w, Len(t) + 1, e.at)
    BY <2>1, <1>2, Before DEF OverBy, Limited
  <2> QED BY <1>1, <1>4, <2>2 DEF SlotHolds
<1> QED BY <1>3, <1>4

Counts(h, w, time) ==
  IF h.reset >= time THEN [h EXCEPT !.count = @ + 1] ELSE [count |-> 1, reset |-> time + L!LengthOf(w)]

LEMMA PassedAndCounted ==
  ASSUME NEW s \in Seq(Passes), NEW w \in L!Windows, NEW h \in [count: Nat, reset: Int], NEW e \in Passes,
         SlotHolds(s, w, h, e.at), e.lim[w] > 0, ~(h.reset >= e.at /\ h.count >= e.lim[w]),
         \A n \in DOMAIN s : s[n].at <= e.at
  PROVE  SlotHolds(Append(s, e), w, Counts(h, w, e.at), e.at)
<1> DEFINE t == Append(s, e)
           l == Len(s) + 1
<1>0. /\ e.at \in Nat /\ e.lim[w] \in Nat /\ L!LengthOf(w) \in Nat /\ Len(s) \in Nat /\ l \in DOMAIN t
      /\ Len(t) = l /\ t[l] = e /\ t \in Seq(Passes) /\ l \in Limited(t, w)
  BY LengthsAre, Before, LimiterAssumption DEF Passes, L!LimitRecords, Limited
<1>1. Limited(t, w) = Limited(s, w) \cup {l}
  BY <1>0, Before DEF Limited
<1>2. CASE h.reset >= e.at
  <2>1. PICK m \in DOMAIN s : Current(s, w, h, m)
    BY <1>2 DEF SlotHolds
  <2>2. m \in DOMAIN t /\ t[m] = s[m] /\ m \in 1 .. l /\ m <= l /\ s[m].at \in Nat
    BY PassIs, Before
  <2>3. Between(t, w, m, l) = Between(s, w, m, Len(s)) \cup {l} /\ l \notin Between(s, w, m, Len(s))
    BY <1>0, <1>1, <2>2 DEF Between, Limited
  <2>4. /\ Cardinality(Between(t, w, m, l)) = Cardinality(Between(s, w, m, Len(s))) + 1
        /\ Cardinality(Between(s, w, m, Len(s))) \in Nat
    <3>1. Between(s, w, m, Len(s)) \in SUBSET DOMAIN s
      BY DEF Between, Limited
    <3> QED BY <2>3, <3>1, FiniteBetween, FS_AddElement
  <2>5. OverBy(t, w, m, t[m].at)
    BY <2>1, <2>2, OverBefore DEF Current
  <2>6. Opens(t, w, m, l)
    BY <1>0, <1>2, <2>1, <2>2, <2>4 DEF Opens, Current
  <2>7. \A n \in Limited(t, w) : n >= m => Opens(t, w, m, n)
    <3>1. \A n \in Limited(s, w) : n \in DOMAIN s
      BY DEF Limited
    <3> QED BY <1>1, <2>1, <2>6, <3>1, Before DEF Current
  <2>8. Windowed(t, w)
    BY <2>2, <2>5, <2>6, WindowedBefore DEF SlotHolds
  <2>9. Current(t, w, [h EXCEPT !.count = @ + 1], m)
    BY <1>0, <2>1, <2>2, <2>4, <2>5, <2>7 DEF Current
  <2> QED BY <1>2, <2>2, <2>8, <2>9 DEF SlotHolds, Counts
<1>3. CASE ~(h.reset >= e.at)
  <2>1. OverBy(t, w, l, t[l].at)
    BY <1>0, <1>3, OverBefore DEF SlotHolds
  <2>2. Between(t, w, l, l) = {l}
    BY <1>0 DEF Between, Limited
  <2>3. Cardinality(Between(t, w, l, l)) = 1
    BY <2>2, FS_Singleton
  <2>4. Opens(t, w, l, l)
    BY <1>0, <2>3 DEF Opens
  <2>5. Windowed(t, w)
    BY <1>0, <2>1, <2>4, WindowedBefore DEF SlotHolds
  <2>6. \A n \in Limited(t, w) : n >= l => Opens(t, w, l, n)
    <3>1. \A n \in Limited(t, w) : n >= l => n = l
      BY <1>0 DEF Limited
    <3> QED BY <3>1, <2>4
  <2>7. Current(t, w, Counts(h, w, e.at), l)
    BY <1>0, <1>3, <2>1, <2>3, <2>6 DEF Current, Counts
  <2>8. Counts(h, w, e.at).reset >= e.at
    BY <1>0, <1>3 DEF Counts
  <2> QED BY <1>0, <2>5, <2>7, <2>8 DEF SlotHolds
<1> QED BY <1>2, <1>3

-----------------------------------------------------------------------------
\* A nonempty family of finite subsets of S.
Family(sets, S) == sets \in SUBSET SUBSET S /\ sets # {} /\ \A A \in sets : IsFiniteSet(A)

LEMMA MinimalSubset ==
  ASSUME NEW S, NEW sets, Family(sets, S)
  PROVE  \E A \in sets : \A B \in sets : B \subseteq A => B = A
<1>1. sets \subseteq FiniteSubsetsOf(S) /\ sets # {}
  BY DEF FiniteSubsetsOf, Family
<1>2. \E A \in sets : \A B \in sets : ~(<<B, A>> \in StrictSubsetOrdering(S))
  BY <1>1, FS_StrictSubsetOrderingWellFounded, WFMin, Zenon
<1> QED BY <1>2 DEF Family, StrictSubsetOrdering

\* The least number of a set of natural numbers.
LEMMA NatMin ==
  ASSUME NEW T \in SUBSET Nat, T # {}
  PROVE  \E x \in T : \A y \in T : x <= y
<1> DEFINE D(m) == {k \in T : k <= m}
<1>1. PICK F : F = {D(m) : m \in T}
  OBVIOUS
<1>2. \A A \in F : IsFiniteSet(A)
  BY <1>1, FS_BoundedSetOfNaturals
<1>3. Family(F, Nat)
  BY <1>1, <1>2 DEF Family
<1>4. \E A \in F : \A B \in F : B \subseteq A => B = A
  BY <1>3, MinimalSubset
<1> HIDE DEF D
<1>5. PICK x \in T : \A y \in T : D(y) \subseteq D(x) => D(y) = D(x)
  BY <1>1, <1>4
<1>6. ASSUME NEW y \in T PROVE x <= y
  <2> SUFFICES ASSUME y < x PROVE FALSE
    BY x \in Nat, y \in Nat
  <2>1. D(y) \subseteq D(x)
    <3>1. \A k \in T : k <= y => k <= x
      BY T \subseteq Nat, x \in Nat, y \in Nat
    <3> QED BY <3>1 DEF D
  <2>2. D(y) = D(x)
    BY <1>5, <2>1
  <2>3. x \in D(x) /\ x \notin D(y)
    BY x \in Nat, y \in Nat DEF D
  <2> QED BY <2>2, <2>3
<1> QED BY <1>6

\* Of finitely many numbers one is the last.
LEMMA LastOf ==
  ASSUME NEW n \in Nat, NEW S \in SUBSET (1 .. n), S # {}
  PROVE  \E x \in S : \A y \in S : y <= x
<1> DEFINE T == {n - x : x \in S}
<1>1. T \in SUBSET Nat
  OBVIOUS
<1>5. T # {}
  OBVIOUS
<1>2. PICK t \in T : \A u \in T : t <= u
  BY <1>1, <1>5, NatMin
<1>3. PICK x \in S : t = n - x
  BY <1>2
<1>4. ASSUME NEW y \in S PROVE y <= x
  <2>1. n - y \in T /\ y \in Nat /\ x \in Nat
    OBVIOUS
  <2>2. n - x <= n - y
    BY <1>2, <1>3, <2>1
  <2> QED BY <2>1, <2>2
<1> QED BY <1>3, <1>4

\* Who is refused by a full window saw as many pass in its time.
LEMMA RefusedByFull ==
  ASSUME NEW s \in Seq(Passes), NEW w \in L!Windows, NEW h \in [count: Nat, reset: Int], NEW time \in Nat,
         SlotHolds(s, w, h, time), h.reset >= time, \A n \in DOMAIN s : s[n].at <= time, InOrder(s)
  PROVE  Cardinality({n \in DOMAIN s : s[n].lim[w] > 0 /\ s[n].at \in time - L!LengthOf(w) .. time}) >= h.count
<1> DEFINE R == {n \in DOMAIN s : s[n].lim[w] > 0 /\ s[n].at \in time - L!LengthOf(w) .. time}
<1>1. PICK m \in DOMAIN s : Current(s, w, h, m)
  BY DEF SlotHolds
<1>2. h.reset \in Int /\ L!LengthOf(w) \in Nat /\ s[m].at \in Nat /\ m \in Nat
  BY LengthsAre, PassIs
<1>3. s[m].at >= time - L!LengthOf(w)
  BY <1>1, <1>2 DEF Current
<1>4. ASSUME NEW n \in Between(s, w, m, Len(s)) PROVE n \in R
  <2>1. n \in DOMAIN s /\ s[n].lim[w] > 0 /\ m <= n /\ s[n].at \in Nat /\ n \in Nat
    BY PassIs DEF Between, Limited
  <2>2. s[m].at <= s[n].at
    BY <2>1, <1>2 DEF InOrder
  <2> QED BY <2>1, <2>2, <1>2, <1>3
<1>5. IsFiniteSet(R)
  BY FiniteBetween
<1>6. Cardinality(Between(s, w, m, Len(s))) <= Cardinality(R)
  BY <1>4, <1>5, FS_Subset
<1>7. Cardinality(R) \in Nat /\ h.count \in Nat
  BY <1>5, FS_CardinalityType
<1> QED BY <1>1, <1>6, <1>7 DEF Current

\* In a stretch as long as a window come two windows at most, and of each no
\* more than the last of them was allowed.
LEMMA TwoWindows ==
  ASSUME NEW s \in Seq(Passes), NEW w \in L!Windows, Windowed(s, w), InOrder(s), NEW from \in Nat,
         NEW great \in Nat,
         \A n \in Limited(s, w) : s[n].at \in from .. from + L!LengthOf(w) => s[n].lim[w] <= great
  PROVE  Cardinality({n \in DOMAIN s : s[n].lim[w] > 0 /\ s[n].at \in from .. from + L!LengthOf(w)}) <= 2 * great
<1> DEFINE R == {n \in DOMAIN s : s[n].lim[w] > 0 /\ s[n].at \in from .. from + L!LengthOf(w)}
<1>1. L!LengthOf(w) \in Nat /\ IsFiniteSet(R) /\ R \subseteq Limited(s, w) /\ R \subseteq 1 .. Len(s) /\ Len(s) \in Nat
  BY LengthsAre, FiniteBetween DEF Limited
<1>2. ASSUME NEW S \in SUBSET R, S # {} PROVE \E n \in S : \A j \in S : j <= n
  BY <1>1, <1>2, LastOf
<1>3. ASSUME NEW n \in R, NEW m \in DOMAIN s, Opens(s, w, m, n),
             NEW S \in SUBSET R, \A j \in S : m <= j /\ j <= n
      PROVE  Cardinality(S) \in Nat /\ Cardinality(S) <= great
  <2>1. S \subseteq Between(s, w, m, n) /\ Between(s, w, m, n) \in SUBSET DOMAIN s
    BY <1>1, <1>3 DEF Between, Limited
  <2>2. IsFiniteSet(Between(s, w, m, n)) /\ Cardinality(Between(s, w, m, n)) \in Nat
    BY <2>1, FiniteBetween
  <2>3. Cardinality(S) <= Cardinality(Between(s, w, m, n)) /\ Cardinality(S) \in Nat
    BY <2>1, <2>2, FS_Subset, FS_CardinalityType
  <2>4. s[n].lim[w] <= great /\ s[n].lim[w] \in Nat
    BY <1>1, PassIs
  <2> QED BY <1>3, <2>2, <2>3, <2>4 DEF Opens
<1>4. ASSUME R = {} PROVE Cardinality(R) <= 2 * great
  <2>1. Cardinality(R) = 0
    <3> HIDE DEF R
    <3> QED BY <1>4, FS_EmptySet
  <2> QED BY <2>1
<1>5. CASE R # {}
  <2>1. PICK n \in R : \A j \in R : j <= n
    BY <1>2, <1>5
  <2>2. PICK m \in DOMAIN s : Opens(s, w, m, n) /\ OverBy(s, w, m, s[m].at)
    BY <1>1, <2>1 DEF Windowed
  <2> DEFINE A == {j \in R : m <= j}
             B == {j \in R : j < m}
  <2>3. Cardinality(A) \in Nat /\ Cardinality(A) <= great
    BY <2>1, <2>2, <1>3
  <2>4. Cardinality(B) \in Nat /\ Cardinality(B) <= great
    <3>1. ASSUME B = {} PROVE Cardinality(B) = 0
      <4> HIDE DEF B
      <4> QED BY <3>1, FS_EmptySet
    <3>2. CASE B # {}
      <4>1. PICK p \in B : \A j \in B : j <= p
        BY <1>2, <3>2
      <4>2. PICK o \in DOMAIN s : Opens(s, w, o, p) /\ s[o].at + L!LengthOf(w) < s[m].at
        BY <1>1, <2>2, <4>1 DEF OverBy
      <4>3. ASSUME NEW j \in B PROVE o <= j
        <5>1. SUFFICES ASSUME j < o PROVE FALSE
          BY <1>1
        <5>2. s[j].at <= s[o].at /\ s[j].at >= from /\ s[n].at <= from + L!LengthOf(w) /\ s[m].at <= s[n].at
          <6>1. m <= n /\ m \in DOMAIN s /\ n \in DOMAIN s
            BY <2>1, <2>2 DEF Opens
          <6>2. m = n \/ m < n
            BY <6>1
          <6>3. s[m].at <= s[n].at
            BY <6>1, <6>2, PassIs DEF InOrder
          <6> QED BY <5>1, <6>3, <2>1 DEF InOrder
        <5>3. s[j].at \in Nat /\ s[o].at \in Nat /\ s[n].at \in Nat /\ s[m].at \in Nat
          BY <2>1, PassIs
        <5>4. L!LengthOf(w) \in Nat /\ from \in Nat
          BY <1>1, LengthsAre
        <5>5. ASSUME NEW first \in Nat, NEW opened \in Nat, NEW next \in Nat, NEW last \in Nat, NEW l \in Nat,
                     first <= opened, first >= from, last <= from + l, next <= last
              PROVE  ~ (opened + l < next)
          BY <5>4, <5>5
        <5> QED BY <4>2, <5>2, <5>3, <5>4, <5>5
      <4> QED BY <1>3, <4>1, <4>2, <4>3
    <3> QED BY <3>1, <3>2
  <2>5. Cardinality(R) <= Cardinality(A) + Cardinality(B)
    <3>1. R = A \cup B /\ A \cap B = {} /\ IsFiniteSet(A) /\ IsFiniteSet(B)
      BY <1>1, FS_Subset
    <3>2. Cardinality(R) = Cardinality(A) + Cardinality(B) - Cardinality(A \cap B)
      <4> HIDE DEF R, A, B
      <4> QED BY <3>1, FS_Union
    <3>3. Cardinality(A \cap B) = 0
      <4> HIDE DEF A, B
      <4> QED BY <3>1, FS_EmptySet
    <3> QED BY <3>2, <3>3, <2>3, <2>4
  <2> QED BY <2>3, <2>4, <2>5, FS_CardinalityType, <1>1
<1> QED BY <1>4, <1>5

-----------------------------------------------------------------------------
\* Every window of every caller, and the history, in order.
SlotRecords == [count: Nat, reset: Int]

RatesTyped ==
  /\ hits \in [L!Slots -> SlotRecords] /\ \A k \in L!Slots : hits[k].reset \in -1 .. MaxTicks + L!LengthOf(k[2])
  /\ group \in L!LimitRecords /\ asked \in [Callers -> L!LimitRecords]
  /\ clock \in 0 .. MaxTicks /\ turns \in 0 .. MaxTurns
  /\ log \in [Callers -> Seq(Passes)]

LogHolds == \A c \in Callers : InOrder(log[c]) /\ \A n \in DOMAIN log[c] : log[c][n].at <= clock
SlotsHold == \A c \in Callers, w \in L!Windows : SlotHolds(log[c], w, hits[<<c, w>>], clock)

RateInv == RatesTyped /\ LogHolds /\ SlotsHold /\ unjust = FALSE

LEMMA SlotsAre ==
  /\ L!NoHits \in SlotRecords /\ L!NoHits.reset = -1
  /\ \A k \in L!Slots : k[1] \in Callers /\ k[2] \in L!Windows /\ k = <<k[1], k[2]>> /\ L!LengthOf(k[2]) \in Nat
  /\ \A c \in Callers, w \in L!Windows : <<c, w>> \in L!Slots
BY LengthsAre DEF L!Slots, L!NoHits, SlotRecords

LEMMA SweepKeeps ==
  ASSUME RateInv
  PROVE  LET kept == L!Swept(hits) IN
         /\ kept \in [L!Slots -> SlotRecords] /\ \A k \in L!Slots : kept[k].reset \in -1 .. MaxTicks + L!LengthOf(k[2])
         /\ \A c \in Callers, w \in L!Windows : SlotHolds(log[c], w, kept[<<c, w>>], clock)
<1>1. CASE L!Kept(hits) >= Threshold
  <2>1. L!Swept(hits) = [k \in L!Slots |-> IF L!InForce(hits, k) THEN hits[k] ELSE L!NoHits]
    BY <1>1 DEF L!Swept
  <2>2. ASSUME NEW k \in L!Slots PROVE L!Swept(hits)[k] \in SlotRecords /\ L!Swept(hits)[k].reset \in -1 .. MaxTicks + L!LengthOf(k[2])
    <3>1. -1 \in -1 .. MaxTicks + L!LengthOf(k[2])
      BY LimiterAssumption, SlotsAre
    <3> QED BY <2>1, <3>1, SlotsAre DEF RateInv, RatesTyped
  <2>3. ASSUME NEW c \in Callers, NEW w \in L!Windows PROVE SlotHolds(log[c], w, L!Swept(hits)[<<c, w>>], clock)
    <3>1. <<c, w>> \in L!Slots /\ clock \in Nat /\ SlotHolds(log[c], w, hits[<<c, w>>], clock)
      BY SlotsAre DEF RateInv, RatesTyped, SlotsHold
    <3> QED BY <2>1, <3>1, SweptSlot DEF L!InForce
  <2> QED BY <2>1, <2>2, <2>3
<1>2. CASE ~(L!Kept(hits) >= Threshold)
  BY <1>2 DEF L!Swept, RateInv, RatesTyped, SlotsHold
<1> QED BY <1>1, <1>2

\* What AllowN makes of a window.
LEMMA AllowNIs ==
  ASSUME NEW c \in Callers, NEW lim \in L!LimitRecords, NEW kept \in [L!Slots -> SlotRecords],
         \A w \in L!Windows : ~L!Full(kept, c, lim, w)
  PROVE  /\ L!AllowN(c, lim, kept) = [k \in L!Slots |-> IF k[1] = c /\ lim[k[2]] > 0 THEN Counts(kept[k], k[2], clock) ELSE kept[k]]
         /\ \A w \in L!Windows : lim[w] > 0 => ~(kept[<<c, w>>].reset >= clock /\ kept[<<c, w>>].count >= lim[w])
<1>1. ASSUME NEW k \in L!Slots, k[1] = c PROVE L!Counted(kept, c, k[2])[k] = Counts(kept[k], k[2], clock)
  <2>1. k = <<c, k[2]>>
    BY <1>1, SlotsAre
  <2> DEFINE i == k
  <2>2. L!Counted(kept, c, k[2]) = IF L!InForce(kept, k) THEN [kept EXCEPT ![k].count = @ + 1]
                                 ELSE [kept EXCEPT ![k] = [count |-> 1, reset |-> clock + L!LengthOf(k[2])]]
    BY <2>1, Zenon DEF L!Counted
  <2>3. L!InForce(kept, k) = (kept[k].reset >= clock)
    BY DEF L!InForce
  <2> QED BY <2>2, <2>3 DEF Counts
<1>2. L!AllowN(c, lim, kept) = L!AllCounted(kept, c, {w \in L!Windows : lim[w] > 0})
  BY DEF L!AllowN
<1>3. \A k \in L!Slots : (k[1] = c /\ k[2] \in {w \in L!Windows : lim[w] > 0}) <=> (k[1] = c /\ lim[k[2]] > 0)
  BY SlotsAre
<1> QED BY <1>1, <1>2, <1>3 DEF L!AllCounted, L!Full, L!InForce

LEMMA LimitKeeps ==
  ASSUME RateInv, NEW c \in Callers, NEW lim \in L!LimitRecords, L!Limit(c, lim), clock' = clock
  PROVE  /\ hits' \in [L!Slots -> SlotRecords] /\ \A k \in L!Slots : hits'[k].reset \in -1 .. MaxTicks + L!LengthOf(k[2])
         /\ log' \in [Callers -> Seq(Passes)] /\ LogHolds' /\ SlotsHold' /\ unjust' = FALSE
<1> DEFINE kept == L!Swept(hits)
<1>1. /\ kept \in [L!Slots -> SlotRecords] /\ \A k \in L!Slots : kept[k].reset \in -1 .. MaxTicks + L!LengthOf(k[2])
      /\ \A d \in Callers, w \in L!Windows : SlotHolds(log[d], w, kept[<<d, w>>], clock)
  BY SweepKeeps
<1>2. /\ log \in [Callers -> Seq(Passes)] /\ LogHolds /\ clock \in 0 .. MaxTicks /\ clock \in Nat /\ unjust = FALSE /\ MaxTicks \in Nat
  BY LimiterAssumption DEF RateInv, RatesTyped
<1> HIDE DEF kept
<1>3. CASE \E w \in L!Windows : L!Full(kept, c, lim, w)
  <2>1. hits' = kept /\ log' = log
    BY <1>3 DEF L!Limit, L!AllowN, kept
  <2>2. SlotsHold' /\ LogHolds'
    BY <1>1, <1>2, <2>1 DEF SlotsHold, LogHolds
  <2>3. unjust' = (unjust \/ \A w \in L!Windows :
                 lim[w] = 0 \/ Cardinality(L!Recent(c, w, clock - L!LengthOf(w), clock)) < lim[w])
    BY SameSizes, <1>3 DEF L!Limit, kept
  <2>4. PICK w \in L!Windows : L!Full(kept, c, lim, w)
    BY <1>3
  <2>5. kept[<<c, w>>] \in SlotRecords /\ SlotHolds(log[c], w, kept[<<c, w>>], clock)
    BY <1>1, SlotsAre
  <2>6. kept[<<c, w>>].reset >= clock /\ kept[<<c, w>>].count >= lim[w] /\ lim[w] > 0
    BY <2>4 DEF L!Full, L!InForce
  <2>7. Cardinality(L!Recent(c, w, clock - L!LengthOf(w), clock)) >= kept[<<c, w>>].count
    <3>1. L!Recent(c, w, clock - L!LengthOf(w), clock)
            = {n \in DOMAIN log[c] : log[c][n].lim[w] > 0 /\ log[c][n].at \in clock - L!LengthOf(w) .. clock}
      BY DEF L!Recent
    <3>2. log[c] \in Seq(Passes) /\ InOrder(log[c]) /\ \A n \in DOMAIN log[c] : log[c][n].at <= clock
      BY <1>2 DEF LogHolds
    <3> DEFINE h == kept[<<c, w>>]
    <3>3. h \in [count: Nat, reset: Int] /\ h.reset >= clock /\ SlotHolds(log[c], w, h, clock)
      BY <2>5, <2>6 DEF SlotRecords
    <3> HIDE DEF h
    <3>4. Cardinality({n \in DOMAIN log[c] : log[c][n].lim[w] > 0 /\ log[c][n].at \in clock - L!LengthOf(w) .. clock}) >= h.count
      BY <1>2, <3>2, <3>3, RefusedByFull
    <3> QED BY <3>1, <3>4 DEF h
  <2>8. /\ kept[<<c, w>>].count \in Nat /\ lim[w] \in Nat
        /\ Cardinality(L!Recent(c, w, clock - L!LengthOf(w), clock)) \in Nat
    <3>1. log[c] \in Seq(Passes) /\ L!Recent(c, w, clock - L!LengthOf(w), clock) \in SUBSET DOMAIN log[c]
      BY <1>2 DEF L!Recent
    <3> QED BY <2>5, <3>1, FiniteBetween, LimiterAssumption DEF SlotRecords, L!LimitRecords
  <2>9. unjust' = FALSE
    <3> DEFINE seen == Cardinality(L!Recent(c, w, clock - L!LengthOf(w), clock))
    <3>1. ~(lim[w] = 0 \/ seen < lim[w])
      <4> HIDE DEF seen
      <4>1. seen \in Nat /\ seen >= kept[<<c, w>>].count
        BY <2>7, <2>8 DEF seen
      <4> QED BY <2>6, <2>8, <4>1
    <3> QED BY <1>2, <2>3, <3>1
  <2> QED BY <1>1, <1>2, <2>1, <2>2, <2>9
<1>4. CASE \A w \in L!Windows : ~L!Full(kept, c, lim, w)
  <2> DEFINE e == [at |-> clock, lim |-> lim]
  <2>1. hits' = L!AllowN(c, lim, kept) /\ log' = [log EXCEPT ![c] = Append(@, e)] /\ unjust' = unjust
    BY SameSizes, <1>4 DEF L!Limit, kept
  <2>2. e \in Passes /\ e.at = clock /\ e.lim = lim
    BY <1>2 DEF Passes
  <2> HIDE DEF e
  <2>3. hits' = [k \in L!Slots |-> IF k[1] = c /\ lim[k[2]] > 0 THEN Counts(kept[k], k[2], clock) ELSE kept[k]]
    BY <1>1, <1>4, <2>1, AllowNIs
  <2>4. \A w \in L!Windows : lim[w] > 0 => ~(kept[<<c, w>>].reset >= clock /\ kept[<<c, w>>].count >= lim[w])
    BY <1>1, <1>4, AllowNIs
  <2>5. ASSUME NEW k \in L!Slots PROVE hits'[k] \in SlotRecords /\ hits'[k].reset \in -1 .. MaxTicks + L!LengthOf(k[2])
    <3>1. kept[k] \in SlotRecords /\ L!LengthOf(k[2]) \in Nat /\ kept[k].reset \in -1 .. MaxTicks + L!LengthOf(k[2])
      BY <1>1, SlotsAre
    <3>2. Counts(kept[k], k[2], clock) \in SlotRecords /\ Counts(kept[k], k[2], clock).reset \in -1 .. MaxTicks + L!LengthOf(k[2])
      <4>1. CASE kept[k].reset >= clock
        BY <3>1, <4>1 DEF Counts, SlotRecords
      <4>2. CASE ~(kept[k].reset >= clock)
        <5>1. Counts(kept[k], k[2], clock) = [count |-> 1, reset |-> clock + L!LengthOf(k[2])]
          BY <4>2 DEF Counts
        <5>2. clock + L!LengthOf(k[2]) \in -1 .. MaxTicks + L!LengthOf(k[2])
          BY <1>2, <3>1
        <5> QED BY <5>1, <5>2 DEF SlotRecords
      <4> QED BY <4>1, <4>2
    <3> QED BY <2>3, <3>1, <3>2
  <2>6. log' \in [Callers -> Seq(Passes)]
    BY <1>2, <2>1, <2>2
  <2>7. LogHolds'
    <3>1. ASSUME NEW d \in Callers PROVE InOrder(log'[d]) /\ \A n \in DOMAIN log'[d] : log'[d][n].at <= clock
      <4>1. CASE d # c
        BY <1>2, <2>1, <4>1 DEF LogHolds
      <4>2. CASE d = c
        <5>1. log'[d] = Append(log[c], e) /\ log[c] \in Seq(Passes)
          BY <1>2, <2>1, <4>2
        <5>2. InOrder(log[c]) /\ \A n \in DOMAIN log[c] : log[c][n].at <= clock
          BY <1>2 DEF LogHolds
        <5>3. \A n \in DOMAIN log'[d] : (n \in DOMAIN log[c] /\ log'[d][n] = log[c][n]) \/ log'[d][n] = e
          BY <2>2, <5>1, Appended
        <5>4. \A n \in DOMAIN log'[d] : log'[d][n].at <= clock
          <6>1. SUFFICES ASSUME NEW n \in DOMAIN log'[d] PROVE log'[d][n].at <= clock
            OBVIOUS
          <6>2. CASE n \in DOMAIN log[c] /\ log'[d][n] = log[c][n]
            BY <5>2, <6>2
          <6>3. CASE log'[d][n] = e
            BY <1>2, <2>2, <6>3
          <6> QED BY <5>3, <6>2, <6>3
        <5>5. ASSUME NEW m \in DOMAIN log'[d], NEW n \in DOMAIN log'[d], m < n PROVE log'[d][m].at <= log'[d][n].at
          <6>1. CASE n \in DOMAIN log[c] /\ log'[d][n] = log[c][n]
            BY <5>1, <5>2, <5>3, <5>5, <6>1 DEF InOrder
          <6>2. CASE log'[d][n] = e
            BY <2>2, <5>4, <6>2
          <6> QED BY <5>3, <6>1, <6>2
        <5> QED BY <5>4, <5>5 DEF InOrder
      <4> QED BY <4>1, <4>2
    <3> QED BY <3>1 DEF LogHolds
  <2>8. SlotsHold'
    <3>1. ASSUME NEW d \in Callers, NEW w \in L!Windows PROVE SlotHolds(log'[d], w, hits'[<<d, w>>], clock)
      <4>1. <<d, w>> \in L!Slots /\ SlotHolds(log[d], w, kept[<<d, w>>], clock) /\ kept[<<d, w>>] \in SlotRecords
        BY <1>1, SlotsAre
      <4>2. CASE d # c
        <5>1. log'[d] = log[d] /\ hits'[<<d, w>>] = kept[<<d, w>>]
          BY <1>2, <2>1, <2>3, <4>1, <4>2
        <5> QED BY <4>1, <5>1
      <4>3. CASE d = c
        <5>1. log'[d] = Append(log[c], e) /\ log[c] \in Seq(Passes) /\ \A n \in DOMAIN log[c] : log[c][n].at <= clock
          BY <1>2, <2>1, <4>3 DEF LogHolds
        <5>2. CASE lim[w] > 0
          <6>1. hits'[<<d, w>>] = Counts(kept[<<d, w>>], w, clock)
            BY <2>3, <4>1, <4>3, <5>2
          <6> QED BY <2>2, <2>4, <4>1, <4>3, <5>1, <5>2, <6>1, PassedAndCounted DEF SlotRecords
        <5>3. CASE lim[w] = 0
          <6>1. hits'[<<d, w>>] = kept[<<d, w>>]
            BY <2>3, <4>1, <4>3, <5>3
          <6> QED BY <2>2, <4>1, <4>3, <5>1, <5>3, <6>1, PassedBy DEF SlotRecords
        <5> QED BY <5>2, <5>3 DEF L!LimitRecords
      <4> QED BY <4>2, <4>3
    <3> QED BY <3>1 DEF SlotsHold
  <2>9. hits' \in [L!Slots -> SlotRecords]
    BY <2>3, <2>5
  <2> QED BY <1>2, <2>1, <2>5, <2>6, <2>7, <2>8, <2>9
<1> QED BY <1>3, <1>4

LEMMA ElapseKeeps ==
  ASSUME RateInv, L!Elapse
  PROVE  RateInv'
<1>1. clock' \in 0 .. MaxTicks /\ clock' = clock + 1 /\ clock \in Nat
  BY LimiterAssumption DEF RateInv, RatesTyped, L!Elapse
<1>2. RatesTyped'
  BY <1>1 DEF RateInv, RatesTyped, L!Elapse
<1>3. LogHolds'
  <2>1. ASSUME NEW c \in Callers, NEW n \in DOMAIN log[c] PROVE log[c][n].at <= clock + 1
    <3>1. log[c][n].at \in Nat /\ log[c][n].at <= clock
      BY PassIs DEF RateInv, RatesTyped, LogHolds
    <3> QED BY <1>1, <3>1
  <2> QED BY <1>1, <2>1 DEF RateInv, LogHolds, L!Elapse
<1>4. SlotsHold'
  <2>1. ASSUME NEW c \in Callers, NEW w \in L!Windows PROVE SlotHolds(log[c], w, hits[<<c, w>>], clock + 1)
    <3>1. log[c] \in Seq(Passes) /\ hits[<<c, w>>] \in SlotRecords /\ SlotHolds(log[c], w, hits[<<c, w>>], clock)
      BY SlotsAre DEF RateInv, RatesTyped, SlotsHold
    <3>2. \A n \in DOMAIN log[c] : log[c][n].at <= clock
      BY DEF RateInv, LogHolds
    <3> QED BY <1>1, <3>1, <3>2, TickedSlot DEF SlotRecords
  <2> QED BY <1>1, <2>1 DEF SlotsHold, L!Elapse
<1> QED BY <1>2, <1>3, <1>4 DEF RateInv, L!Elapse

LEMMA RateInit == L!Init => RateInv
<1> SUFFICES ASSUME L!Init PROVE RateInv
  OBVIOUS
<1>1. \A c \in Callers : log[c] = <<>>
  BY DEF L!Init
<1>2. RatesTyped
  BY LimiterAssumption, SlotsAre, LengthsAre DEF RatesTyped, L!Init
<1>3. LogHolds
  BY <1>1 DEF LogHolds, InOrder
<1>4. SlotsHold
  BY <1>1, SlotsAre, NewSlot DEF SlotsHold, L!Init
<1> QED BY <1>2, <1>3, <1>4 DEF RateInv, L!Init

LEMMA RateStep == RateInv /\ [L!Next]_(L!rates) => RateInv'
<1> SUFFICES ASSUME RateInv, [L!Next]_(L!rates) PROVE RateInv'
  OBVIOUS
<1>1. ASSUME NEW c \in Callers, L!Middleware(c) PROVE RateInv'
  BY <1>1, LimitKeeps, LengthsAre DEF L!Middleware, RateInv, RatesTyped
<1>2. ASSUME NEW c \in Callers, L!ReadGroup(c) PROVE RateInv'
  BY <1>2 DEF L!ReadGroup, RateInv, RatesTyped, LogHolds, SlotsHold
<1>3. ASSUME NEW c \in Callers, L!GroupMiddleware(c) PROVE RateInv'
  <2>1. asked[c] \in L!LimitRecords
    BY DEF RateInv, RatesTyped
  <2> QED BY <1>3, <2>1, LimitKeeps, LengthsAre DEF L!GroupMiddleware, RateInv, RatesTyped
<1>4. CASE L!ChangeGroup
  BY <1>4, LimiterAssumption DEF L!ChangeGroup, RateInv, RatesTyped, LogHolds, SlotsHold
<1>5. CASE UNCHANGED L!rates
  BY <1>5 DEF L!rates, RateInv, RatesTyped, LogHolds, SlotsHold
<1> QED BY <1>1, <1>2, <1>3, <1>4, <1>5, ElapseKeeps DEF L!Next

LEMMA RateTypes == RateInv => L!TypeOK
BY DEF RateInv, RatesTyped, SlotRecords, L!TypeOK

LEMMA GreatestIs ==
  ASSUME NEW c \in Callers, log[c] \in Seq(Passes), NEW w \in L!Windows, NEW S \in SUBSET DOMAIN log[c]
  PROVE  L!Greatest(c, S, w) \in Nat /\ \A n \in S : log[c][n].lim[w] <= L!Greatest(c, S, w)
<1>1. CASE S = {}
  BY <1>1 DEF L!Greatest
<1>2. CASE S # {}
  <2> DEFINE T == {log[c][n].lim[w] + 1 : n \in S}
  <2>1. \A n \in S : log[c][n].lim[w] \in 0 .. MaxLimit
    BY PassIs
  <2>2. T \in SUBSET (1 .. MaxLimit + 1) /\ MaxLimit + 1 \in Nat
    <3>1. MaxLimit \in Nat
      BY LimiterAssumption
    <3>2. \A l \in 0 .. MaxLimit : l + 1 \in 1 .. MaxLimit + 1
      BY <3>1
    <3> QED BY <2>1, <3>1, <3>2
  <2>3. T # {}
    BY <1>2
  <2>4. PICK x \in T : \A y \in T : y <= x
    BY <2>2, <2>3, LastOf
  <2>5. PICK m \in S : x = log[c][m].lim[w] + 1
    BY <2>4
  <2>6. ASSUME NEW n \in S PROVE log[c][n].lim[w] <= log[c][m].lim[w]
    <3>1. log[c][n].lim[w] + 1 \in T
      OBVIOUS
    <3>2. log[c][n].lim[w] + 1 <= log[c][m].lim[w] + 1
      <4> HIDE DEF T
      <4> QED BY <2>4, <2>5, <3>1
    <3>3. log[c][n].lim[w] \in Int /\ log[c][m].lim[w] \in Int
      BY <2>1
    <3> QED BY <3>2, <3>3
  <2>7. \E l \in 0 .. MaxLimit : (\E n \in S : log[c][n].lim[w] = l) /\ \A n \in S : log[c][n].lim[w] <= l
    BY <2>1, <2>6
  <2>8. L!Greatest(c, S, w) = CHOOSE l \in 0 .. MaxLimit : (\E n \in S : log[c][n].lim[w] = l) /\ \A n \in S : log[c][n].lim[w] <= l
    BY <1>2 DEF L!Greatest
  <2>9. L!Greatest(c, S, w) \in 0 .. MaxLimit /\ \A n \in S : log[c][n].lim[w] <= L!Greatest(c, S, w)
    <3> DEFINE P(l) == (\E n \in S : log[c][n].lim[w] = l) /\ \A n \in S : log[c][n].lim[w] <= l
    <3>1. (\E l \in 0 .. MaxLimit : P(l)) /\ L!Greatest(c, S, w) = CHOOSE l \in 0 .. MaxLimit : P(l)
      BY <2>7, <2>8
    <3>2. L!Greatest(c, S, w) \in 0 .. MaxLimit /\ P(L!Greatest(c, S, w))
      <4> HIDE DEF P
      <4> QED BY <3>1
    <3> QED BY <3>2
  <2> QED BY <2>9
<1> QED BY <1>1, <1>2

LEMMA RateHolds == RateInv => L!LimitsHold
<1> SUFFICES ASSUME RateInv, NEW c \in Callers, NEW w \in L!Windows, NEW from \in 0 .. clock
    PROVE  LET ns == L!Recent(c, w, from, from + L!LengthOf(w)) IN Cardinality(ns) <= 2 * L!Greatest(c, ns, w)
  BY SameSizes DEF L!LimitsHold, RateInv
<1> DEFINE ns == L!Recent(c, w, from, from + L!LengthOf(w))
<1>1. log[c] \in Seq(Passes) /\ Windowed(log[c], w) /\ InOrder(log[c]) /\ from \in Nat
  <2>1. SlotHolds(log[c], w, hits[<<c, w>>], clock) /\ log[c] \in Seq(Passes) /\ InOrder(log[c])
    BY DEF RateInv, RatesTyped, SlotsHold, LogHolds
  <2> QED BY <2>1, LimiterAssumption DEF SlotHolds, RateInv, RatesTyped
<1>2. ns = {n \in DOMAIN log[c] : log[c][n].lim[w] > 0 /\ log[c][n].at \in from .. from + L!LengthOf(w)}
  BY DEF L!Recent
<1>3. L!Greatest(c, ns, w) \in Nat /\ \A n \in ns : log[c][n].lim[w] <= L!Greatest(c, ns, w)
  BY <1>1, <1>2, GreatestIs
<1>4. \A n \in Limited(log[c], w) : log[c][n].at \in from .. from + L!LengthOf(w) => log[c][n].lim[w] <= L!Greatest(c, ns, w)
  BY <1>2, <1>3 DEF Limited
<1> QED
  <2> DEFINE great == L!Greatest(c, ns, w)
  <2>1. great \in Nat /\ \A n \in Limited(log[c], w) : log[c][n].at \in from .. from + L!LengthOf(w) => log[c][n].lim[w] <= great
    BY <1>3, <1>4
  <2> HIDE DEF great
  <2>2. Cardinality({n \in DOMAIN log[c] : log[c][n].lim[w] > 0 /\ log[c][n].at \in from .. from + L!LengthOf(w)}) <= 2 * great
    BY <1>1, <2>1, TwoWindows
  <2> QED BY <1>2, <2>2 DEF great

-----------------------------------------------------------------------------
(* The serve cache.                                                        *)

-----------------------------------------------------------------------------
\* Sizes.

LEMMA BytesAre ==
  ASSUME NEW set \in SUBSET Keys
  PROVE  IsFiniteSet(C!BytesOf(set)) /\ C!TotalSize(set) \in Nat
<1> DEFINE parts == {{k} \X (1 .. SizeOf[k]) : k \in set}
<1>1. IsFiniteSet(parts)
  <2>1. IsFiniteSet(set)
    BY CacheAssumption, FS_Subset
  <2>2. [k \in set |-> {k} \X (1 .. SizeOf[k])] \in Surjection(set, parts)
    BY DEF Surjection
  <2> HIDE DEF parts
  <2> QED BY <2>1, <2>2, FS_Surjection
<1>2. \A b \in parts : IsFiniteSet(b)
  <2>1. SUFFICES ASSUME NEW k \in set PROVE IsFiniteSet({k} \X (1 .. SizeOf[k]))
    OBVIOUS
  <2>2. IsFiniteSet({k}) /\ IsFiniteSet(1 .. SizeOf[k])
    <3>1. IsFiniteSet({k})
      BY FS_Singleton, Zenon
    <3>2. SizeOf[k] \in Int /\ 1 \in Int
      BY CacheAssumption
    <3> QED BY <3>1, <3>2, FS_Interval, Zenon
  <2> QED BY <2>2, FS_Product
<1>3. IsFiniteSet(UNION parts)
  <2> HIDE DEF parts
  <2> QED BY <1>1, <1>2, FS_UNION
<1> QED BY SameSizes, <1>3, FS_CardinalityType DEF C!BytesOf, C!TotalSize

LEMMA SizeOfFewer ==
  ASSUME NEW set \in SUBSET Keys, NEW fewer \in SUBSET set
  PROVE  C!TotalSize(fewer) <= C!TotalSize(set) /\ Cardinality(fewer) <= Cardinality(set)
<1>1. C!BytesOf(fewer) \subseteq C!BytesOf(set)
  BY DEF C!BytesOf
<1>2. IsFiniteSet(set)
  BY CacheAssumption, FS_Subset
<1> QED BY SameSizes, <1>1, <1>2, BytesAre, FS_Subset DEF C!TotalSize

LEMMA SizeOfMore ==
  ASSUME NEW set \in SUBSET Keys, NEW k \in Keys
  PROVE  C!TotalSize(set \cup {k}) <= C!TotalSize(set) + SizeOf[k]
<1> DEFINE own == {k} \X (1 .. SizeOf[k])
<1>1. C!BytesOf(set \cup {k}) = C!BytesOf(set) \cup own
  BY DEF C!BytesOf
<1>2. IsFiniteSet(own) /\ Cardinality(own) = SizeOf[k]
  <2>1. SizeOf[k] \in Nat
    BY CacheAssumption
  <2>2. IsFiniteSet({k}) /\ Cardinality({k}) = 1
    BY FS_Singleton
  <2>3. IsFiniteSet(1 .. SizeOf[k]) /\ Cardinality(1 .. SizeOf[k]) = SizeOf[k]
    <3>1. IsFiniteSet(1 .. SizeOf[k]) /\ Cardinality(1 .. SizeOf[k]) = IF 1 > SizeOf[k] THEN 0 ELSE SizeOf[k] - 1 + 1
      <4>1. SizeOf[k] \in Int /\ 1 \in Int
        BY <2>1
      <4> QED BY <4>1, FS_Interval, Zenon
    <3> QED BY <2>1, <3>1
  <2>4. IsFiniteSet(own) /\ Cardinality(own) = Cardinality({k}) * Cardinality(1 .. SizeOf[k])
    BY <2>2, <2>3, FS_Product, Zenon
  <2>5. 1 * SizeOf[k] = SizeOf[k]
    BY <2>1
  <2> HIDE DEF own
  <2> QED BY <2>2, <2>3, <2>4, <2>5
<1>3. IsFiniteSet(C!BytesOf(set)) /\ Cardinality(C!BytesOf(set)) \in Nat
  BY SameSizes, BytesAre DEF C!TotalSize
<1>4. Cardinality(C!BytesOf(set) \cup own) = Cardinality(C!BytesOf(set)) + Cardinality(own) - Cardinality(C!BytesOf(set) \cap own)
  <2> HIDE DEF own
  <2> QED BY <1>2, <1>3, FS_Union
<1>5. Cardinality(C!BytesOf(set) \cap own) \in Nat
  <2> HIDE DEF own
  <2> QED BY <1>3, FS_Intersection, FS_CardinalityType
<1>6. SizeOf[k] \in Nat
  BY CacheAssumption
<1> HIDE DEF own
<1>7. Cardinality(C!BytesOf(set \cup {k})) <= Cardinality(C!BytesOf(set)) + SizeOf[k]
  <2>1. ASSUME NEW old \in Nat, NEW size \in Nat, NEW both \in Nat PROVE old + size - both <= old + size
    BY <2>1
  <2>2. Cardinality(C!BytesOf(set \cup {k})) = Cardinality(C!BytesOf(set)) + SizeOf[k] - Cardinality(C!BytesOf(set) \cap own)
    BY <1>1, <1>2, <1>4
  <2> QED BY <2>1, <2>2, <1>3, <1>5, <1>6
<1> QED BY SameSizes, <1>7 DEF C!TotalSize

-----------------------------------------------------------------------------
\* Sequences of different keys.
Different(s) == \A i, j \in DOMAIN s : s[i] = s[j] => i = j

LEMMA LeftWithout ==
  ASSUME NEW s \in Seq(Keys), Different(s), NEW k
  PROVE  /\ C!Without(s, k) \in Seq(Keys) /\ Different(C!Without(s, k))
         /\ C!ToSet(C!Without(s, k)) = C!ToSet(s) \ {k}
<1>1. CASE k \notin C!ToSet(s)
  BY <1>1 DEF C!Without
<1>2. CASE k \in C!ToSet(s)
  <2> DEFINE i == CHOOSE i \in DOMAIN s : s[i] = k
             t == [j \in 1 .. Len(s) - 1 |-> s[IF j < i THEN j ELSE j + 1]]
  <2>1. i \in DOMAIN s /\ s[i] = k
    BY <1>2 DEF C!ToSet
  <2>2. C!Without(s, k) = t
    BY <1>2 DEF C!Without
  <2> HIDE DEF i
  <2>3. Len(s) \in Nat /\ i \in 1 .. Len(s) /\ Len(s) - 1 \in Nat /\ DOMAIN s = 1 .. Len(s)
    BY <2>1
  <2>4. \A j \in 1 .. Len(s) - 1 : t[j] = s[IF j < i THEN j ELSE j + 1] /\ (IF j < i THEN j ELSE j + 1) \in DOMAIN s
    BY <2>3
  <2>5. t \in Seq(Keys) /\ DOMAIN t = 1 .. Len(s) - 1
    BY <2>3, <2>4
  <2>6. Different(t)
    <3>1. SUFFICES ASSUME NEW j \in DOMAIN t, NEW m \in DOMAIN t, t[j] = t[m] PROVE j = m
      BY DEF Different
    <3>2. (IF j < i THEN j ELSE j + 1) = (IF m < i THEN m ELSE m + 1)
      BY <2>4, <2>5, <3>1 DEF Different
    <3>3. j \in Int /\ m \in Int /\ i \in Int
      BY <2>3, <2>5
    <3> HIDE DEF t
    <3> QED BY <3>2, <3>3
  <2>7. \A j \in DOMAIN t : t[j] \in C!ToSet(s) \ {k}
    BY <2>1, <2>3, <2>4, <2>5 DEF Different, C!ToSet
  <2>8. ASSUME NEW j \in DOMAIN s, s[j] # k PROVE \E m \in DOMAIN t : t[m] = s[j]
    <3>1. CASE j < i
      BY <2>3, <2>4, <2>5, <3>1
    <3>2. CASE j > i
      <4>1. j - 1 \in DOMAIN t /\ t[j - 1] = s[j]
        BY <2>3, <2>4, <2>5, <3>2
      <4> QED BY <4>1
    <3> QED BY <2>1, <2>3, <2>8, <3>1, <3>2
  <2>9. C!ToSet(t) = C!ToSet(s) \ {k}
    <3> HIDE DEF t
    <3> QED BY <2>7, <2>8 DEF C!ToSet
  <2> QED BY <2>2, <2>5, <2>6, <2>9
<1> QED BY <1>1, <1>2

LEMMA PutLast ==
  ASSUME NEW s \in Seq(Keys), Different(s), NEW k \in Keys
  PROVE  LET t == Append(C!Without(s, k), k) IN
           t \in Seq(Keys) /\ Different(t) /\ C!ToSet(t) = C!ToSet(s) \cup {k}
<1> DEFINE r == C!Without(s, k)
           t == Append(r, k)
<1>1. r \in Seq(Keys) /\ Different(r) /\ C!ToSet(r) = C!ToSet(s) \ {k}
  BY LeftWithout
<1> HIDE DEF r
<1>2. t \in Seq(Keys) /\ DOMAIN t = 1 .. Len(r) + 1 /\ Len(r) \in Nat /\ DOMAIN r = 1 .. Len(r)
  BY <1>1
<1>3. t[Len(r) + 1] = k /\ \A j \in DOMAIN r : t[j] = r[j] /\ r[j] \in C!ToSet(r)
  BY <1>1 DEF C!ToSet
<1>4. \A j \in DOMAIN r : t[j] # k
  BY <1>1, <1>3
<1>5. Different(t)
  BY <1>1, <1>2, <1>3, <1>4 DEF Different
<1>6. C!ToSet(t) = C!ToSet(r) \cup {k}
  BY <1>2, <1>3 DEF C!ToSet
<1> QED BY <1>1, <1>2, <1>5, <1>6 DEF r

LEMMA LengthOfDifferent ==
  ASSUME NEW s \in Seq(Keys), Different(s)
  PROVE  /\ Len(s) = Cardinality(C!ToSet(s)) /\ Len(s) \in 0 .. Cardinality(Keys) /\ Cardinality(Keys) \in Nat
         /\ s \in [1 .. Len(s) -> Keys]
<1>1. Len(s) \in Nat /\ s \in [1 .. Len(s) -> Keys] /\ C!ToSet(s) \in SUBSET Keys
  BY DEF C!ToSet
<1>2. s \in Bijection(1 .. Len(s), C!ToSet(s))
  <2>1. s \in [1 .. Len(s) -> C!ToSet(s)]
    BY <1>1 DEF C!ToSet
  <2>2. s \in Injection(1 .. Len(s), C!ToSet(s))
    BY <2>1 DEF Different, Injection, IsInjective
  <2>3. s \in Surjection(1 .. Len(s), C!ToSet(s))
    BY <2>1 DEF C!ToSet, Surjection
  <2> QED BY <2>2, <2>3 DEF Bijection
<1>3. Cardinality(C!ToSet(s)) = Len(s)
  <2>1. IsFiniteSet(1 .. Len(s)) /\ Cardinality(1 .. Len(s)) = IF 1 > Len(s) THEN 0 ELSE Len(s) - 1 + 1
    <3>1. Len(s) \in Int /\ 1 \in Int
      BY <1>1
    <3> QED BY <3>1, FS_Interval, Zenon
  <2>2. Cardinality(C!ToSet(s)) = Cardinality(1 .. Len(s))
    BY <1>2, <2>1, FS_Bijection DEF ExistsBijection
  <2> QED BY <1>1, <2>1, <2>2
<1>4. Cardinality(C!ToSet(s)) <= Cardinality(Keys) /\ Cardinality(Keys) \in Nat
  BY <1>1, FS_Subset, FS_CardinalityType, CacheAssumption
<1> QED BY <1>1, <1>3, <1>4

-----------------------------------------------------------------------------
\* The cache and whoever puts into it.
Putting(c) == client[c].pc \in {"evict", "write", "rename"}

ClientsTyped ==
  \A c \in Clients :
    /\ client[c] \in C!ClientRecords
    /\ client[c].victims \in Seq(Keys) /\ Different(client[c].victims)
    /\ client[c].pc # "idle" => client[c].key \in Keys
    /\ client[c].pc \in {"touch", "open"} => client[c].got = "whole"

\* The one that puts knows every entry until it has made room, and no entry
\* is added meanwhile.
PutHolds ==
  \A c \in Clients :
    /\ Putting(c) <=> lock = c
    /\ client[c].pc = "evict" => C!ToSet(client[c].victims) \subseteq C!Cached
    /\ client[c].pc = "evict" /\ unremoved = FALSE => C!Cached \subseteq C!ToSet(client[c].victims)
    /\ client[c].pc \in {"write", "rename"} /\ unremoved = FALSE =>
         C!Cached = {} \/ C!TotalSize(C!Cached) + SizeOf[client[c].key] <= MaxBytes

Within == unremoved = FALSE => Cardinality(C!Cached) <= 1 \/ C!TotalSize(C!Cached) <= MaxBytes

DiskTyped ==
  /\ entry \in [Keys -> {"none", "whole"}] /\ temp \in [Keys -> C!Contents]
  /\ used \in Seq(Keys) /\ Different(used) /\ C!ToSet(used) = C!Cached
  /\ lock \in Clients \cup {Nobody}
  /\ DOMAIN client = Clients /\ client \in [Clients -> C!ClientRecords]
  /\ served \in 0 .. MaxServed /\ faults \in 0 .. MaxFaults /\ unremoved \in BOOLEAN

CacheInv == DiskTyped /\ ClientsTyped /\ PutHolds /\ Within

LEMMA RecordsOf ==
  /\ C!Idle \in C!ClientRecords
  /\ \A r \in C!ClientRecords : r = [pc |-> r.pc, key |-> r.key, got |-> r.got, victims |-> r.victims]
  /\ \A s \in Seq(Keys) : Different(s) => s \in UNION {[1 .. n -> Keys] : n \in 0 .. Cardinality(Keys)}
<1>1. ASSUME NEW s \in Seq(Keys), Different(s)
      PROVE  s \in UNION {[1 .. n -> Keys] : n \in 0 .. Cardinality(Keys)}
  BY <1>1, LengthOfDifferent
<1>2. <<>> \in Seq(Keys) /\ Different(<<>>)
  BY DEF Different
<1>3. C!Idle \in C!ClientRecords
  BY SameSizes, <1>1, <1>2 DEF C!Idle, C!ClientRecords, C!Contents
<1> QED BY <1>1, <1>3 DEF C!ClientRecords

LEMMA CacheInit == C!Init => CacheInv
<1> SUFFICES ASSUME C!Init PROVE CacheInv
  OBVIOUS
<1>1. C!Cached = {} /\ C!ToSet(<<>>) = {} /\ <<>> \in Seq(Keys) /\ Different(<<>>)
  BY DEF C!Init, C!Cached, C!ToSet, Different
<1>2. DiskTyped
  <2>1. client \in [Clients -> C!ClientRecords] /\ DOMAIN client = Clients
    BY RecordsOf DEF C!Init
  <2>2. used \in Seq(Keys) /\ Different(used) /\ C!ToSet(used) = C!Cached
    BY <1>1 DEF C!Init
  <2>3. served \in 0 .. MaxServed /\ faults \in 0 .. MaxFaults
    BY CacheAssumption DEF C!Init
  <2>4. entry \in [Keys -> {"none", "whole"}] /\ temp \in [Keys -> C!Contents] /\ lock \in Clients \cup {Nobody} /\ unremoved \in BOOLEAN
    BY DEF C!Init, C!Contents
  <2> QED BY <2>1, <2>2, <2>3, <2>4 DEF DiskTyped
<1>3. ClientsTyped /\ PutHolds
  BY <1>1, RecordsOf, CacheAssumption DEF ClientsTyped, PutHolds, Putting, C!Init, C!Idle
<1>4. Within
  BY <1>1, FS_EmptySet DEF Within
<1> QED BY <1>2, <1>3, <1>4 DEF CacheInv

\* A request moves from one record to another.
LEMMA Moves ==
  ASSUME CacheInv, NEW c \in Clients, NEW r \in C!ClientRecords, client' = [client EXCEPT ![c] = r],
         r.victims \in Seq(Keys), Different(r.victims), r.pc # "idle" => r.key \in Keys,
         r.pc \in {"touch", "open"} => r.got = "whole"
  PROVE  /\ DOMAIN client' = Clients /\ client' \in [Clients -> C!ClientRecords] /\ ClientsTyped'
         /\ client'[c] = r /\ \A d \in Clients : d # c => client'[d] = client[d]
<1>1. client \in [Clients -> C!ClientRecords] /\ DOMAIN client = Clients
  BY DEF CacheInv, DiskTyped
<1>2. client'[c] = r /\ \A d \in Clients : d # c => client'[d] = client[d]
  BY <1>1
<1>3. DOMAIN client' = Clients /\ client' \in [Clients -> C!ClientRecords]
  BY <1>1
<1>4. ClientsTyped'
  BY <1>2 DEF CacheInv, ClientsTyped
<1> QED BY <1>2, <1>3, <1>4

\* A request that does not put does not disturb one that does.
LEMMA Aside ==
  ASSUME CacheInv, NEW c \in Clients, NEW r \in C!ClientRecords, client' = [client EXCEPT ![c] = r],
         r.victims \in Seq(Keys), Different(r.victims), r.pc # "idle" => r.key \in Keys,
         r.pc \in {"touch", "open"} => r.got = "whole",
         ~Putting(c), r.pc \notin {"evict", "write", "rename"},
         used' \in Seq(Keys), Different(used'), C!ToSet(used') = C!Cached, served' \in 0 .. MaxServed,
         UNCHANGED <<entry, temp, lock, faults, unremoved>>
  PROVE  CacheInv'
<1>1. C!Cached' = C!Cached
  BY DEF C!Cached
<1>2. /\ DOMAIN client' = Clients /\ client' \in [Clients -> C!ClientRecords] /\ ClientsTyped'
      /\ client'[c] = r /\ \A d \in Clients : d # c => client'[d] = client[d]
  BY Moves
<1>3. DiskTyped'
  BY <1>1, <1>2 DEF CacheInv, DiskTyped, Different
<1>4. PutHolds'
  BY <1>1, <1>2 DEF CacheInv, PutHolds, Putting
<1>5. Within'
  BY <1>1 DEF CacheInv, Within
<1> QED BY <1>2, <1>3, <1>4, <1>5 DEF CacheInv

LEMMA AsideKeeps ==
  ASSUME CacheInv, NEW c \in Clients,
         (\E k \in Keys : C!Get(c, k)) \/ C!Touch(c) \/ C!Deliver(c) \/ C!Fill(c)
  PROVE  CacheInv'
<1>1. client \in [Clients -> C!ClientRecords] /\ client[c] \in C!ClientRecords
      /\ used \in Seq(Keys) /\ Different(used) /\ C!ToSet(used) = C!Cached /\ served \in 0 .. MaxServed
      /\ entry \in [Keys -> {"none", "whole"}]
  BY DEF CacheInv, DiskTyped
<1>2. /\ client[c].victims \in Seq(Keys) /\ Different(client[c].victims)
      /\ client[c].pc # "idle" => client[c].key \in Keys
      /\ client[c].pc \in {"touch", "open"} => client[c].got = "whole"
  BY DEF CacheInv, ClientsTyped
<1>3. C!Idle \in C!ClientRecords /\ C!Idle.victims \in Seq(Keys) /\ Different(C!Idle.victims) /\ C!Idle.pc = "idle"
  BY RecordsOf DEF C!Idle, Different
<1>4. ASSUME NEW k \in Keys, C!Get(c, k) PROVE CacheInv'
  <2> DEFINE r == [C!Idle EXCEPT !.pc = IF entry[k] = "none" THEN "source" ELSE "touch", !.key = k, !.got = entry[k]]
  <2>1. r \in C!ClientRecords /\ r.victims = C!Idle.victims /\ r.key = k /\ r.got = entry[k]
        /\ r.pc = IF entry[k] = "none" THEN "source" ELSE "touch"
    BY <1>1, <1>3 DEF C!Idle, C!ClientRecords, C!Contents
  <2>2. served' \in 0 .. MaxServed
    <3>1. served < MaxServed /\ served' = served + 1
      BY <1>4 DEF C!Get
    <3> HIDE DEF r
    <3> QED BY <1>1, <3>1, CacheAssumption
  <2>3. client' = [client EXCEPT ![c] = r] /\ ~Putting(c) /\ UNCHANGED <<entry, temp, used, lock, faults, unremoved>>
    BY <1>4 DEF C!Get, Putting
  <2>4. entry[k] # "none" => entry[k] = "whole"
    BY <1>1
  <2> HIDE DEF r
  <2> QED BY <1>1, <1>3, <2>1, <2>2, <2>3, <2>4, Aside
<1>5. CASE C!Touch(c)
  <2> DEFINE r == [client[c] EXCEPT !.pc = "open"]
  <2>1. r \in C!ClientRecords /\ r.victims = client[c].victims /\ r.key = client[c].key /\ r.got = client[c].got /\ r.pc = "open"
    BY <1>1 DEF C!ClientRecords
  <2>2. client' = [client EXCEPT ![c] = r] /\ ~Putting(c) /\ client[c].pc = "touch" /\ UNCHANGED <<entry, temp, lock, faults, unremoved>>
    BY <1>1, <1>5 DEF C!Touch, C!Goes, Putting
  <2>3. used' \in Seq(Keys) /\ Different(used') /\ C!ToSet(used') = C!Cached
    <3> DEFINE k == client[c].key
    <3>1. k \in Keys /\ used' = IF entry[k] = "none" THEN used ELSE Append(C!Without(used, k), k)
      BY <1>2, <1>5, <2>2 DEF C!Touch, C!Used
    <3>2. entry[k] # "none" => k \in C!Cached
      BY <3>1 DEF C!Cached
    <3>3. CASE entry[k] = "none"
      BY <1>1, <3>1, <3>3
    <3>4. CASE entry[k] # "none"
      <4> HIDE DEF k, r
      <4>1. /\ Append(C!Without(used, k), k) \in Seq(Keys) /\ Different(Append(C!Without(used, k), k))
            /\ C!ToSet(Append(C!Without(used, k), k)) = C!ToSet(used) \cup {k}
        BY <1>1, <3>1, PutLast
      <4> QED BY <1>1, <3>1, <3>2, <3>4, <4>1
    <3> QED BY <3>3, <3>4
  <2>4. served' \in 0 .. MaxServed
    BY <1>1, <1>5 DEF C!Touch
  <2> HIDE DEF r
  <2> QED BY <1>2, <2>1, <2>2, <2>3, <2>4, Aside
<1>6. ASSUME C!Ends(c), ~Putting(c), UNCHANGED <<entry, temp, used, lock, served, faults, unremoved>> PROVE CacheInv'
  <2>1. client' = [client EXCEPT ![c] = C!Idle]
    BY <1>6 DEF C!Ends
  <2> QED BY <1>1, <1>3, <1>6, <2>1, Aside
<1>7. CASE C!Deliver(c)
  BY <1>6, <1>7 DEF C!Deliver, Putting
<1>8. CASE C!Fill(c)
  <2>1. CASE ~(SizeOf[client[c].key] <= MaxFileBytes)
    BY <1>6, <1>8, <2>1 DEF C!Fill, Putting
  <2>2. CASE SizeOf[client[c].key] <= MaxFileBytes
    <3> DEFINE r == [client[c] EXCEPT !.pc = "put"]
    <3>1. r \in C!ClientRecords /\ r.victims = client[c].victims /\ r.key = client[c].key /\ r.pc = "put"
      BY <1>1 DEF C!ClientRecords
    <3>2. client' = [client EXCEPT ![c] = r] /\ ~Putting(c) /\ client[c].pc = "source"
          /\ UNCHANGED <<entry, temp, used, lock, served, faults, unremoved>>
      BY <1>1, <1>8, <2>2 DEF C!Fill, C!Goes, Putting
    <3> HIDE DEF r
    <3> QED BY <1>1, <1>2, <3>1, <3>2, Aside
  <2> QED BY <2>1, <2>2
<1> QED BY <1>4, <1>5, <1>7, <1>8


\* What the one that puts and its lock were, and are.
LEMMA PutKeeps ==
  ASSUME CacheInv, NEW c \in Clients, C!Put(c)
  PROVE  CacheInv'
<1> DEFINE r == [client[c] EXCEPT !.pc = IF C!Over(SizeOf[client[c].key]) THEN "evict" ELSE "write", !.victims = used]
<1>1. /\ client \in [Clients -> C!ClientRecords] /\ client[c] \in C!ClientRecords /\ client[c].pc = "put"
      /\ used \in Seq(Keys) /\ Different(used) /\ C!ToSet(used) = C!Cached /\ client[c].key \in Keys /\ lock = Nobody
  BY DEF CacheInv, DiskTyped, ClientsTyped, C!Put
<1>2. used \in UNION {[1 .. n -> Keys] : n \in 0 .. Cardinality(Keys)}
  BY <1>1, RecordsOf
<1>3. /\ r \in C!ClientRecords /\ r.victims = used /\ r.key = client[c].key
      /\ r.pc = IF C!Over(SizeOf[client[c].key]) THEN "evict" ELSE "write"
  BY SameSizes, <1>1, <1>2 DEF C!ClientRecords
<1>4. client' = [client EXCEPT ![c] = r] /\ lock' = c /\ UNCHANGED <<entry, temp, used, served, faults, unremoved>>
  BY <1>1 DEF C!Put
<1> HIDE DEF r
<1>5. /\ DOMAIN client' = Clients /\ client' \in [Clients -> C!ClientRecords] /\ ClientsTyped'
      /\ client'[c] = r /\ \A d \in Clients : d # c => client'[d] = client[d]
  BY <1>1, <1>3, <1>4, Moves
<1>6. C!Cached' = C!Cached
  BY <1>4 DEF C!Cached
<1>7. DiskTyped'
  BY <1>4, <1>5, <1>6 DEF CacheInv, DiskTyped, Different
<1>8. C!Cached \in SUBSET Keys /\ C!TotalSize(C!Cached) \in Nat /\ SizeOf[client[c].key] \in Nat
  BY <1>1, BytesAre, CacheAssumption DEF C!Cached
<1>9. r.pc # "evict" => C!TotalSize(C!Cached) + SizeOf[client[c].key] <= MaxBytes
  BY <1>3, <1>8, CacheAssumption DEF C!Over
<1>10. ASSUME NEW d \in Clients, d # c PROVE client'[d] = client[d] /\ ~Putting(d)
  BY <1>1, <1>5, <1>10, CacheAssumption DEF CacheInv, PutHolds
<1>11. PutHolds'
  BY <1>1, <1>3, <1>4, <1>5, <1>6, <1>9, <1>10 DEF PutHolds, Putting
<1>12. Within'
  BY <1>4, <1>6 DEF CacheInv, Within
<1> QED BY <1>5, <1>7, <1>11, <1>12 DEF CacheInv

LEMMA Holder ==
  ASSUME CacheInv, NEW c \in Clients, Putting(c)
  PROVE  /\ lock = c /\ \A d \in Clients : d # c => ~Putting(d)
         /\ client \in [Clients -> C!ClientRecords] /\ client[c] \in C!ClientRecords /\ client[c].key \in Keys
         /\ client[c].victims \in Seq(Keys) /\ Different(client[c].victims)
         /\ C!Cached \in SUBSET Keys /\ C!TotalSize(C!Cached) \in Nat /\ SizeOf[client[c].key] \in Nat
<1>1. lock = c /\ \A d \in Clients : d # c => ~Putting(d)
  BY DEF CacheInv, PutHolds
<1>2. client \in [Clients -> C!ClientRecords] /\ client[c] \in C!ClientRecords
  BY DEF CacheInv, DiskTyped
<1>3. client[c].key \in Keys /\ client[c].victims \in Seq(Keys) /\ Different(client[c].victims)
  BY DEF CacheInv, ClientsTyped, Putting
<1>4. C!Cached \in SUBSET Keys /\ C!TotalSize(C!Cached) \in Nat /\ SizeOf[client[c].key] \in Nat
  BY <1>3, BytesAre, CacheAssumption DEF C!Cached
<1> QED BY <1>1, <1>2, <1>3, <1>4

LEMMA RestOf ==
  ASSUME NEW s \in Seq(Keys), Different(s), s # <<>>
  PROVE  /\ Head(s) \in Keys /\ Head(s) \in C!ToSet(s) /\ Tail(s) \in Seq(Keys) /\ Different(Tail(s))
         /\ C!ToSet(Tail(s)) = C!ToSet(s) \ {Head(s)}
<1> DEFINE t == Tail(s)
<1>1. Len(s) \in Nat \ {0} /\ DOMAIN s = 1 .. Len(s) /\ Head(s) = s[1]
  OBVIOUS
<1>2. t \in Seq(Keys) /\ DOMAIN t = 1 .. Len(s) - 1 /\ \A i \in 1 .. Len(s) - 1 : t[i] = s[i + 1] /\ i + 1 \in DOMAIN s
  BY <1>1
<1> HIDE DEF t
<1>3. Different(t)
  <2>1. SUFFICES ASSUME NEW i \in DOMAIN t, NEW j \in DOMAIN t, t[i] = t[j] PROVE i = j
    BY DEF Different
  <2>2. i + 1 = j + 1
    BY <1>2, <2>1 DEF Different
  <2> QED BY <1>2, <2>2
<1>4. ASSUME NEW i \in DOMAIN t PROVE t[i] \in C!ToSet(s) \ {s[1]}
  <2>1. i \in 1 .. Len(s) - 1 /\ t[i] = s[i + 1] /\ i + 1 \in DOMAIN s /\ 1 \in DOMAIN s /\ i + 1 # 1
    BY <1>1, <1>2
  <2>2. s[i + 1] # s[1]
    BY <2>1 DEF Different
  <2> QED BY <2>1, <2>2 DEF C!ToSet
<1>5. ASSUME NEW j \in DOMAIN s, s[j] # s[1] PROVE \E i \in DOMAIN t : t[i] = s[j]
  <2>1. j - 1 \in DOMAIN t /\ t[j - 1] = s[j]
    BY <1>1, <1>2, <1>5
  <2> QED BY <2>1
<1>6. C!ToSet(t) = C!ToSet(s) \ {s[1]}
  BY <1>4, <1>5 DEF C!ToSet
<1>7. Head(s) \in Keys /\ Head(s) \in C!ToSet(s)
  BY <1>1 DEF C!ToSet
<1> QED BY <1>1, <1>2, <1>3, <1>6, <1>7 DEF t


LEMMA EvictKeeps ==
  ASSUME CacheInv, NEW c \in Clients, C!Evict(c)
  PROVE  CacheInv'
<1> DEFINE rest == client[c].victims
           k    == Head(rest)
<1>1. client[c].pc = "evict" /\ Putting(c)
  BY DEF C!Evict, Putting
<1>2. /\ lock = c /\ \A d \in Clients : d # c => ~Putting(d)
      /\ client \in [Clients -> C!ClientRecords] /\ client[c] \in C!ClientRecords /\ client[c].key \in Keys
      /\ rest \in Seq(Keys) /\ Different(rest)
      /\ C!Cached \in SUBSET Keys /\ C!TotalSize(C!Cached) \in Nat /\ SizeOf[client[c].key] \in Nat
  BY <1>1, Holder
<1>3. C!ToSet(rest) \subseteq C!Cached /\ (unremoved = FALSE => C!ToSet(rest) = C!Cached)
  BY <1>1 DEF CacheInv, PutHolds
<1>4. UNCHANGED <<temp, lock, served>>
  BY DEF C!Evict
<1>5. CASE rest = <<>> \/ C!Enough(c)
  <2> DEFINE r == [client[c] EXCEPT !.pc = "write"]
  <2>1. r \in C!ClientRecords /\ r.victims = rest /\ r.key = client[c].key /\ r.pc = "write"
    BY <1>2 DEF C!ClientRecords
  <2>2. client' = [client EXCEPT ![c] = r] /\ UNCHANGED <<entry, used, faults, unremoved>>
    BY <1>2, <1>5 DEF C!Evict, C!Goes
  <2> HIDE DEF r
  <2>3. /\ DOMAIN client' = Clients /\ client' \in [Clients -> C!ClientRecords] /\ ClientsTyped'
        /\ client'[c] = r /\ \A d \in Clients : d # c => client'[d] = client[d]
    BY <1>2, <2>1, <2>2, Moves
  <2>4. C!Cached' = C!Cached
    BY <2>2 DEF C!Cached
  <2>5. DiskTyped'
    BY <1>4, <2>2, <2>3, <2>4 DEF CacheInv, DiskTyped, Different
  <2>6. unremoved = FALSE => C!Cached = {} \/ C!TotalSize(C!Cached) + SizeOf[client[c].key] <= MaxBytes
    <3>1. rest = <<>> => C!ToSet(rest) = {}
      BY DEF C!ToSet
    <3>2. C!Enough(c) => C!TotalSize(C!Cached) + SizeOf[client[c].key] <= MaxBytes
      BY <1>2, CacheAssumption DEF C!Enough, C!Over
    <3> QED BY <1>3, <1>5, <3>1, <3>2
  <2>7. PutHolds'
    BY <1>2, <1>4, <2>1, <2>2, <2>3, <2>4, <2>6 DEF PutHolds, Putting
  <2>8. Within'
    BY <2>2, <2>4 DEF CacheInv, Within
  <2> QED BY <2>3, <2>5, <2>7, <2>8 DEF CacheInv
<1>6. CASE ~(rest = <<>> \/ C!Enough(c))
  <2> DEFINE r == [client[c] EXCEPT !.victims = Tail(rest)]
  <2>1. /\ k \in Keys /\ k \in C!ToSet(rest) /\ Tail(rest) \in Seq(Keys) /\ Different(Tail(rest))
        /\ C!ToSet(Tail(rest)) = C!ToSet(rest) \ {k}
    BY <1>2, <1>6, RestOf
  <2>2. Tail(rest) \in UNION {[1 .. n -> Keys] : n \in 0 .. Cardinality(Keys)}
    BY <2>1, RecordsOf
  <2>3. r \in C!ClientRecords /\ r.victims = Tail(rest) /\ r.key = client[c].key /\ r.pc = "evict"
    BY SameSizes, <1>1, <1>2, <2>2 DEF C!ClientRecords
  <2>4. client' = [client EXCEPT ![c] = r]
    BY <1>2, <1>6 DEF C!Evict
  <2> HIDE DEF r
  <2>5. /\ DOMAIN client' = Clients /\ client' \in [Clients -> C!ClientRecords] /\ ClientsTyped'
        /\ client'[c] = r /\ \A d \in Clients : d # c => client'[d] = client[d]
    BY <1>1, <1>2, <2>1, <2>3, <2>4, Moves
  <2>6. CASE entry' = [entry EXCEPT ![k] = "none"] /\ used' = C!Without(used, k) /\ UNCHANGED <<faults, unremoved>>
    <3>1. entry \in [Keys -> {"none", "whole"}] /\ used \in Seq(Keys) /\ Different(used) /\ C!ToSet(used) = C!Cached
      BY DEF CacheInv, DiskTyped
    <3>2. C!Cached' = C!Cached \ {k} /\ entry' \in [Keys -> {"none", "whole"}]
      BY <2>1, <2>6, <3>1 DEF C!Cached
    <3>3. used' \in Seq(Keys) /\ Different(used') /\ C!ToSet(used') = C!Cached'
      BY <2>6, <3>1, <3>2, LeftWithout
    <3>4. DiskTyped'
      BY <1>4, <2>5, <2>6, <3>2, <3>3 DEF CacheInv, DiskTyped, Different
    <3>5. PutHolds'
      BY <1>2, <1>3, <1>4, <2>1, <2>3, <2>5, <2>6, <3>2 DEF PutHolds, Putting
    <3>6. C!TotalSize(C!Cached') <= C!TotalSize(C!Cached) /\ Cardinality(C!Cached') <= Cardinality(C!Cached)
          /\ C!TotalSize(C!Cached') \in Nat /\ Cardinality(C!Cached') \in Nat /\ Cardinality(C!Cached) \in Nat
      <4>1. C!Cached \in SUBSET Keys /\ C!Cached' \in SUBSET C!Cached /\ C!Cached' \in SUBSET Keys
        BY <1>2, <3>2
      <4>2. IsFiniteSet(C!Cached) /\ IsFiniteSet(C!Cached')
        BY <4>1, FS_Subset, CacheAssumption
      <4> QED BY <4>1, <4>2, SizeOfFewer, BytesAre, FS_CardinalityType
    <3>7. Within'
      <4>1. SUFFICES ASSUME unremoved = FALSE PROVE Cardinality(C!Cached') <= 1 \/ C!TotalSize(C!Cached') <= MaxBytes
        BY SameSizes, <2>6 DEF Within, C!TotalSize
      <4>2. Cardinality(C!Cached) <= 1 \/ C!TotalSize(C!Cached) <= MaxBytes
        BY <4>1 DEF CacheInv, Within
      <4> QED BY <4>2, <3>6, <1>2, CacheAssumption
    <3> QED BY <2>5, <3>4, <3>5, <3>7 DEF CacheInv
  <2>7. CASE C!Failing /\ unremoved' = TRUE /\ UNCHANGED <<entry, used>>
    <3>1. C!Cached' = C!Cached
      BY <2>7 DEF C!Cached
    <3>2. faults' \in 0 .. MaxFaults
      BY <2>7, CacheAssumption DEF CacheInv, DiskTyped, C!Failing
    <3>3. DiskTyped'
      BY <1>4, <2>5, <2>7, <3>1, <3>2 DEF CacheInv, DiskTyped, Different
    <3>4. PutHolds'
      BY <1>2, <1>3, <1>4, <2>1, <2>3, <2>5, <2>7, <3>1 DEF PutHolds, Putting
    <3>5. Within'
      BY <2>7 DEF Within
    <3> QED BY <2>5, <3>3, <3>4, <3>5 DEF CacheInv
  <2> QED BY <1>6, <2>6, <2>7 DEF C!Evict
<1> QED BY <1>5, <1>6

LEMMA WriteKeeps ==
  ASSUME CacheInv, NEW c \in Clients, C!Write(c)
  PROVE  CacheInv'
<1> DEFINE r == [client[c] EXCEPT !.pc = "rename"]
<1>1. client[c].pc = "write" /\ Putting(c)
  BY DEF C!Write, Putting
<1>2. /\ lock = c /\ \A d \in Clients : d # c => ~Putting(d)
      /\ client \in [Clients -> C!ClientRecords] /\ client[c] \in C!ClientRecords /\ client[c].key \in Keys
      /\ client[c].victims \in Seq(Keys) /\ Different(client[c].victims)
  BY <1>1, Holder
<1>3. r \in C!ClientRecords /\ r.victims = client[c].victims /\ r.key = client[c].key /\ r.pc = "rename"
  BY <1>2 DEF C!ClientRecords
<1>4. client' = [client EXCEPT ![c] = r] /\ UNCHANGED <<entry, used, lock, served, faults, unremoved>>
      /\ temp' = [temp EXCEPT ![client[c].key] = "part"]
  BY <1>2 DEF C!Write, C!Writes, C!Goes
<1> HIDE DEF r
<1>5. /\ DOMAIN client' = Clients /\ client' \in [Clients -> C!ClientRecords] /\ ClientsTyped'
      /\ client'[c] = r /\ \A d \in Clients : d # c => client'[d] = client[d]
  BY <1>2, <1>3, <1>4, Moves
<1>6. C!Cached' = C!Cached
  BY <1>4 DEF C!Cached
<1>7. temp' \in [Keys -> C!Contents]
  BY <1>2, <1>4 DEF CacheInv, DiskTyped, C!Contents
<1>8. DiskTyped'
  BY <1>4, <1>5, <1>6, <1>7 DEF CacheInv, DiskTyped, Different
<1>9. PutHolds'
  BY <1>1, <1>2, <1>3, <1>4, <1>5, <1>6 DEF CacheInv, PutHolds, Putting
<1>10. Within'
  BY <1>4, <1>6 DEF CacheInv, Within
<1> QED BY <1>5, <1>8, <1>9, <1>10 DEF CacheInv


\* The one that puts lets go of the lock; what it did to the entry is kept.
LEMMA Releases ==
  ASSUME CacheInv, NEW c \in Clients, Putting(c), C!Ends(c), lock' = Nobody,
         UNCHANGED <<served, unremoved>>, temp' \in [Keys -> C!Contents], faults' \in 0 .. MaxFaults,
         entry' \in [Keys -> {"none", "whole"}], used' \in Seq(Keys), Different(used'), C!ToSet(used') = C!Cached', Within'
  PROVE  CacheInv'
<1>1. /\ lock = c /\ \A d \in Clients : d # c => ~Putting(d)
      /\ client \in [Clients -> C!ClientRecords]
  BY Holder
<1>2. C!Idle \in C!ClientRecords /\ C!Idle.victims \in Seq(Keys) /\ Different(C!Idle.victims) /\ C!Idle.pc = "idle"
  BY RecordsOf DEF C!Idle, Different
<1>3. client' = [client EXCEPT ![c] = C!Idle]
  BY DEF C!Ends
<1>4. /\ DOMAIN client' = Clients /\ client' \in [Clients -> C!ClientRecords] /\ ClientsTyped'
      /\ client'[c] = C!Idle /\ \A d \in Clients : d # c => client'[d] = client[d]
  BY <1>2, <1>3, Moves
<1>5. DiskTyped'
  BY <1>4 DEF CacheInv, DiskTyped, Different
<1>6. \A d \in Clients : ~Putting(d)' /\ lock' # d
  BY <1>1, <1>2, <1>4, CacheAssumption DEF Putting
<1>7. PutHolds'
  BY <1>6 DEF PutHolds, Putting
<1> QED BY <1>4, <1>5, <1>7 DEF CacheInv

LEMMA RenameKeeps ==
  ASSUME CacheInv, NEW c \in Clients, C!Rename(c)
  PROVE  CacheInv'
<1> DEFINE k == client[c].key
<1>1. client[c].pc = "rename" /\ Putting(c)
  BY DEF C!Rename, Putting
<1>2. k \in Keys /\ C!Cached \in SUBSET Keys /\ C!TotalSize(C!Cached) \in Nat /\ SizeOf[k] \in Nat
  BY <1>1, Holder
<1>3. entry \in [Keys -> {"none", "whole"}] /\ used \in Seq(Keys) /\ Different(used) /\ C!ToSet(used) = C!Cached
      /\ temp \in [Keys -> C!Contents] /\ faults \in 0 .. MaxFaults
  BY DEF CacheInv, DiskTyped
<1>4. /\ temp' = [temp EXCEPT ![k] = "none"] /\ entry' = [entry EXCEPT ![k] = "whole"]
      /\ used' = Append(C!Without(used, k), k) /\ lock' = Nobody /\ C!Ends(c) /\ UNCHANGED <<served, faults, unremoved>>
  BY DEF C!Rename
<1>5. temp' \in [Keys -> C!Contents] /\ entry' \in [Keys -> {"none", "whole"}] /\ C!Cached' = C!Cached \cup {k}
  BY <1>2, <1>3, <1>4 DEF C!Cached, C!Contents
<1>6. used' \in Seq(Keys) /\ Different(used') /\ C!ToSet(used') = C!Cached'
  <2> HIDE DEF k
  <2>1. /\ Append(C!Without(used, k), k) \in Seq(Keys) /\ Different(Append(C!Without(used, k), k))
        /\ C!ToSet(Append(C!Without(used, k), k)) = C!ToSet(used) \cup {k}
    BY <1>2, <1>3, PutLast
  <2> QED BY <1>3, <1>4, <1>5, <2>1
<1>7. Within'
  <2>1. SUFFICES ASSUME unremoved = FALSE PROVE Cardinality(C!Cached') <= 1 \/ C!TotalSize(C!Cached') <= MaxBytes
    BY SameSizes, <1>4 DEF Within, C!TotalSize
  <2>2. C!Cached = {} \/ C!TotalSize(C!Cached) + SizeOf[k] <= MaxBytes
    BY <1>1, <2>1 DEF CacheInv, PutHolds
  <2>3. CASE C!Cached = {}
    <3>1. C!Cached' = {k}
      BY <1>5, <2>3
    <3>2. Cardinality(C!Cached') = 1
      <4> HIDE DEF k
      <4> QED BY <3>1, FS_Singleton
    <3> QED BY <3>2
  <2>4. CASE C!TotalSize(C!Cached) + SizeOf[k] <= MaxBytes
    <3> HIDE DEF k
    <3>1. C!TotalSize(C!Cached \cup {k}) <= C!TotalSize(C!Cached) + SizeOf[k]
      BY <1>2, SizeOfMore
    <3>2. C!TotalSize(C!Cached') \in Nat
      <4>1. C!Cached' \in SUBSET Keys
        BY <1>2, <1>5
      <4> QED BY <4>1, BytesAre
    <3> QED BY <1>2, <1>5, <2>4, <3>1, <3>2, CacheAssumption
  <2> QED BY <2>2, <2>3, <2>4
<1> QED BY <1>1, <1>3, <1>4, <1>5, <1>6, <1>7, Releases

LEMMA PutFailsKeeps ==
  ASSUME CacheInv, NEW c \in Clients, C!PutFails(c)
  PROVE  CacheInv'
<1>1. Putting(c) /\ lock' = Nobody /\ C!Ends(c) /\ UNCHANGED <<entry, used, served, unremoved>>
  BY DEF C!PutFails, Putting
<1>2. client[c].key \in Keys
  BY <1>1, Holder
<1>3. temp' \in [Keys -> C!Contents]
  BY <1>2 DEF C!PutFails, CacheInv, DiskTyped, C!Contents
<1>4. faults' \in 0 .. MaxFaults
  BY CacheAssumption DEF C!PutFails, C!Failing, CacheInv, DiskTyped
<1>5. C!Cached' = C!Cached
  BY <1>1 DEF C!Cached
<1>6. entry' \in [Keys -> {"none", "whole"}] /\ used' \in Seq(Keys) /\ Different(used') /\ C!ToSet(used') = C!Cached'
  BY <1>1, <1>5 DEF CacheInv, DiskTyped
<1>7. Within'
  BY <1>1, <1>5 DEF CacheInv, Within
<1> QED BY <1>1, <1>3, <1>4, <1>6, <1>7, Releases

LEMMA CrashKeeps == ASSUME CacheInv, C!Crash PROVE CacheInv'
<1>1. C!Idle \in C!ClientRecords /\ C!Idle.victims \in Seq(Keys) /\ Different(C!Idle.victims) /\ C!Idle.pc = "idle"
  BY RecordsOf DEF C!Idle, Different
<1>2. client' = [c \in Clients |-> C!Idle] /\ lock' = Nobody /\ UNCHANGED <<entry, temp, used, served, unremoved>>
  BY DEF C!Crash
<1>3. faults' \in 0 .. MaxFaults
  BY CacheAssumption DEF C!Crash, C!Failing, CacheInv, DiskTyped
<1>4. C!Cached' = C!Cached
  BY <1>2 DEF C!Cached
<1>5. DiskTyped'
  BY <1>1, <1>2, <1>3, <1>4 DEF CacheInv, DiskTyped, Different
<1>6. ClientsTyped'
  BY <1>1, <1>2 DEF ClientsTyped
<1>7. PutHolds'
  BY <1>1, <1>2, CacheAssumption DEF PutHolds, Putting
<1>8. Within'
  BY <1>2, <1>4 DEF CacheInv, Within
<1> QED BY <1>5, <1>6, <1>7, <1>8 DEF CacheInv

LEMMA CacheStep == CacheInv /\ [C!Next]_(C!cache) => CacheInv'
<1> SUFFICES ASSUME CacheInv, [C!Next]_(C!cache) PROVE CacheInv'
  OBVIOUS
<1>1. CASE UNCHANGED C!cache
  BY <1>1 DEF C!cache, CacheInv, DiskTyped, ClientsTyped, PutHolds, Putting, Within, C!Cached
<1> QED BY <1>1, AsideKeeps, PutKeeps, EvictKeeps, WriteKeeps, RenameKeeps, PutFailsKeeps, CrashKeeps DEF C!Next

LEMMA CacheTypes == CacheInv => C!TypeOK
<1> SUFFICES ASSUME CacheInv PROVE C!TypeOK
  OBVIOUS
<1>1. Len(used) = Cardinality(C!ToSet(used))
  BY LengthOfDifferent DEF CacheInv, DiskTyped
<1> QED BY SameSizes, <1>1 DEF CacheInv, DiskTyped, C!TypeOK, C!Contents

LEMMA CacheIs == CacheInv => C!CacheHolds
BY SameSizes DEF CacheInv, DiskTyped, ClientsTyped, Within, C!CacheHolds

-----------------------------------------------------------------------------
(* What is followed, whichever part it is.                                 *)

FrontInv ==
  /\ TypeInv
  /\ part \in {"gate", "limiter", "cache"}
  /\ part = "limiter" => RateInv
  /\ part = "cache" => CacheInv

LEMMA FrontStarts == FrontInit => FrontInv
BY TypesStart, RateInit, CacheInit DEF FrontInit, FrontInv

LEMMA FrontGoesOn == FrontInv /\ [FrontNext]_<<part, vars, rates, disk>> => FrontInv'
<1> SUFFICES ASSUME FrontInv, [FrontNext]_<<part, vars, rates, disk>> PROVE FrontInv'
  OBVIOUS
<1>1. UNCHANGED part
  BY DEF FrontNext
<1>2. [Next]_vars
  BY DEF FrontNext
<1>3. part = "limiter" => [L!Next]_(L!rates)
  BY DEF FrontNext, rates, L!rates
<1>4. part = "cache" => [C!Next]_(C!cache)
  BY DEF FrontNext, disk, C!cache
<1> QED BY <1>1, <1>2, <1>3, <1>4, TypesGoOn, RateStep, CacheStep DEF FrontInv

LEMMA FrontIs == FrontInv => FrontTypeOK /\ LimitsHold /\ CacheHolds
BY RateTypes, RateHolds, CacheTypes, CacheIs DEF FrontInv, FrontTypeOK, LimitsHold, CacheHolds, TypeInv

\* The inductive invariant of the composition: of the part that is followed,
\* its own one.
THEOREM FrontCorrect == Front => []FrontInv
BY FrontStarts, FrontGoesOn, PTL DEF Front

\* The types of the gate, of the limiter and of the cache.
THEOREM FrontTypes == Front => []FrontTypeOK
BY FrontCorrect, FrontIs, PTL

\* No window of the limiter, at whatever moment it starts, lets more than
\* twice its limit through, and nobody is refused before a window is full: for
\* any callers, any windows, any limits and any threshold of the sweep.
THEOREM LimitsAlwaysHold == Front => []LimitsHold
BY FrontCorrect, FrontIs, PTL

\* What is found in the serve cache is whole, and the cache is within its
\* bound, for any objects of any sizes, any number of requests and crashes.
THEOREM CacheAlwaysHolds == Front => []CacheHolds
BY FrontCorrect, FrontIs, PTL

=============================================================================
