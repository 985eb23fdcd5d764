------------------------ MODULE SourceReads_proofs ------------------------
(***************************************************************************)
(* Proofs about one call of a collector, for any number of items, pages of *)
(* any size, any cap and any number of changes of the project.             *)
(***************************************************************************)
EXTENDS SourceReads, FiniteSetTheorems, TLAPS

-----------------------------------------------------------------------------
(***************************************************************************)
(* Types.                                                                  *)
(***************************************************************************)
Record == [item : Items, told : Seq(Configs)]

Types ==
    /\ source \in Sources
    /\ cloud \in [Items -> Configs \cup {Gone}]
    /\ outcome \in {"none", "reading", "ok", "failed"}
    /\ more \in BOOLEAN
    /\ after \in Items \cup {0}
    /\ DOMAIN page \subseteq Items
    /\ page \in [DOMAIN page -> Configs]
    /\ hand = {} \/ \E r \in Record : hand = {r}
    /\ got \in Seq(Record)
    /\ inventory \in Seq(Record)
    /\ seen \subseteq Items \X Configs
    /\ steady \subseteq Items \X Configs
    /\ calls \in 0..MaxCalls
    /\ changes \in 0..MaxChanges

\* The page with no item on it.
LEMMA EmptyPage == DOMAIN Empty = {} /\ Empty \in [DOMAIN Empty -> Configs]
BY DEF Empty

\* The items that are there, with what they are.
LEMMA NowTyped ==
    ASSUME Types
    PROVE  /\ Now \subseteq Items \X Configs
           /\ \A i \in There : i \in Items /\ cloud[i] \in Configs /\ <<i, cloud[i]>> \in Now
BY DEF Types, Now, There

\* What an item on the page was listed with makes the beginning of a record.
LEMMA ListedTyped ==
    ASSUME Types, NEW i \in DOMAIN page
    PROVE  /\ Listed(i) \in Record
           /\ Listed(i).item = i
           /\ \A n \in DOMAIN Listed(i).told : Listed(i).told[n] = page[i]
           /\ DOMAIN Rest(i) = DOMAIN page \ {i}
           /\ Rest(i) \in [DOMAIN Rest(i) -> Configs]
           /\ \A j \in DOMAIN Rest(i) : Rest(i)[j] = page[j]
<1>1. page[i] \in Configs
  BY DEF Types
<1>2. <<page[i]>> \in Seq(Configs) /\ DOMAIN <<page[i]>> = {1}
  BY <1>1
<1>3. Listed(i) \in Record /\ Listed(i).item = i
  BY <1>2 DEF Listed, Record, Types
<1>4. \A n \in DOMAIN Listed(i).told : Listed(i).told[n] = page[i]
  BY <1>2 DEF Listed
<1>5. DOMAIN Rest(i) = DOMAIN page \ {i} /\ \A j \in DOMAIN Rest(i) : Rest(i)[j] = page[j]
  BY DEF Rest
<1>6. Rest(i) \in [DOMAIN Rest(i) -> Configs]
  BY DEF Rest, Types
<1> QED
  BY <1>3, <1>4, <1>5, <1>6

\* What an answer adds to the record of the item.
LEMMA AnswerTyped ==
    ASSUME Types, NEW r \in hand, cloud[r.item] # Gone
    PROVE  /\ Told(r) \in Record
           /\ Told(r).item = r.item
           /\ r.item \in There
           /\ \A n \in DOMAIN Told(r).told :
                \/ n \in DOMAIN r.told /\ Told(r).told[n] = r.told[n]
                \/ Told(r).told[n] = cloud[r.item]
<1>1. r \in Record /\ r.item \in Items /\ r.told \in Seq(Configs)
  BY DEF Types, Record
<1>2. Answer(r.item) \in Configs
  BY <1>1 DEF Types, Answer
<1>3. /\ Append(r.told, Answer(r.item)) \in Seq(Configs)
      /\ \A n \in DOMAIN Append(r.told, Answer(r.item)) :
           \/ n \in DOMAIN r.told /\ Append(r.told, Answer(r.item))[n] = r.told[n]
           \/ Append(r.told, Answer(r.item))[n] = Answer(r.item)
  BY <1>1, <1>2
<1> QED
  BY <1>1, <1>2, <1>3 DEF Record, Answer, Told, There

\* A behaviour starts well typed.
LEMMA TypesInit == Init => Types
<1> SUFFICES ASSUME Init PROVE Types
  OBVIOUS
<1>1. cloud \in [Items -> Configs \cup {Gone}]
  BY ReadsAssumption DEF Init
<1>2. calls \in 0..MaxCalls /\ changes \in 0..MaxChanges
  BY ReadsAssumption DEF Init
<1>3. DOMAIN page \subseteq Items /\ page \in [DOMAIN page -> Configs]
  BY EmptyPage DEF Init
<1>4. hand = {} /\ got \in Seq(Record) /\ inventory \in Seq(Record)
  BY DEF Init
<1>5. seen \subseteq Items \X Configs /\ steady \subseteq Items \X Configs
  BY DEF Init
<1>6. source \in Sources /\ outcome = "none" /\ more = FALSE /\ after = 0
  BY DEF Init
<1> QED
  BY <1>1, <1>2, <1>3, <1>4, <1>5, <1>6 DEF Types

\* Every step keeps the types.
LEMMA TypesStep == Types /\ [Next]_vars => Types'
<1> SUFFICES ASSUME Types, [Next]_vars PROVE Types'
  OBVIOUS
<1>1. CASE Begin
  BY <1>1, NowTyped, EmptyPage, ReadsAssumption DEF Begin, Types
<1>2. CASE FetchPage
  <2>1. PICK P \in SUBSET There :
          /\ page' = [i \in P |-> cloud[i]]
          /\ IF P = {} THEN UNCHANGED after ELSE after' \in P
          /\ more' \in BOOLEAN
    BY <1>2 DEF FetchPage, Follows
  <2>2. DOMAIN page' = P /\ page' \in [P -> Configs] /\ P \subseteq Items
    BY <2>1, NowTyped
  <2>3. after' \in Items \cup {0}
    BY <2>1, <2>2 DEF Types
  <2> QED
    BY <1>2, <2>1, <2>2, <2>3 DEF FetchPage, Types, project
<1>3. CASE TakeItem
  <2>1. PICK i \in DOMAIN page :
          /\ got' = got \/ got' = Append(got, Listed(i))
          /\ page' = Empty \/ page' = Rest(i)
          /\ more' = more \/ more' = FALSE
    BY <1>3 DEF TakeItem
  <2>2. /\ Listed(i) \in Record
        /\ DOMAIN Rest(i) \subseteq Items /\ Rest(i) \in [DOMAIN Rest(i) -> Configs]
    BY ListedTyped DEF Types
  <2>3. got \in Seq(Record) /\ more \in BOOLEAN
    BY DEF Types
  <2>4. got' \in Seq(Record)
    BY <2>1, <2>2, <2>3
  <2>5. more' \in BOOLEAN
    BY <2>1, <2>3
  <2>6. DOMAIN page' \subseteq Items /\ page' \in [DOMAIN page' -> Configs]
    BY <2>1, <2>2, EmptyPage
  <2> QED
    BY <1>3, <2>4, <2>5, <2>6 DEF TakeItem, Types, project
<1>4. CASE AskAbout
  <2>1. PICK i \in DOMAIN page : hand' = {Listed(i)} /\ page' = Rest(i)
    BY <1>4 DEF AskAbout
  <2>2. DOMAIN page' \subseteq Items /\ page' \in [DOMAIN page' -> Configs]
    BY <2>1, ListedTyped DEF Types
  <2>3. \E r \in Record : hand' = {r}
    BY <2>1, ListedTyped
  <2> QED
    BY <1>4, <2>2, <2>3 DEF AskAbout, Types, project
<1>5. CASE ReadPart
  <2>1. PICK r \in hand : /\ cloud[r.item] # Gone
                          /\ \/ got' = Append(got, Told(r)) /\ hand' = {}
                             \/ hand' = {Told(r)} /\ got' = got
    BY <1>5 DEF ReadPart
  <2>2. Told(r) \in Record
    BY <2>1, AnswerTyped
  <2>3. got \in Seq(Record)
    BY DEF Types
  <2>4. got' \in Seq(Record) /\ (hand' = {} \/ \E t \in Record : hand' = {t})
    BY <2>1, <2>2, <2>3
  <2> QED
    BY <1>5, <2>4 DEF ReadPart, Types, project
<1>6. CASE ApiFailure
  BY <1>6 DEF ApiFailure, Types, project
<1>7. CASE Finish
  BY <1>7 DEF Finish, Types, project
<1>8. ASSUME NEW i \in Items, NEW config \in Configs \cup {Gone}, Change(i, config)
      PROVE  Types'
  <2>1. cloud' \in [Items -> Configs \cup {Gone}]
    BY <1>8 DEF Change, Types
  <2>2. changes' \in 0..MaxChanges
    BY <1>8, ReadsAssumption DEF Change, Types
  <2>3. seen' \subseteq Items \X Configs /\ steady' \subseteq Items \X Configs
    BY <1>8 DEF Change, Types
  <2> QED
    BY <1>8, <2>1, <2>2, <2>3 DEF Change, Types, read
<1>9. CASE UNCHANGED vars
  BY <1>9 DEF vars, project, read, Types
<1> QED
  BY <1>1, <1>2, <1>3, <1>4, <1>5, <1>6, <1>7, <1>8, <1>9 DEF Next, Step, NotFound

\* The type invariant, whatever the project does.
THEOREM AlwaysTypeOK == Spec => []TypeOK
<1>1. ASSUME NEW s \in Seq(Record)
      PROVE  Read(s) \subseteq Items
  <2>1. \A k \in DOMAIN s : s[k] \in Record
    OBVIOUS
  <2>2. \A r \in Record : r.item \in Items
    BY DEF Record
  <2> QED
    BY <2>1, <2>2 DEF Read
<1>2. ASSUME Types
      PROVE  Cardinality(hand) <= 1
  <2>1. Cardinality({}) = 0 /\ \A r : Cardinality({r}) = 1
    BY FS_EmptySet, FS_Singleton
  <2>2. CASE hand = {}
    BY <2>1, <2>2
  <2>3. CASE hand # {}
    <3>1. PICK r : hand = {r}
      BY <1>2, <2>3 DEF Types
    <3>2. Cardinality(hand) = 1
      BY <2>1, <3>1
    <3> QED
      BY <3>2
  <2> QED
    BY <2>2, <2>3
<1>3. ASSUME Types
      PROVE  Read(got) \subseteq Items /\ Read(inventory) \subseteq Items
  BY <1>1, <1>3 DEF Types
<1>4. Types => TypeOK
  BY <1>2, <1>3 DEF Types, TypeOK
<1> QED
  BY <1>4, TypesInit, TypesStep, PTL DEF Spec

-----------------------------------------------------------------------------
(***************************************************************************)
(* Whatever is on its way into the list was so during this call.           *)
(***************************************************************************)
Fresh ==
    /\ outcome = "reading" =>
         /\ Now \subseteq seen
         /\ \A i \in DOMAIN page : <<i, page[i]>> \in seen
         /\ \A r \in hand : \A n \in DOMAIN r.told : <<r.item, r.told[n]>> \in seen
    /\ outcome \in {"reading", "ok"} =>
         \A k \in DOMAIN got : \A n \in DOMAIN got[k].told :
           <<got[k].item, got[k].told[n]>> \in seen

\* A list whose additions were seen holds only what was seen.
LEMMA AppendFresh ==
    ASSUME NEW s \in Seq(Record), NEW r \in Record, NEW S,
           \A k \in DOMAIN s : \A n \in DOMAIN s[k].told : <<s[k].item, s[k].told[n]>> \in S,
           \A n \in DOMAIN r.told : <<r.item, r.told[n]>> \in S
    PROVE  \A k \in DOMAIN Append(s, r) : \A n \in DOMAIN Append(s, r)[k].told :
             <<Append(s, r)[k].item, Append(s, r)[k].told[n]>> \in S
<1>1. \A k \in DOMAIN Append(s, r) : (k \in DOMAIN s /\ Append(s, r)[k] = s[k]) \/ Append(s, r)[k] = r
  OBVIOUS
<1> QED
  BY <1>1

\* Every step keeps what is on its way fresh.
LEMMA FreshStep == Types /\ Fresh /\ [Next]_vars => Fresh'
<1> SUFFICES ASSUME Types, Fresh, [Next]_vars PROVE Fresh'
  OBVIOUS
<1>1. CASE Begin
  BY <1>1, EmptyPage DEF Begin, Fresh, Now, There
<1>2. CASE FetchPage
  <2>1. PICK P \in SUBSET There : page' = [i \in P |-> cloud[i]]
    BY <1>2 DEF FetchPage
  <2>2. \A i \in DOMAIN page' : <<i, page'[i]>> \in seen
    BY <1>2, <2>1, NowTyped DEF FetchPage, Fresh
  <2> QED
    BY <1>2, <2>2 DEF FetchPage, Fresh, project, Now, There
<1>3. CASE TakeItem
  <2>1. PICK i \in DOMAIN page :
          /\ got' = got \/ got' = Append(got, Listed(i))
          /\ page' = Empty \/ page' = Rest(i)
    BY <1>3 DEF TakeItem
  <2>2. /\ \A j \in DOMAIN page' : <<j, page'[j]>> \in seen
        /\ \A n \in DOMAIN Listed(i).told : <<Listed(i).item, Listed(i).told[n]>> \in seen
    <3>1. \A j \in DOMAIN page : <<j, page[j]>> \in seen
      BY <1>3 DEF TakeItem, Fresh
    <3>2. \A j \in DOMAIN page' : j \in DOMAIN page /\ page'[j] = page[j]
      <4>1. CASE page' = Empty
        BY <4>1, EmptyPage
      <4>2. CASE page' = Rest(i)
        BY <4>2, ListedTyped
      <4> QED
        BY <2>1, <4>1, <4>2
    <3>3. \A n \in DOMAIN Listed(i).told :
            Listed(i).item = i /\ Listed(i).told[n] = page[i]
      BY ListedTyped
    <3> QED
      BY <3>1, <3>2, <3>3
  <2>3. /\ \A k \in DOMAIN got : \A n \in DOMAIN got[k].told : <<got[k].item, got[k].told[n]>> \in seen
        /\ got \in Seq(Record)
        /\ Listed(i) \in Record
    BY <1>3, ListedTyped DEF TakeItem, Fresh, Types
  <2>4. \A k \in DOMAIN got' : \A n \in DOMAIN got'[k].told : <<got'[k].item, got'[k].told[n]>> \in seen
    BY <2>1, <2>2, <2>3, AppendFresh
  <2> QED
    BY <1>3, <2>2, <2>4 DEF TakeItem, Fresh, project, Now, There
<1>4. CASE AskAbout
  <2>1. PICK i \in DOMAIN page : hand' = {Listed(i)} /\ page' = Rest(i)
    BY <1>4 DEF AskAbout
  <2>2. /\ \A j \in DOMAIN page' : <<j, page'[j]>> \in seen
        /\ \A n \in DOMAIN Listed(i).told : <<Listed(i).item, Listed(i).told[n]>> \in seen
    <3>1. \A j \in DOMAIN page : <<j, page[j]>> \in seen
      BY <1>4 DEF AskAbout, Fresh
    <3>2. \A j \in DOMAIN page' : j \in DOMAIN page /\ page'[j] = page[j]
      BY <2>1, ListedTyped
    <3>3. \A n \in DOMAIN Listed(i).told :
            Listed(i).item = i /\ Listed(i).told[n] = page[i]
      BY ListedTyped
    <3> QED
      BY <3>1, <3>2, <3>3
  <2> QED
    BY <1>4, <2>1, <2>2 DEF AskAbout, Fresh, project, Now, There
<1>5. CASE ReadPart
  <2>1. PICK r \in hand : /\ cloud[r.item] # Gone
                          /\ \/ got' = Append(got, Told(r)) /\ hand' = {}
                             \/ hand' = {Told(r)} /\ got' = got
    BY <1>5 DEF ReadPart
  <2>2. <<r.item, cloud[r.item]>> \in seen
    BY <1>5, <2>1, AnswerTyped, NowTyped DEF ReadPart, Fresh
  <2>3. Told(r) \in Record /\ \A n \in DOMAIN Told(r).told : <<Told(r).item, Told(r).told[n]>> \in seen
    BY <1>5, <2>1, <2>2, AnswerTyped DEF ReadPart, Fresh
  <2>4. \A k \in DOMAIN got : \A n \in DOMAIN got[k].told : <<got[k].item, got[k].told[n]>> \in seen
    BY <1>5 DEF ReadPart, Fresh
  <2>5. /\ \A k \in DOMAIN got' : \A n \in DOMAIN got'[k].told :
             <<got'[k].item, got'[k].told[n]>> \in seen
        /\ \A t \in hand' : \A n \in DOMAIN t.told : <<t.item, t.told[n]>> \in seen
    BY <2>1, <2>3, <2>4, AppendFresh DEF Types
  <2> QED
    BY <1>5, <2>5 DEF ReadPart, Fresh, project, Now, There
<1>6. CASE ApiFailure
  BY <1>6 DEF ApiFailure, Fresh
<1>7. CASE Finish
  BY <1>7 DEF Finish, Fresh, project
<1>8. ASSUME NEW i \in Items, NEW config \in Configs \cup {Gone}, Change(i, config)
      PROVE  Fresh'
  <2>1. CASE outcome = "reading"
    <3>1. seen \subseteq seen'
      BY <1>8, <2>1 DEF Change
    <3>2. Now' \subseteq seen'
      BY <1>8, <2>1 DEF Change, Now, There, Fresh, Types
    <3> QED
      BY <1>8, <2>1, <3>1, <3>2 DEF Change, Fresh, read
  <2>2. CASE outcome # "reading"
    BY <1>8, <2>2 DEF Change, Fresh, read
  <2> QED
    BY <2>1, <2>2
<1>9. CASE UNCHANGED vars
  BY <1>9 DEF vars, project, read, Fresh, Now, There
<1> QED
  BY <1>1, <1>2, <1>3, <1>4, <1>5, <1>6, <1>7, <1>8, <1>9 DEF Next, Step, NotFound

\* iam_guard collectors.py:153-182: in every reachable state, whatever the list
\* says of an item was so at some moment of this call.
THEOREM AlwaysAnswersOfThisCall == Spec => []AnswersOfThisCall
<1>1. Init => Fresh
  BY DEF Init, Fresh
<1>2. Fresh => AnswersOfThisCall
  BY DEF Fresh, AnswersOfThisCall
<1> QED
  BY <1>1, <1>2, TypesInit, TypesStep, FreshStep, PTL DEF Spec

-----------------------------------------------------------------------------
(***************************************************************************)
(* The cap.  Where the service keeps it, the items fetched and not yet in  *)
(* the list count as well.                                                 *)
(***************************************************************************)
OnTheWay == Len(got) + Cardinality(DOMAIN page) + Cardinality(hand)

Bounded ==
    /\ IsFiniteSet(DOMAIN page)
    /\ Limited => OnTheWay <= MaxItems
    /\ source \in {"gce_inventory", "scc_findings"} => Len(got) <= MaxItems /\ hand = {}
    /\ source = "scc_findings" /\ outcome = "reading" /\ (more \/ DOMAIN page # {}) =>
         Len(got) < MaxItems

\* At most one item is in hand.
LEMMA HandCounts ==
    /\ Cardinality({}) = 0 /\ IsFiniteSet({})
    /\ \A r : Cardinality({r}) = 1
BY FS_EmptySet, FS_Singleton

\* A page is no longer than its limit, and the limit leaves room.
LEMMA PageFits ==
    ASSUME Types, Bounded, FetchPage
    PROVE  /\ IsFiniteSet(DOMAIN page')
           /\ Cardinality(DOMAIN page') \in Nat
           /\ Limited => Len(got) + Cardinality(DOMAIN page') <= MaxItems
<1>1. PICK P \in SUBSET There :
        /\ page' = [i \in P |-> cloud[i]]
        /\ Cardinality(P) <= PageLimit
  BY DEF FetchPage, FirstOf
<1>2. DOMAIN page' = P /\ P \subseteq Items
  BY <1>1 DEF There
<1>3. IsFiniteSet(P) /\ Cardinality(P) \in Nat
  BY <1>2, ReadsAssumption, FS_Subset, FS_CardinalityType
<1>4. Len(got) \in Nat
  BY DEF Types
<1>5. Limited => PageLimit <= MaxItems - Len(got)
  BY <1>4, ReadsAssumption DEF PageLimit, Limited
<1>6. PageLimit \in Int
  BY <1>4, ReadsAssumption DEF PageLimit
<1> QED
  BY <1>1, <1>2, <1>3, <1>4, <1>5, <1>6, ReadsAssumption

\* The three numbers are numbers.
LEMMA WayTyped ==
    ASSUME Types, Bounded
    PROVE  /\ Len(got) \in Nat /\ MaxItems \in Nat \ {0} /\ IsFiniteSet(DOMAIN page)
           /\ Cardinality(DOMAIN page) \in Nat /\ Cardinality(hand) \in {0, 1}
<1>1. Cardinality(hand) \in {0, 1}
  <2>1. CASE hand = {}
    BY <2>1, HandCounts
  <2>2. CASE hand # {}
    <3>1. PICK r : hand = {r}
      BY <2>2 DEF Types
    <3> QED
      BY <3>1, HandCounts
  <2> QED
    BY <2>1, <2>2
<1> QED
  BY <1>1, ReadsAssumption, FS_CardinalityType DEF Types, Bounded

\* Asking about an item, and adding it to the list, loses none.
LEMMA AskCounts ==
    ASSUME Types, Bounded, AskAbout
    PROVE  IsFiniteSet(DOMAIN page') /\ got' = got /\ OnTheWay' = OnTheWay
<1>1. PICK i \in DOMAIN page : hand' = {Listed(i)} /\ page' = Rest(i)
  BY DEF AskAbout
<1>2. /\ source \notin {"gce_inventory", "scc_findings"}
      /\ got' = got /\ hand = {}
  BY DEF AskAbout, Parts
<1>3. DOMAIN page' = DOMAIN page \ {i}
  BY <1>1, ListedTyped
<1>4. /\ IsFiniteSet(DOMAIN page')
      /\ Cardinality(DOMAIN page') = Cardinality(DOMAIN page) - 1
  BY WayTyped, <1>3, FS_RemoveElement
<1>5. Cardinality(hand') = 1 /\ Cardinality(hand) = 0
  BY <1>1, <1>2, HandCounts
<1>6. OnTheWay' = OnTheWay
  BY WayTyped, <1>2, <1>4, <1>5 DEF OnTheWay
<1> QED
  BY <1>2, <1>4, <1>6

\* What is asked about the item in hand moves it into the list, and no other.
LEMMA ReadCounts ==
    ASSUME Types, Bounded, ReadPart
    PROVE  /\ page' = page /\ OnTheWay' = OnTheWay
           /\ source \notin {"gce_inventory", "scc_findings"}
<1>1. PICK r \in hand : /\ cloud[r.item] # Gone
                        /\ \/ got' = Append(got, Told(r)) /\ hand' = {}
                           \/ hand' = {Told(r)} /\ got' = got
  BY DEF ReadPart
<1>2. page' = page /\ hand # {}
  BY <1>1 DEF ReadPart
<1>3. source \notin {"gce_inventory", "scc_findings"}
  BY <1>2 DEF Bounded
<1>4. Cardinality(hand) = 1
  <2>1. PICK t : hand = {t}
    BY <1>2 DEF Types
  <2> QED
    BY <2>1, HandCounts
<1>5. got \in Seq(Record) /\ Told(r) \in Record
  BY <1>1, AnswerTyped DEF Types
<1>6. \/ Len(got') = Len(got) + 1 /\ Cardinality(hand') = 0
      \/ Len(got') = Len(got) /\ Cardinality(hand') = 1
  <2>1. CASE got' = Append(got, Told(r)) /\ hand' = {}
    <3>1. Len(got') = Len(got) + 1
      BY <1>5, <2>1
    <3>2. Cardinality(hand') = 0
      BY <2>1, HandCounts
    <3> QED
      BY <3>1, <3>2
  <2>2. CASE hand' = {Told(r)} /\ got' = got
    <3>1. Cardinality(hand') = 1
      BY <2>2, HandCounts
    <3> QED
      BY <2>2, <3>1
  <2> QED
    BY <1>1, <2>1, <2>2
<1>7. OnTheWay' = OnTheWay
  BY WayTyped, <1>2, <1>4, <1>6 DEF OnTheWay
<1> QED
  BY <1>2, <1>3, <1>7

\* Every step keeps within the cap.
LEMMA BoundedStep == Types /\ Bounded /\ [Next]_vars => Bounded'
<1> SUFFICES ASSUME Types, Bounded, [Next]_vars PROVE Bounded'
  OBVIOUS
<1> USE DEF Limited
<1>1. Len(got) \in Nat /\ MaxItems \in Nat \ {0} /\ IsFiniteSet(DOMAIN page)
      /\ Cardinality(DOMAIN page) \in Nat /\ Cardinality(hand) \in {0, 1}
  BY WayTyped
<1>2. source' = source
  BY DEF Next, Step, vars, Begin, FetchPage, TakeItem, AskAbout, ReadPart, NotFound, ApiFailure,
         Finish, Change
<1>3. CASE Begin
  <2>1. Len(got') = 0 /\ DOMAIN page' = {} /\ hand' = {} /\ more' = TRUE
    BY <1>3, EmptyPage DEF Begin
  <2>2. OnTheWay' = 0
    BY <2>1, HandCounts DEF OnTheWay
  <2> QED
    BY <1>1, <1>2, <2>1, <2>2, HandCounts DEF Bounded
<1>4. CASE FetchPage
  <2>1. got' = got /\ hand' = hand /\ hand = {} /\ more = TRUE /\ outcome = "reading"
    BY <1>4 DEF FetchPage, Types
  <2>2. /\ IsFiniteSet(DOMAIN page')
        /\ Limited => Len(got) + Cardinality(DOMAIN page') <= MaxItems
        /\ Cardinality(DOMAIN page') \in Nat
    BY <1>4, PageFits
  <2>3. OnTheWay' = Len(got) + Cardinality(DOMAIN page') + 0
    BY <2>1, HandCounts DEF OnTheWay
  <2> QED
    BY <1>1, <1>2, <2>1, <2>2, <2>3 DEF Bounded
<1>5. CASE TakeItem
  <2>1. ~Limited /\ hand' = hand /\ outcome = "reading" /\ outcome' = outcome
    BY <1>5 DEF TakeItem, Parts, project
  <2>2. PICK i \in DOMAIN page :
          IF source = "gce_inventory" /\ Full(Len(got))
          THEN page' = Empty /\ UNCHANGED <<more, got>>
          ELSE /\ got' = IF Kept(page[i]) THEN Append(got, Listed(i)) ELSE got
               /\ IF source = "scc_findings" /\ Full(Len(got'))
                  THEN page' = Empty /\ more' = FALSE
                  ELSE page' = Rest(i) /\ UNCHANGED more
    BY <1>5 DEF TakeItem
  <2>3. page' = Empty \/ page' = Rest(i)
    BY <2>2
  <2>4. DOMAIN page' = {} \/ DOMAIN page' = DOMAIN page \ {i}
    BY <2>3, EmptyPage, ListedTyped
  <2>5. IsFiniteSet(DOMAIN page')
    BY <1>1, <2>4, HandCounts, FS_RemoveElement
  <2>6. got \in Seq(Record) /\ Listed(i) \in Record
    BY ListedTyped DEF Types
  <2>7. Len(got') = Len(got) \/ Len(got') = Len(got) + 1
    BY <2>2, <2>6
  <2>8. CASE source = "gce_inventory"
    <3>1. CASE Full(Len(got))
      BY <2>2, <2>8, <3>1, <1>2, <2>1, <2>5 DEF Bounded
    <3>2. CASE ~Full(Len(got))
      BY <1>1, <1>2, <2>1, <2>5, <2>7, <2>8, <3>2 DEF Bounded, Full
    <3> QED
      BY <3>1, <3>2
  <2>9. CASE source = "scc_findings"
    <3>1. Len(got) < MaxItems
      BY <2>1, <2>9 DEF Bounded
    <3>2. CASE Full(Len(got'))
      <4>1. DOMAIN page' = {} /\ more' = FALSE
        BY <2>2, <2>9, <3>2, EmptyPage
      <4> QED
        BY <1>1, <1>2, <2>1, <2>5, <2>7, <2>9, <3>1, <4>1 DEF Bounded
    <3>3. CASE ~Full(Len(got'))
      BY <1>1, <1>2, <2>1, <2>5, <2>7, <2>9, <3>1, <3>3 DEF Bounded, Full
    <3> QED
      BY <3>2, <3>3
  <2> QED
    BY <1>2, <2>1, <2>5, <2>8, <2>9 DEF Bounded
<1>6. CASE AskAbout
  <2>1. source \notin {"gce_inventory", "scc_findings"}
    BY <1>6 DEF AskAbout, Parts
  <2> QED
    BY <1>2, <1>6, <2>1, AskCounts DEF Bounded
<1>7. CASE ReadPart
  BY <1>2, <1>7, ReadCounts DEF Bounded
<1>8. CASE UNCHANGED <<page, hand, got>> /\ outcome' # "reading"
  BY <1>2, <1>8 DEF Bounded, OnTheWay
<1>9. CASE UNCHANGED <<page, hand, got, more, outcome>>
  BY <1>2, <1>9 DEF Bounded, OnTheWay
<1>10. CASE ApiFailure
  BY <1>8, <1>10 DEF ApiFailure
<1>11. CASE Finish
  BY <1>8, <1>11 DEF Finish
<1>12. ASSUME NEW i \in Items, NEW config \in Configs \cup {Gone}, Change(i, config)
       PROVE  Bounded'
  BY <1>9, <1>12 DEF Change, read
<1>13. CASE UNCHANGED vars
  BY <1>9, <1>13 DEF vars, read
<1> QED
  BY <1>3, <1>4, <1>5, <1>6, <1>7, <1>10, <1>11, <1>12, <1>13 DEF Next, Step, NotFound

\* A behaviour starts within the cap.
LEMMA BoundedInit == Init => Bounded
<1> SUFFICES ASSUME Init PROVE Bounded
  OBVIOUS
<1>1. DOMAIN page = {} /\ hand = {} /\ Len(got) = 0 /\ outcome = "none"
  BY EmptyPage DEF Init
<1>2. OnTheWay = 0
  BY <1>1, HandCounts DEF OnTheWay
<1> QED
  BY <1>1, <1>2, HandCounts, ReadsAssumption DEF Bounded

\* config.py:37-39: no read ever has more items in its list than the cap, over
\* all pages and zones, in every reachable state and whatever fails.
THEOREM AlwaysCapHolds == Spec => []CapHolds
<1>1. ASSUME Types, Bounded
      PROVE  CapHolds
  <2>1. Len(got) \in Nat /\ Cardinality(DOMAIN page) \in Nat /\ Cardinality(hand) \in Nat
    <3>1. IsFiniteSet(hand)
      <4>1. CASE hand = {}
        BY <4>1, FS_EmptySet
      <4>2. CASE hand # {}
        <5>1. PICK r : hand = {r}
          BY <1>1, <4>2 DEF Types
        <5> QED
          BY <5>1, FS_Singleton
      <4> QED
        BY <4>1, <4>2
    <3> QED
      BY <1>1, <3>1, FS_CardinalityType DEF Types, Bounded
  <2>2. Limited => Len(got) <= MaxItems
    BY <1>1, <2>1, ReadsAssumption DEF Bounded, OnTheWay
  <2> QED
    BY <1>1, <2>2 DEF CapHolds, Capped, Limited, Bounded
<1> QED
  BY <1>1, TypesInit, TypesStep, BoundedInit, BoundedStep, PTL DEF Spec

-----------------------------------------------------------------------------
(***************************************************************************)
(* The order of a read: what is in the list lies before the item in hand,  *)
(* that before the rest of the page, and all of it before the next page.   *)
(***************************************************************************)
Increasing(s) == \A k \in DOMAIN s : \A l \in DOMAIN s : k < l => s[k].item < s[l].item

Ordered ==
    /\ Parts = <<>> => hand = {}
    /\ Increasing(got)
    /\ \A k \in DOMAIN got : got[k].item <= after
    /\ \A k \in DOMAIN got : \A j \in DOMAIN page : got[k].item < j
    /\ \A k \in DOMAIN got : \A r \in hand : got[k].item < r.item
    /\ \A r \in hand : r.item <= after
    /\ \A r \in hand : \A j \in DOMAIN page : r.item < j
    /\ \A j \in DOMAIN page : j <= after

\* Items are positions, so they can be compared.
LEMMA ItemsAreNumbers ==
    ASSUME Types
    PROVE  /\ after \in Nat
           /\ \A j \in DOMAIN page : j \in Nat
           /\ \A r \in hand : r \in Record
           /\ \A r \in Record : r.item \in Nat
           /\ \A k \in DOMAIN got : got[k] \in Record /\ got[k].item \in Nat
<1>1. \A r \in Record : r.item \in Nat
  BY ReadsAssumption DEF Record
<1>2. \A k \in DOMAIN got : got[k] \in Record
  BY DEF Types
<1> QED
  BY <1>1, <1>2, ReadsAssumption DEF Types

\* What is appended after all of an increasing list leaves it increasing.
LEMMA AppendInOrder ==
    ASSUME NEW s \in Seq(Record), NEW r \in Record, Increasing(s),
           \A k \in DOMAIN s : s[k].item < r.item
    PROVE  /\ Increasing(Append(s, r))
           /\ \A k \in DOMAIN Append(s, r) :
                (k \in DOMAIN s /\ Append(s, r)[k] = s[k]) \/ Append(s, r)[k] = r
<1>1. /\ DOMAIN Append(s, r) = 1..(Len(s) + 1)
      /\ DOMAIN s = 1..Len(s)
      /\ Append(s, r)[Len(s) + 1] = r
      /\ \A k \in 1..Len(s) : Append(s, r)[k] = s[k]
      /\ Len(s) \in Nat
  OBVIOUS
<1>2. ASSUME NEW k \in DOMAIN Append(s, r), NEW l \in DOMAIN Append(s, r), k < l
      PROVE  Append(s, r)[k].item < Append(s, r)[l].item
  <2>1. k \in DOMAIN s /\ Append(s, r)[k] = s[k]
    BY <1>1, <1>2
  <2>2. CASE l \in DOMAIN s
    BY <1>1, <1>2, <2>1, <2>2 DEF Increasing
  <2>3. CASE l \notin DOMAIN s
    <3>1. l = Len(s) + 1
      BY <1>1, <2>3
    <3> QED
      BY <1>1, <2>1, <3>1
  <2> QED
    BY <2>2, <2>3
<1>3. Increasing(Append(s, r))
  BY <1>2 DEF Increasing
<1>4. ASSUME NEW k \in DOMAIN Append(s, r)
      PROVE  (k \in DOMAIN s /\ Append(s, r)[k] = s[k]) \/ Append(s, r)[k] = r
  BY <1>1
<1> QED
  BY <1>3, <1>4

\* Every step keeps the order.
LEMMA OrderedStep == Types /\ Ordered /\ [Next]_vars => Ordered'
<1> SUFFICES ASSUME Types, Ordered, [Next]_vars PROVE Ordered'
  OBVIOUS
<1>0. Parts' = Parts
  BY DEF Next, Step, vars, Begin, FetchPage, TakeItem, AskAbout, ReadPart, NotFound, ApiFailure,
         Finish, Change, Parts
<1>1. CASE Begin
  <2>1. DOMAIN page' = {} /\ hand' = {} /\ DOMAIN got' = {}
    BY <1>1, EmptyPage DEF Begin
  <2> QED
    BY <1>0, <2>1 DEF Ordered, Increasing
<1>2. CASE FetchPage
  <2>1. PICK P \in SUBSET {i \in There : i > after} :
          /\ page' = [i \in P |-> cloud[i]]
          /\ IF P = {} THEN after' = after ELSE after' \in P /\ \A i \in P : i <= after'
    BY <1>2 DEF FetchPage
  <2>2. got' = got /\ hand' = hand /\ hand = {} /\ DOMAIN page' = P
    BY <1>2, <2>1 DEF FetchPage
  <2>3. P \subseteq Nat /\ \A i \in P : after < i
    BY <2>1, ReadsAssumption, ItemsAreNumbers DEF There
  <2>4. after' \in Nat /\ after <= after' /\ \A i \in P : i <= after'
    <3>1. CASE P = {}
      BY <2>1, <3>1, ItemsAreNumbers
    <3>2. CASE P # {}
      <4>1. after' \in P /\ \A i \in P : i <= after'
        BY <2>1, <3>2
      <4>2. after' \in Nat /\ after \in Nat /\ after < after'
        BY <2>3, <4>1, ItemsAreNumbers
      <4> QED
        BY <4>1, <4>2
    <3> QED
      BY <3>1, <3>2
  <2>5. \A k \in DOMAIN got : got[k].item \in Nat /\ got[k].item <= after
    BY ItemsAreNumbers DEF Ordered
  <2>6. /\ \A k \in DOMAIN got : got[k].item <= after'
        /\ \A k \in DOMAIN got : \A j \in P : got[k].item < j
    BY <2>3, <2>4, <2>5, ItemsAreNumbers
  <2> QED
    BY <1>0, <2>2, <2>4, <2>6 DEF Ordered
<1>3. CASE TakeItem
  <2>1. PICK i \in DOMAIN page :
          /\ IsNext(i)
          /\ got' = got \/ got' = Append(got, Listed(i))
          /\ page' = Empty \/ page' = Rest(i)
    BY <1>3 DEF TakeItem
  <2>2. hand' = hand /\ after' = after
    BY <1>3 DEF TakeItem
  <2>3. /\ DOMAIN page' \subseteq DOMAIN page \ {i}
        /\ \A j \in DOMAIN page \ {i} : i < j
    <3>1. DOMAIN page' \subseteq DOMAIN page \ {i}
      BY <2>1, EmptyPage, ListedTyped
    <3>2. \A j \in DOMAIN page : j \in Nat /\ i \in Nat /\ i <= j
      BY <2>1, ItemsAreNumbers DEF IsNext
    <3> QED
      BY <3>1, <3>2
  <2>4. Listed(i) \in Record /\ Listed(i).item = i /\ got \in Seq(Record) /\ hand = {}
    <3>1. hand = {}
      BY <1>3 DEF TakeItem, Ordered
    <3> QED
      BY <3>1, ListedTyped DEF Types
  <2>5. CASE got' = got
    BY <1>0, <2>2, <2>3, <2>4, <2>5 DEF Ordered
  <2>6. CASE got' = Append(got, Listed(i))
    <3>1. /\ Increasing(got')
          /\ \A k \in DOMAIN got' : (k \in DOMAIN got /\ got'[k] = got[k]) \/ got'[k] = Listed(i)
      BY <2>4, <2>6, AppendInOrder DEF Ordered
    <3>2. \A k \in DOMAIN got' : got'[k].item <= after
      BY <3>1, <2>4 DEF Ordered
    <3>3. \A k \in DOMAIN got' : \A j \in DOMAIN page' : got'[k].item < j
      BY <3>1, <2>3, <2>4 DEF Ordered
    <3> QED
      BY <1>0, <2>2, <2>3, <2>4, <3>1, <3>2, <3>3 DEF Ordered
  <2> QED
    BY <2>1, <2>5, <2>6
<1>4. CASE AskAbout
  <2>1. PICK i \in DOMAIN page : IsNext(i) /\ hand' = {Listed(i)} /\ page' = Rest(i)
    BY <1>4 DEF AskAbout
  <2>2. got' = got /\ after' = after
    BY <1>4 DEF AskAbout
  <2>3. /\ DOMAIN page' \subseteq DOMAIN page \ {i}
        /\ \A j \in DOMAIN page \ {i} : i < j
    <3>1. DOMAIN page' \subseteq DOMAIN page \ {i}
      BY <2>1, ListedTyped
    <3>2. \A j \in DOMAIN page : j \in Nat /\ i \in Nat /\ i <= j
      BY <2>1, ItemsAreNumbers DEF IsNext
    <3> QED
      BY <3>1, <3>2
  <2>4. \A r \in hand' : r.item = i
    BY <2>1, ListedTyped
  <2> QED
    BY <1>0, <1>4, <2>2, <2>3, <2>4 DEF Ordered, AskAbout
<1>5. CASE ReadPart
  <2>1. PICK r \in hand : /\ cloud[r.item] # Gone
                          /\ \/ got' = Append(got, Told(r)) /\ hand' = {}
                             \/ hand' = {Told(r)} /\ got' = got
    BY <1>5 DEF ReadPart
  <2>2. page' = page /\ after' = after
    BY <1>5 DEF ReadPart
  <2>3. Told(r) \in Record /\ Told(r).item = r.item /\ got \in Seq(Record)
    BY <2>1, AnswerTyped DEF Types
  <2>4. CASE hand' = {Told(r)} /\ got' = got
    BY <1>0, <2>1, <2>2, <2>3, <2>4 DEF Ordered
  <2>5. CASE got' = Append(got, Told(r)) /\ hand' = {}
    <3>1. /\ Increasing(got')
          /\ \A k \in DOMAIN got' : (k \in DOMAIN got /\ got'[k] = got[k]) \/ got'[k] = Told(r)
      BY <2>3, <2>5, AppendInOrder DEF Ordered
    <3>2. \A k \in DOMAIN got' : got'[k].item <= after
      BY <3>1, <2>3 DEF Ordered
    <3>3. \A k \in DOMAIN got' : \A j \in DOMAIN page : got'[k].item < j
      BY <3>1, <2>3 DEF Ordered
    <3> QED
      BY <1>0, <2>2, <2>5, <3>1, <3>2, <3>3 DEF Ordered
  <2> QED
    BY <2>1, <2>4, <2>5
<1>6. CASE UNCHANGED <<page, hand, got, after>>
  BY <1>0, <1>6 DEF Ordered
<1>7. CASE ApiFailure
  BY <1>6, <1>7 DEF ApiFailure
<1>8. CASE Finish
  BY <1>6, <1>8 DEF Finish
<1>9. ASSUME NEW i \in Items, NEW config \in Configs \cup {Gone}, Change(i, config)
      PROVE  Ordered'
  BY <1>6, <1>9 DEF Change, read
<1>10. CASE UNCHANGED vars
  BY <1>6, <1>10 DEF vars, read
<1> QED
  BY <1>1, <1>2, <1>3, <1>4, <1>5, <1>7, <1>8, <1>9, <1>10 DEF Next, Step, NotFound

-----------------------------------------------------------------------------
(***************************************************************************)
(* Where an item that has not changed is: in the list, in hand, on the     *)
(* page or still to be listed, unless the cap leaves no room for it.       *)
(***************************************************************************)
Spent == Capped /\ OnTheWay >= MaxItems

Taken(x) ==
    \/ x[1] \in Read(got)
    \/ \E r \in hand : r.item = x[1]
    \/ x[1] \in DOMAIN page /\ page[x[1]] = x[2]

Accounted(x) == Taken(x) \/ ~Kept(x[2]) \/ Spent

Complete ==
    /\ outcome = "reading" =>
         /\ steady \subseteq Now
         /\ \A x \in steady : Accounted(x) \/ (more /\ x[1] > after)
    /\ outcome = "ok" =>
         /\ inventory = got /\ DOMAIN page = {} /\ hand = {}
         /\ \A x \in steady : Accounted(x)

\* A record that is appended is read, and so is all that was.
LEMMA ReadAppended ==
    ASSUME NEW s \in Seq(Record), NEW r \in Record
    PROVE  Read(s) \subseteq Read(Append(s, r)) /\ r.item \in Read(Append(s, r))
<1>1. /\ DOMAIN s \subseteq DOMAIN Append(s, r)
      /\ \A k \in DOMAIN s : Append(s, r)[k] = s[k]
      /\ Len(s) + 1 \in DOMAIN Append(s, r) /\ Append(s, r)[Len(s) + 1] = r
  OBVIOUS
<1> QED
  BY <1>1 DEF Read

\* The cap, once all of it is on its way, stays so: of a capped source nothing
\* is left out, and what is dropped is dropped because the list is full.
LEMMA TakeCounts ==
    ASSUME Types, Bounded, TakeItem
    PROVE  /\ Spent => Spent'
           /\ \/ Spent'
              \/ \E i \in DOMAIN page :
                   /\ got' = IF Kept(page[i]) THEN Append(got, Listed(i)) ELSE got
                   /\ page' = Rest(i) /\ more' = more
<1>1. PICK i \in DOMAIN page :
        IF source = "gce_inventory" /\ Full(Len(got))
        THEN page' = Empty /\ UNCHANGED <<more, got>>
        ELSE /\ got' = IF Kept(page[i]) THEN Append(got, Listed(i)) ELSE got
             /\ IF source = "scc_findings" /\ Full(Len(got'))
                THEN page' = Empty /\ more' = FALSE
                ELSE page' = Rest(i) /\ UNCHANGED more
  BY DEF TakeItem
<1>2. hand' = hand /\ source' = source /\ Capped' = Capped
  BY DEF TakeItem, Capped
<1>3. /\ got \in Seq(Record) /\ Listed(i) \in Record
      /\ DOMAIN Rest(i) = DOMAIN page \ {i}
  BY ListedTyped DEF Types
<1>4. /\ Cardinality(DOMAIN Rest(i)) = Cardinality(DOMAIN page) - 1
      /\ Cardinality(DOMAIN Empty) = 0
  BY <1>3, WayTyped, EmptyPage, HandCounts, FS_RemoveElement
<1>5. CASE source = "gce_inventory" /\ Full(Len(got))
  <2>1. got' = got /\ page' = Empty /\ Capped
    BY <1>1, <1>5 DEF Capped
  <2>2. OnTheWay' >= MaxItems
    BY <1>2, <1>4, <1>5, <2>1, WayTyped DEF OnTheWay, Full
  <2> QED
    BY <1>2, <2>1, <2>2 DEF Spent
<1>6. CASE ~(source = "gce_inventory" /\ Full(Len(got)))
  <2>1. /\ got' = IF Kept(page[i]) THEN Append(got, Listed(i)) ELSE got
        /\ IF source = "scc_findings" /\ Full(Len(got'))
           THEN page' = Empty /\ more' = FALSE
           ELSE page' = Rest(i) /\ UNCHANGED more
    BY <1>1, <1>6
  <2>2. Capped => Kept(page[i])
    BY DEF Capped, Kept
  <2>3. Capped => Len(got') = Len(got) + 1
    BY <1>3, <2>1, <2>2
  <2>4. CASE source = "scc_findings" /\ Full(Len(got'))
    <3>1. Capped /\ page' = Empty
      BY <2>1, <2>4 DEF Capped
    <3>2. OnTheWay' >= MaxItems
      BY <1>2, <1>4, <2>3, <2>4, <3>1, WayTyped DEF OnTheWay, Full
    <3> QED
      BY <1>2, <3>1, <3>2 DEF Spent
  <2>5. CASE ~(source = "scc_findings" /\ Full(Len(got')))
    <3>1. page' = Rest(i) /\ more' = more
      BY <2>1, <2>5
    <3>2. Capped => OnTheWay' = OnTheWay
      BY <1>2, <1>4, <2>3, <3>1, WayTyped DEF OnTheWay
    <3> QED
      BY <1>2, <2>1, <3>1, <3>2 DEF Spent
  <2> QED
    BY <2>4, <2>5
<1> QED
  BY <1>5, <1>6

\* A page either holds the steady items after the last one, or more is to come,
\* or the cap leaves no room.
LEMMA FetchAccounts ==
    ASSUME Types, Bounded, Complete, FetchPage
    PROVE  \A x \in steady : Accounted(x)' \/ (more' /\ x[1] > after')
<1>1. PICK P \in SUBSET {i \in There : i > after} :
        /\ \A i \in P, j \in {i \in There : i > after} \ P : i < j
        /\ page' = [i \in P |-> cloud[i]]
        /\ IF P = {} THEN after' = after ELSE after' \in P
        /\ more' = Follows(P, {i \in There : i > after})
  BY DEF FetchPage, FirstOf
<1>2. /\ got' = got /\ hand' = hand /\ hand = {} /\ DOMAIN page = {} /\ source' = source
      /\ outcome = "reading" /\ more = TRUE /\ DOMAIN page' = P
  BY <1>1, EmptyPage DEF FetchPage, Types
<1>3. Cardinality(P) \in Nat /\ Cardinality(DOMAIN page) = 0 /\ Cardinality(hand) = 0
  BY <1>2, PageFits, HandCounts
<1>4. OnTheWay = Len(got) /\ OnTheWay' = Len(got) + Cardinality(P) /\ Capped' = Capped
  BY <1>2, <1>3, WayTyped DEF OnTheWay, Capped
<1>5. Spent => Spent'
  BY <1>3, <1>4, WayTyped DEF Spent
<1>6. ASSUME NEW x \in steady
      PROVE  Accounted(x)' \/ (more' /\ x[1] > after')
  <2>1. x \in Now /\ x \in Items \X Configs
    BY <1>2 DEF Complete, Types
  <2>2. x[1] \in There /\ cloud[x[1]] = x[2]
    BY <2>1 DEF Now
  <2>3. CASE Accounted(x)
    <3>1. Taken(x) => x[1] \in Read(got)
      BY <1>2 DEF Taken
    <3>2. \/ x[1] \in Read(got') \/ ~Kept(x[2]) \/ Spent'
      BY <1>2, <1>5, <2>3, <3>1 DEF Accounted
    <3>3. Kept(x[2])' = Kept(x[2])
      BY <1>2 DEF Kept
    <3> QED
      BY <3>2, <3>3 DEF Accounted, Taken
  <2>4. CASE x[1] \in P
    BY <1>1, <2>2, <2>4 DEF Accounted, Taken
  <2>5. CASE x[1] > after /\ x[1] \notin P
    <3>1. P # {i \in There : i > after}
      BY <2>2, <2>5
    <3>2. CASE more'
      <4>1. x[1] > after'
        BY <1>1, <2>2, <2>5
      <4> QED
        BY <3>2, <4>1
    <3>3. CASE ~more'
      <4>1. Limited /\ ~(Len(got) + Cardinality(P) < MaxItems)
        BY <1>1, <3>1, <3>3 DEF Follows
      <4>2. Spent'
        BY <1>3, <1>4, <4>1, WayTyped DEF Spent, Capped, Limited
      <4> QED
        BY <4>2 DEF Accounted
    <3> QED
      BY <3>2, <3>3
  <2> QED
    BY <1>2, <2>3, <2>4, <2>5 DEF Complete
<1> QED
  BY <1>6

\* Every step keeps track of the items that have not changed.
LEMMA CompleteStep == Types /\ Bounded /\ Ordered /\ Complete /\ [Next]_vars => Complete'
<1> SUFFICES ASSUME Types, Bounded, Ordered, Complete, [Next]_vars PROVE Complete'
  OBVIOUS
<1>0. /\ source' = source /\ Capped' = Capped
      /\ \A config : Kept(config)' = Kept(config)
  BY DEF Next, Step, vars, Begin, FetchPage, TakeItem, AskAbout, ReadPart, NotFound, ApiFailure,
         Finish, Change, Capped, Kept
<1>1. CASE Begin
  <2>1. /\ outcome' = "reading" /\ more' = TRUE /\ after' = 0
        /\ steady' = Now /\ Now' = Now
    BY <1>1 DEF Begin, Now, There
  <2>2. \A x \in Now : x[1] > 0
    <3>1. Items \subseteq Nat \ {0}
      BY ReadsAssumption
    <3>2. \A i \in There : i > 0
      BY <3>1 DEF There
    <3> QED
      BY <3>2 DEF Now
  <2> QED
    BY <2>1, <2>2 DEF Complete
<1>2. CASE FetchPage
  <2>1. outcome' = "reading" /\ outcome = "reading" /\ steady' = steady /\ Now' = Now
    BY <1>2 DEF FetchPage, project, Now, There
  <2> QED
    BY <1>2, <2>1, FetchAccounts DEF Complete
<1>3. CASE TakeItem
  <2>1. /\ outcome' = "reading" /\ outcome = "reading" /\ steady' = steady /\ Now' = Now
        /\ hand' = hand /\ after' = after
    BY <1>3 DEF TakeItem, project, Now, There
  <2>2. CASE Spent'
    BY <2>1, <2>2 DEF Complete, Accounted
  <2>3. ASSUME NEW i \in DOMAIN page,
               got' = IF Kept(page[i]) THEN Append(got, Listed(i)) ELSE got,
               page' = Rest(i), more' = more
        PROVE  Complete'
    <3>1. /\ got \in Seq(Record) /\ Listed(i) \in Record /\ Listed(i).item = i
          /\ DOMAIN page' = DOMAIN page \ {i} /\ \A j \in DOMAIN page' : page'[j] = page[j]
      BY <2>3, ListedTyped DEF Types
    <3>2. Read(got) \subseteq Read(got') /\ (Kept(page[i]) => i \in Read(got'))
      BY <2>3, <3>1, ReadAppended
    <3>3. ASSUME NEW x \in steady, Taken(x)
          PROVE  Taken(x)' \/ ~Kept(x[2])'
      BY <1>0, <2>1, <3>1, <3>2, <3>3 DEF Taken
    <3>4. ASSUME NEW x \in steady
          PROVE  Accounted(x)' \/ (more' /\ x[1] > after')
      BY <1>0, <1>3, <2>1, <2>3, <3>3, TakeCounts DEF Complete, Accounted
    <3> QED
      BY <2>1, <3>4 DEF Complete
  <2> QED
    BY <1>3, <2>2, <2>3, TakeCounts
<1>4. CASE AskAbout
  <2>1. /\ outcome' = "reading" /\ outcome = "reading" /\ steady' = steady /\ Now' = Now
        /\ got' = got /\ after' = after /\ more' = more /\ hand = {}
    BY <1>4 DEF AskAbout, project, Now, There
  <2>2. PICK i \in DOMAIN page : hand' = {Listed(i)} /\ page' = Rest(i)
    BY <1>4 DEF AskAbout
  <2>3. /\ Listed(i).item = i
        /\ DOMAIN page' = DOMAIN page \ {i} /\ \A j \in DOMAIN page' : page'[j] = page[j]
    BY <2>2, ListedTyped
  <2>4. ASSUME NEW x \in steady, Taken(x)
        PROVE  Taken(x)'
    BY <2>1, <2>2, <2>3, <2>4 DEF Taken
  <2>5. Spent' = Spent
    BY <1>0, <1>4, AskCounts DEF Spent
  <2> QED
    BY <1>0, <2>1, <2>4, <2>5 DEF Complete, Accounted
<1>5. CASE ReadPart
  <2>1. /\ outcome' = "reading" /\ outcome = "reading" /\ steady' = steady /\ Now' = Now
        /\ page' = page /\ after' = after /\ more' = more
    BY <1>5 DEF ReadPart, project, Now, There
  <2>2. PICK r \in hand : /\ cloud[r.item] # Gone
                          /\ \/ got' = Append(got, Told(r)) /\ hand' = {}
                             \/ hand' = {Told(r)} /\ got' = got
    BY <1>5 DEF ReadPart
  <2>3. Told(r) \in Record /\ Told(r).item = r.item /\ got \in Seq(Record) /\ hand = {r}
    BY <2>2, AnswerTyped DEF Types
  <2>4. /\ Read(got) \subseteq Read(got')
        /\ r.item \in Read(got') \/ \E t \in hand' : t.item = r.item
    BY <2>2, <2>3, ReadAppended
  <2>5. ASSUME NEW x \in steady, Taken(x)
        PROVE  Taken(x)'
    BY <2>1, <2>3, <2>4, <2>5 DEF Taken
  <2>6. Spent' = Spent
    BY <1>0, <1>5, ReadCounts DEF Spent
  <2> QED
    BY <1>0, <2>1, <2>5, <2>6 DEF Complete, Accounted
<1>6. CASE ApiFailure
  BY <1>6 DEF ApiFailure, Complete
<1>7. CASE Finish
  <2>1. /\ outcome' = "ok" /\ outcome = "reading" /\ steady' = steady /\ ~more
        /\ inventory' = got /\ UNCHANGED <<got, page, hand>>
        /\ DOMAIN page = {} /\ hand = {}
    BY <1>7, EmptyPage DEF Finish, project
  <2>2. ASSUME NEW x \in steady
        PROVE  Accounted(x)'
    BY <1>0, <2>1 DEF Complete, Accounted, Taken, Spent, OnTheWay
  <2> QED
    BY <2>1, <2>2 DEF Complete
<1>8. ASSUME NEW i \in Items, NEW config \in Configs \cup {Gone}, Change(i, config)
      PROVE  Complete'
  <2>1. UNCHANGED read
    BY <1>8 DEF Change
  <2>2. \A x : Accounted(x)' = Accounted(x)
    BY <1>0, <2>1 DEF read, Accounted, Taken, Spent, OnTheWay
  <2>3. CASE outcome = "reading"
    <3>1. steady' = {x \in steady : x[1] # i}
      BY <1>8, <2>3 DEF Change
    <3>2. ASSUME NEW x \in steady'
          PROVE  x \in Now'
      <4>1. x \in Now /\ x[1] # i /\ x \in Items \X Configs
        BY <2>3, <3>1 DEF Complete, Types
      <4>2. cloud'[x[1]] = cloud[x[1]]
        BY <1>8, <4>1 DEF Change, Types
      <4> QED
        BY <4>1, <4>2 DEF Now, There
    <3> QED
      BY <2>1, <2>2, <2>3, <3>1, <3>2 DEF Complete, read
  <2>4. CASE outcome # "reading"
    <3>1. steady' = steady
      BY <1>8, <2>4 DEF Change
    <3> QED
      BY <2>1, <2>2, <2>4, <3>1 DEF Complete, read
  <2> QED
    BY <2>3, <2>4
<1>9. CASE UNCHANGED vars
  <2>1. \A x : Accounted(x)' = Accounted(x)
    BY <1>0, <1>9 DEF vars, read, project, Accounted, Taken, Spent, OnTheWay
  <2> QED
    BY <1>9, <2>1 DEF vars, project, read, Complete, Now, There
<1> QED
  BY <1>1, <1>2, <1>3, <1>4, <1>5, <1>6, <1>7, <1>8, <1>9 DEF Next, Step, NotFound

\* An increasing list has no item twice.
LEMMA NoneTwice ==
    ASSUME NEW s \in Seq(Record), Increasing(s)
    PROVE  Cardinality(Read(s)) = Len(s)
<1> DEFINE f == [k \in 1..Len(s) |-> s[k].item]
<1>1. Len(s) \in Nat /\ DOMAIN s = 1..Len(s) /\ \A k \in 1..Len(s) : s[k] \in Record
  OBVIOUS
<1>2. \A k \in 1..Len(s) : s[k].item \in Nat
  BY <1>1, ReadsAssumption DEF Record
<1>3. f \in [1..Len(s) -> Read(s)] /\ \A y \in Read(s) : \E k \in 1..Len(s) : f[k] = y
  BY <1>1 DEF Read
<1>4. ASSUME NEW k \in 1..Len(s), NEW l \in 1..Len(s), f[k] = f[l]
      PROVE  k = l
  <2>1. ~(k < l) /\ ~(l < k)
    BY <1>1, <1>2, <1>4 DEF Increasing
  <2> QED
    BY <1>1, <2>1
<1>5. f \in Bijection(1..Len(s), Read(s))
  <2>1. \A k \in 1..Len(s) : \A l \in 1..Len(s) : f[k] = f[l] => k = l
    BY <1>4
  <2>2. f \in Injection(1..Len(s), Read(s))
    BY <1>3, <2>1 DEF Injection, IsInjective
  <2>3. f \in Surjection(1..Len(s), Read(s))
    BY <1>3 DEF Surjection
  <2> QED
    BY <2>2, <2>3 DEF Bijection
<1>6. ExistsBijection(1..Len(s), Read(s))
  BY <1>5 DEF ExistsBijection
<1>7. IsFiniteSet(1..Len(s)) /\ Cardinality(1..Len(s)) = Len(s)
  <2>1. /\ IsFiniteSet(1..Len(s))
        /\ Cardinality(1..Len(s)) = IF 1 > Len(s) THEN 0 ELSE Len(s) - 1 + 1
    BY <1>1, FS_Interval
  <2> QED
    BY <1>1, <2>1
<1> QED
  BY <1>6, <1>7, FS_Bijection

\* iam_guard collectors.py:141-182 and cryptojack_guard collectors.py:118-131,
\* 198-230: an item that was there unchanged all the while is in the list a
\* call stored, once, unless the call read exactly as many as it may.
THEOREM AlwaysNothingSteadyMissed == Spec => []NothingSteadyMissed
<1>1. Init => Ordered /\ Complete
  BY EmptyPage DEF Init, Ordered, Complete, Increasing
<1>2. ASSUME Types, Bounded, Ordered, Complete
      PROVE  NothingSteadyMissed
  <2>1. SUFFICES ASSUME outcome = "ok"
                 PROVE  /\ Cardinality(Read(inventory)) = Len(inventory)
                        /\ \A x \in steady : \/ x[1] \in Read(inventory)
                                             \/ ~Kept(x[2])
                                             \/ Capped /\ Len(inventory) = MaxItems
    BY DEF NothingSteadyMissed
  <2>2. inventory = got /\ DOMAIN page = {} /\ hand = {}
    BY <1>2, <2>1 DEF Complete
  <2>3. Cardinality(Read(inventory)) = Len(inventory)
    BY <1>2, <2>2, NoneTwice DEF Types, Ordered
  <2>4. OnTheWay = Len(inventory) /\ Len(inventory) \in Nat
    BY <1>2, <2>2, HandCounts, WayTyped DEF OnTheWay
  <2>5. Spent => Capped /\ Len(inventory) = MaxItems
    BY <1>2, <2>2, <2>4, WayTyped DEF Spent, Capped, Bounded, Limited
  <2>6. ASSUME NEW x \in steady
        PROVE  \/ x[1] \in Read(inventory)
               \/ ~Kept(x[2])
               \/ Capped /\ Len(inventory) = MaxItems
    BY <1>2, <2>1, <2>2, <2>5 DEF Complete, Accounted, Taken
  <2> QED
    BY <2>3, <2>6
<1> QED
  BY <1>1, <1>2, TypesInit, TypesStep, BoundedInit, BoundedStep, OrderedStep, CompleteStep, PTL DEF Spec

-----------------------------------------------------------------------------
(***************************************************************************)
(* The refinement, but for its liveness.                                   *)
(***************************************************************************)
\* README.md:117-119: seen from the session every step of a call is nothing, or
\* the beginning of a read, or its end with a list stored or with none.
THEOREM StepsAreAtomic ==
    Spec => Session!Init /\ [][Session!Begin \/ Session!Succeed \/ Session!Fail]_<<outcome, inventory>>
<1>1. ASSUME Init
      PROVE  Session!Init
  <2>1. <<>> \in Seq([item : Items, told : Seq(Configs)])
    OBVIOUS
  <2> QED
    BY <1>1, <2>1 DEF Init, Session!Init
<1>2. ASSUME Types, [Next]_vars
      PROVE  [Session!Begin \/ Session!Succeed \/ Session!Fail]_<<outcome, inventory>>
  <2>1. CASE Begin
    BY <2>1 DEF Begin, Session!Begin
  <2>2. CASE FetchPage \/ TakeItem \/ AskAbout \/ ReadPart
    BY <2>2 DEF FetchPage, TakeItem, AskAbout, ReadPart
  <2>3. CASE ApiFailure
    BY <2>3 DEF ApiFailure, Session!Fail
  <2>4. CASE Finish
    <3>1. got \in Seq([item : Items, told : Seq(Configs)])
      BY <1>2 DEF Types, Record
    <3> QED
      BY <2>4, <3>1 DEF Finish, Session!Succeed
  <2>5. ASSUME NEW i \in Items, NEW config \in Configs \cup {Gone}, Change(i, config)
        PROVE  UNCHANGED <<outcome, inventory>>
    BY <2>5 DEF Change, read
  <2>6. CASE UNCHANGED vars
    BY <2>6 DEF vars, read
  <2> QED
    BY <1>2, <2>1, <2>2, <2>3, <2>4, <2>5, <2>6 DEF Next, Step, NotFound
<1> QED
  BY <1>1, <1>2, TypesInit, TypesStep, PTL DEF Spec

=============================================================================
