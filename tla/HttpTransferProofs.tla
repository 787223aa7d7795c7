------------------------- MODULE HttpTransferProofs -------------------------
(***************************************************************************)
(* What is proved of HttpTransfer for any servers, any versions of the     *)
(* file, any number of attempts, faults and executions.                    *)
(***************************************************************************)
EXTENDS HttpTransfer, SequenceTheorems, TLAPS

\* Every content has at least one block.
LEMMA LengthType == \A v \in Contents : Length(v) \in Nat \ {0}
BY FileAssumption DEF Contents, Length

\* The ways an attempt fails leave the loops of the manager well-typed.
LEMMA NextServerType ==
    ASSUME TypeOK, NextServer
    PROVE  /\ st' \in {"idle", "failed"} /\ server' \in Servers
           /\ attempt' \in 1..Attempts /\ body' = NoBody
BY SettingAssumption, ServerAssumption DEF TypeOK, NextServer, Servers

LEMMA NextAttemptType ==
    ASSUME TypeOK, NextAttempt
    PROVE  /\ st' \in {"idle", "failed"} /\ server' \in Servers
           /\ attempt' \in 1..Attempts /\ body' = NoBody
BY NextServerType, SettingAssumption DEF TypeOK, NextAttempt

LEMMA NoBodyType == NoBody \in [code : {0, 200, 206}, ver : Contents, next : Nat \ {0}]
BY FileAssumption DEF NoBody, Contents

\* What a killed program leaves of the .part file.
LEMMA PrefixOfPart ==
    ASSUME NEW s \in Seq(Blocks), NEW n \in 0..Len(s)
    PROVE  /\ SubSeq(s, 1, n) \in Seq(Blocks)
           /\ Len(SubSeq(s, 1, n)) = n
           /\ \A i \in 1..n : SubSeq(s, 1, n)[i] = s[i]
<1>1. \A i \in 1..n : s[i] \in Blocks
    BY ElementOfSeq
<1>2. /\ SubSeq(s, 1, n) \in Seq(Blocks)
      /\ Len(SubSeq(s, 1, n)) = IF 1 <= n THEN n - 1 + 1 ELSE 0
      /\ \A i \in 1 .. n - 1 + 1 : SubSeq(s, 1, n)[i] = s[1 + i - 1]
    BY <1>1, SubSeqProperties
<1> QED BY <1>2

-----------------------------------------------------------------------------
(* Types.                                                                  *)

LEMMA TypeInit == Init => TypeOK
<1> SUFFICES ASSUME Init PROVE TypeOK
    OBVIOUS
<1>1. /\ 1 \in Servers /\ 1 \in 1..Attempts /\ 1 \in 1..MaxRuns
      /\ [count |-> 0, disk |-> FALSE] \in [count : 0..MaxFaults, disk : BOOLEAN]
      /\ Size[First] \in Nat
    BY ServerAssumption, SettingAssumption, FileAssumption DEF Servers
<1>2. <<>> \in Seq(Blocks)
    OBVIOUS
<1> QED BY <1>1, <1>2, NoBodyType DEF Init, TypeOK, Busy

LEMMA TypeStep == TypeOK /\ [Next]_vars => TypeOK'
<1> SUFFICES ASSUME TypeOK, [Next]_vars PROVE TypeOK'
    OBVIOUS
<1>e. <<>> \in Seq(Blocks)
    OBVIOUS
<1>s. \A v \in Servers : served[v] \in Contents
    BY DEF TypeOK, Contents
\* The steps that change no file and start no body.
<1>0. ASSUME UNCHANGED <<served, declared, part, dest, start, run>>,
             st' \in Busy \cup {"delivered", "failed", "down"}, server' \in Servers,
             attempt' \in 1..Attempts, body' = NoBody,
             faults' \in [count : 0..MaxFaults, disk : BOOLEAN]
      PROVE  TypeOK'
    BY <1>0, NoBodyType DEF TypeOK
<1>f. Fault => faults' \in [count : 0..MaxFaults, disk : BOOLEAN]
    BY SettingAssumption DEF TypeOK, Fault
<1>n. NextServer \/ NextAttempt =>
        /\ st' \in Busy \cup {"delivered", "failed", "down"} /\ server' \in Servers
        /\ attempt' \in 1..Attempts /\ body' = NoBody
    BY NextServerType, NextAttemptType DEF Busy
<1>o. faults \in [count : 0..MaxFaults, disk : BOOLEAN]
    BY DEF TypeOK
<1>1. CASE Request
    <2>1. part' \in Seq(Blocks) /\ start' \in Nat
        BY <1>1, <1>e DEF Request, TypeOK
    <2> QED BY <1>1, <2>1 DEF Request, TypeOK, Busy
<1>2. CASE Missing
    BY <1>0, <1>2, <1>n, <1>o DEF Missing
<1>3. CASE Whole
    BY <1>3, <1>e, <1>s DEF Whole, TypeOK, Busy
<1>4. CASE Rest
    BY <1>4, <1>s DEF Rest, TypeOK, Busy
<1>5. CASE NothingThere
    BY <1>0, <1>5, <1>n, <1>o DEF NothingThere
<1>6. CASE Chunk
    <2>1. [ver |-> body.ver, pos |-> body.next] \in Blocks
        BY DEF Blocks, TypeOK
    <2>2. part' \in Seq(Blocks)
        BY <1>6, <2>1 DEF Chunk, TypeOK
    <2>3. /\ body'.code \in {0, 200, 206} /\ body'.ver \in Contents
          /\ body'.next \in Nat \ {0}
          /\ body' = [code |-> body'.code, ver |-> body'.ver, next |-> body'.next]
        BY <1>6 DEF Chunk, TypeOK
    <2>4. body' \in [code : {0, 200, 206}, ver : Contents, next : Nat \ {0}]
        BY <2>3
    <2> QED BY <1>6, <2>2, <2>4 DEF Chunk, TypeOK, Busy
<1>7. CASE EndOfBody
    <2>1. CASE NextAttempt
        BY <1>0, <1>7, <2>1, <1>n, <1>o DEF EndOfBody
    <2>2. CASE st' = "landed" /\ UNCHANGED <<server, attempt, body>>
        BY <1>7, <2>2 DEF EndOfBody, TypeOK, Busy
    <2> QED BY <1>7, <2>1, <2>2 DEF EndOfBody
<1>8. CASE Deliver
    <2>1. CASE NextAttempt /\ UNCHANGED <<part, dest>>
        BY <1>0, <1>8, <2>1, <1>n, <1>o DEF Deliver
    <2>2. CASE /\ dest' = part /\ part' = <<>> /\ st' = "delivered"
               /\ UNCHANGED <<server, attempt, body>>
        BY <1>8, <1>e, <2>2 DEF Deliver, TypeOK
    <2> QED BY <1>8, <2>1, <2>2 DEF Deliver
<1>9. CASE Refused \/ Broken
    BY <1>0, <1>9, <1>n, <1>f DEF Refused, Broken
<1>10. CASE PageServed
    <2>1. body' \in [code : {0, 200, 206}, ver : Contents, next : Nat \ {0}]
        BY <1>10 DEF PageServed, Contents
    <2>2. faults' \in [count : 0..MaxFaults, disk : BOOLEAN]
        BY <1>10, <1>f DEF PageServed
    <2> QED BY <1>10, <1>e, <2>1, <2>2 DEF PageServed, TypeOK, Busy
<1>11. CASE Publish
    <2>1. PICK m \in Holding, v \in Versions : served' = [served EXCEPT ![m] = v]
        BY <1>11 DEF Publish
    <2>2. served' \in [Servers -> Versions]
        BY <2>1 DEF TypeOK
    <2>3. faults' \in [count : 0..MaxFaults, disk : BOOLEAN]
        BY <1>11, <1>f DEF Publish
    <2> QED BY <1>11, <2>3, <2>2 DEF Publish, TypeOK
<1>12. CASE Stop
    <2>1. part' \in Seq(Blocks)
        BY <1>12, PrefixOfPart DEF Stop, TypeOK
    <2> QED BY <1>12, <2>1, NoBodyType DEF Stop, TypeOK
<1>13. CASE RunAgain
    BY <1>13, ServerAssumption, SettingAssumption DEF RunAgain, Servers, TypeOK, Busy
<1>14. CASE DiskFails
    <2>1. faults' \in [count : 0..MaxFaults, disk : BOOLEAN]
        BY <1>14, SettingAssumption DEF DiskFails, TypeOK
    <2> QED BY <1>0, <1>14, <2>1, <1>n DEF DiskFails
<1>15. CASE UNCHANGED vars
    BY <1>15 DEF vars, TypeOK
<1> QED BY <1>1, <1>2, <1>3, <1>4, <1>5, <1>6, <1>7, <1>8, <1>9, <1>10, <1>11,
           <1>12, <1>13, <1>14, <1>15
    DEF Next, Progress, Idle

\* The state of a transfer stays well-typed: never a server or an attempt that
\* does not exist.
THEOREM TransferTypeCorrect == Safety => []TypeOK
BY TypeInit, TypeStep, PTL DEF Safety

-----------------------------------------------------------------------------
(* The blocks of the .part file.                                           *)

\* Blocks of versions, each at its place, behind a page that was not recognised.
Data(s) ==
    \A i \in DOMAIN s : s[i].pos = i /\ (s[i].ver \in Pages => i = 1 /\ s[i].ver \in Plain)

\* A request asks for the file from the end of its .part file, which is no page
\* that can be recognised.
AskedForEnd == st = "sent" => start = 0 \/ (start = Len(part) /\ Data(part))

\* The next block of a body goes behind the last one of the .part file; a body
\* that has come to its end has written that last one.
BodyFollows ==
    st = "body" =>
        /\ body.next = Len(part) + 1
        /\ \/ body.ver \in Pages /\ (part = <<>> \/ Len(part) = 1)
           \/ /\ body.ver \notin Pages
              /\ Data(part)
              /\ body.next > Size[body.ver] => part[Len(part)].ver = body.ver

\* A file that landed is a whole one.
LandedWhole ==
    st = "landed" =>
        /\ part # <<>> /\ Data(part) /\ part[Len(part)].ver \in Versions
        /\ Len(part) = Size[part[Len(part)].ver]

Blockwise ==
    /\ PartInOrder /\ AskedForEnd /\ BodyFollows /\ LandedWhole /\ DeliveredComplete

\* A .part file in order that does not begin like a page is data.
LEMMA PageOrData ==
    ASSUME TypeOK, PartInOrder, ~PartialIsPage PROVE Data(part)
BY DEF TypeOK, PartialIsPage, PartInOrder, InOrder, Data

LEMMA DataInOrder == \A s \in Seq(Blocks) : Data(s) => InOrder(s)
BY DEF Data, InOrder

LEMMA EmptyData == Data(<<>>) /\ InOrder(<<>>)
BY DEF Data, InOrder

LEMMA BlockwiseStep ==
    TypeOK /\ TypeOK' /\ Blockwise /\ [Next]_vars => Blockwise'
<1> SUFFICES ASSUME TypeOK, TypeOK', Blockwise, [Next]_vars PROVE Blockwise'
    OBVIOUS
<1> USE DEF Blockwise
\* The steps that leave both files alone and start no body.
<1>0. ASSUME UNCHANGED <<part, dest, declared>>, st' \in {"idle", "failed", "delivered", "down"}
      PROVE  Blockwise'
    BY <1>0 DEF PartInOrder, AskedForEnd, BodyFollows, LandedWhole, DeliveredComplete
<1>1. CASE Request
    <2>1. UNCHANGED <<dest, declared>> /\ st' = "sent"
        BY <1>1 DEF Request
    <2>2. CASE Resume /\ PartialIsPage
        <3>1. part' = <<>> /\ start' = 0
            BY <1>1, <2>2 DEF Request
        <3> QED BY <2>1, <3>1, EmptyData, DataInOrder
            DEF PartInOrder, AskedForEnd, BodyFollows, LandedWhole, DeliveredComplete
    <2>3. CASE Resume /\ ~PartialIsPage
        <3>1. part' = part /\ start' = Len(part) /\ Data(part)
            BY <1>1, <2>3, PageOrData DEF Request
        <3> QED BY <2>1, <3>1
            DEF PartInOrder, AskedForEnd, BodyFollows, LandedWhole, DeliveredComplete
    <2>4. CASE ~Resume
        <3>1. part' = part /\ start' = 0
            BY <1>1, <2>4 DEF Request
        <3> QED BY <2>1, <3>1
            DEF PartInOrder, AskedForEnd, BodyFollows, LandedWhole, DeliveredComplete
    <2> QED BY <2>2, <2>3, <2>4
<1>2. CASE Missing \/ NothingThere \/ Refused \/ Broken \/ DiskFails
    BY <1>0, <1>2, NextServerType, NextAttemptType
    DEF Missing, NothingThere, Refused, Broken, DiskFails
<1>3. CASE Whole \/ PageServed
    <2>1. /\ UNCHANGED <<dest, declared>> /\ st' = "body" /\ part' = <<>>
          /\ body'.next = 1 /\ body'.ver \in Contents
        BY <1>3 DEF Whole, PageServed, TypeOK, Contents
    <2>2. ~(body'.ver \notin Pages /\ body'.next > Size[body'.ver])
        <3>1. body'.ver \notin Pages => Size[body'.ver] \in Nat \ {0}
            BY <2>1, LengthType DEF Length
        <3> QED BY <2>1, <3>1
    <2>3. BodyFollows'
        <3>1. body'.next = Len(part') + 1
            BY <2>1
        <3> QED BY <2>1, <2>2, <3>1, EmptyData DEF BodyFollows
    <2>4. PartInOrder'
        BY <2>1, EmptyData, DataInOrder DEF PartInOrder
    <2> QED BY <2>1, <2>3, <2>4 DEF AskedForEnd, LandedWhole, DeliveredComplete
<1>4. CASE Rest
    <2>1. /\ UNCHANGED <<part, dest, declared>> /\ st' = "body"
          /\ start = Len(part) /\ Data(part)
          /\ body'.next = Len(part) + 1 /\ body'.ver = served[server]
          /\ Len(part) < Size[served[server]]
        BY <1>4 DEF Rest, AskedForEnd, TypeOK
    <2>2. served[server] \notin Pages /\ Size[served[server]] \in Nat
        BY FileAssumption DEF TypeOK
    <2>3. ~(body'.next > Size[body'.ver])
        BY <2>1, <2>2
    <2> QED BY <2>1, <2>2, <2>3
        DEF PartInOrder, AskedForEnd, BodyFollows, LandedWhole, DeliveredComplete
<1>5. CASE Chunk
    <2> DEFINE b == [ver |-> body.ver, pos |-> body.next]
    <2>1. /\ UNCHANGED <<dest, declared, st>> /\ st = "body"
          /\ part' = Append(part, b) /\ body'.next = body.next + 1
          /\ body'.ver = body.ver /\ body.next <= Length(body.ver)
        BY <1>5 DEF Chunk, TypeOK
    <2>2. /\ part \in Seq(Blocks) /\ b \in Blocks
          /\ body.next = Len(part) + 1
        BY <2>1 DEF TypeOK, Blocks, BodyFollows
    <2>3. /\ Len(part') = Len(part) + 1
          /\ \A i \in 1..Len(part) : part'[i] = part[i]
          /\ part'[Len(part) + 1] = b
          /\ DOMAIN part' = 1..(Len(part) + 1) /\ DOMAIN part = 1..Len(part)
        BY <2>1, <2>2, AppendProperties
    <2>4. CASE body.ver \in Pages
        <3>1. part = <<>>
            BY <2>1, <2>2, <2>4 DEF Length
        <3>2. Len(part') = 1 /\ DOMAIN part' = {1} /\ part'[1].pos = 1
            BY <2>1, <2>2, <2>3, <3>1
        <3>3. InOrder(part')
            BY <3>2 DEF InOrder
        <3>4. body'.next = Len(part') + 1
            BY <2>1, <2>2, <2>3
        <3> QED BY <2>1, <2>4, <3>2, <3>3, <3>4
            DEF PartInOrder, AskedForEnd, BodyFollows, LandedWhole, DeliveredComplete
    <2>5. CASE body.ver \notin Pages
        <3>1. Data(part)
            BY <2>1, <2>5 DEF BodyFollows
        <3>2. Data(part')
            BY <2>2, <2>3, <2>5, <3>1 DEF Data
        <3>3. body'.next = Len(part') + 1 /\ part'[Len(part')].ver = body'.ver
            BY <2>1, <2>2, <2>3
        <3>4. part' \in Seq(Blocks)
            BY DEF TypeOK
        <3> QED BY <2>1, <2>5, <3>2, <3>3, <3>4, DataInOrder
            DEF PartInOrder, AskedForEnd, BodyFollows, LandedWhole, DeliveredComplete
    <2> QED BY <2>4, <2>5
<1>6. CASE EndOfBody
    <2>1. CASE ContentValid /\ st' = "landed"
        <3>1. /\ UNCHANGED <<part, dest, declared>> /\ st = "body"
              /\ body.next > Length(body.ver)
              /\ Len(part) = Length(body.ver) /\ ~PartialIsPage
            BY <1>6, <2>1 DEF EndOfBody, ContentValid
        <3>2. part # <<>> /\ Length(body.ver) \in Nat \ {0}
            BY <3>1, LengthType DEF TypeOK
        <3>3. /\ body.ver \in Versions /\ Data(part)
              /\ part[Len(part)].ver = body.ver
            BY <2>1, <3>1, <3>2 DEF BodyFollows, Length, ContentValid, TypeOK, Contents
        <3>4. Len(part) = Size[part[Len(part)].ver]
            BY <3>1, <3>3, FileAssumption DEF Length
        <3> QED BY <2>1, <3>1, <3>2, <3>3, <3>4
            DEF PartInOrder, AskedForEnd, BodyFollows, LandedWhole, DeliveredComplete
    <2>2. CASE NextAttempt
        BY <1>0, <1>6, <2>2, NextAttemptType DEF EndOfBody
    <2> QED BY <1>6, <2>1, <2>2 DEF EndOfBody
<1>7. CASE Deliver
    <2>1. CASE NextAttempt /\ UNCHANGED <<part, dest>>
        BY <1>0, <1>7, <2>1, NextAttemptType DEF Deliver
    <2>2. CASE dest' = part /\ part' = <<>> /\ st' = "delivered"
               /\ declared \in {0, Len(part)}
        <3>1. /\ UNCHANGED declared /\ Data(part) /\ part # <<>> /\ part \in Seq(Blocks)
              /\ Len(part) = Size[part[Len(part)].ver] /\ part[Len(part)].ver \in Versions
            BY <1>7 DEF Deliver, LandedWhole, TypeOK
        <3>2. InOrder(part) /\ part[1].ver \notin Pages \ Plain
            BY <3>1, DataInOrder DEF Data
        <3>3. DeliveredComplete'
            BY <2>2, <3>1, <3>2 DEF DeliveredComplete
        <3> QED BY <2>2, <3>3, EmptyData
            DEF PartInOrder, AskedForEnd, BodyFollows, LandedWhole
    <2> QED BY <1>7, <2>1, <2>2 DEF Deliver
<1>8. CASE Stop
    <2>1. UNCHANGED <<dest, declared>> /\ st' = "down"
        BY <1>8 DEF Stop
    <2>2. CASE UNCHANGED part
        BY <1>0, <2>1, <2>2
    <2>3. ASSUME NEW n \in 0..Len(part), part' = SubSeq(part, 1, n)
          PROVE  InOrder(part')
        <3>1. /\ part \in Seq(Blocks) /\ DOMAIN part = 1..Len(part)
              /\ Len(part') = n /\ DOMAIN part' = 1..n
              /\ \A i \in 1..n : part'[i] = part[i]
            BY <2>3, PrefixOfPart DEF TypeOK
        <3>2. n > 1 => Len(part) > 1 /\ part'[1] = part[1]
            BY <3>1
        <3> QED BY <3>1, <3>2 DEF PartInOrder, InOrder
    <2> QED BY <1>8, <2>1, <2>2, <2>3
        DEF Stop, PartInOrder, AskedForEnd, BodyFollows, LandedWhole, DeliveredComplete
<1>9. CASE RunAgain
    BY <1>0, <1>9 DEF RunAgain
<1>10. CASE Publish
    BY <1>10 DEF Publish, PartInOrder, AskedForEnd, BodyFollows, LandedWhole,
                 DeliveredComplete, PartialIsPage
<1>11. CASE UNCHANGED vars
    BY <1>11 DEF vars, PartInOrder, AskedForEnd, BodyFollows, LandedWhole,
                 DeliveredComplete, PartialIsPage
<1> QED BY <1>1, <1>2, <1>3, <1>4, <1>5, <1>6, <1>7, <1>8, <1>9, <1>10, <1>11
    DEF Next, Progress, Idle

LEMMA BlockwiseInvariant == Safety => []Blockwise
<1>1. Init => Blockwise
    BY DEF Init, Blockwise, PartInOrder, InOrder, AskedForEnd, BodyFollows,
           LandedWhole, DeliveredComplete
<1> QED BY <1>1, BlockwiseStep, TransferTypeCorrect, PTL DEF Safety

\* Whatever breaks, is refused, published or stopped: the .part file has no gap and
\* no repetition, and nothing behind a page that can be recognised.
THEOREM PartStaysInOrder == Safety => []PartInOrder
BY BlockwiseInvariant, PTL DEF Blockwise

\* Whatever breaks, is refused, published or stopped: what is delivered ends
\* as a version of the file, has every block at its place and the length of it.
THEOREM DeliveredIsComplete == Safety => []DeliveredComplete
BY BlockwiseInvariant, PTL DEF Blockwise
=============================================================================
