---------------------------- MODULE EvidenceProofs ----------------------------
(***************************************************************************)
(* What the evidence modules do for every set of lines, transactions and   *)
(* documents.                                                              *)
(***************************************************************************)
EXTENDS Evidence, FiniteSetTheorems, SequenceTheorems, WellFoundedInduction, TLAPS

-----------------------------------------------------------------------------
(* Transcripts.  The invariant says what the parser keeps of the lines it    *)
(* has read: all offers by their ids, and of every accept an element of its  *)
(* own, even if two lines are the same.                                      *)

FrameAt(i) == extract(read[i].text)
IsFrame(i) == i \in DOMAIN read /\ read[i].json /\ FrameAt(i) # Null
IsAccept(i) == IsFrame(i) /\ FrameAt(i).type = "accept"

OffersKept ==
    /\ \A p \in offers_by_id : p = <<p[2].id, p[2]>> /\ p[2] \in OffersRead
    /\ \A p, q \in offers_by_id : p[1] = q[1] => p = q
    /\ \A o \in OffersRead : \E p \in offers_by_id : p[1] = o.id

Listed(i, a) == a \in DOMAIN accepts_list /\ accepts_list[a] = FrameAt(i)

AcceptsKept ==
    /\ accepts_list \in Seq(FramesRead)
    /\ Len(accepts_list) <= Len(read)
    /\ \A i \in DOMAIN read : IsAccept(i) => \E a \in DOMAIN accepts_list : Listed(i, a)
    /\ \A i, j \in DOMAIN read :
           IsAccept(i) /\ IsAccept(j) /\ i # j =>
               \E a, b \in DOMAIN accepts_list : Listed(i, a) /\ Listed(j, b) /\ a # b

SignaturesKept ==
    /\ signatures_ok \in BOOLEAN
    /\ signatures_ok => \A i \in DOMAIN read : read[i].json => read[i].status = "VALID"

TranscriptInv == /\ read \in Seq(Lines)
                 /\ OffersKept /\ AcceptsKept /\ SignaturesKept
                 /\ AgreementTraced /\ NeverGuesses

\* A set of one element has no other.
LEMMA OnlyOne ==
    ASSUME NEW S, IsFiniteSet(S), Cardinality(S) = 1, NEW x \in S, NEW y \in S
    PROVE  x = y
<1>1. \E z : S = {z}
  BY FS_Singleton
<1>2. QED
  BY <1>1

LEMMA TranscriptInitInv == ReadInit => TranscriptInv
<1> SUFFICES ASSUME ReadInit
             PROVE  TranscriptInv
  OBVIOUS
<1> USE DEF ReadInit
<1>1. read \in Seq(Lines) /\ DOMAIN read = {} /\ Len(read) = 0
  OBVIOUS
<1>2. FramesRead = {} /\ OffersRead = {}
  BY <1>1 DEF FramesRead, OffersRead
<1>3. OffersKept
  BY <1>2 DEF OffersKept
<1>4. AcceptsKept
  <2>1. accepts_list \in Seq(FramesRead) /\ Len(accepts_list) = 0
    OBVIOUS
  <2>2. QED
    BY <1>1, <2>1 DEF AcceptsKept
<1>5. SignaturesKept
  BY <1>1 DEF SignaturesKept
<1>6. AgreementTraced /\ NeverGuesses
  BY DEF AgreementTraced, NeverGuesses, Found
<1>7. QED
  BY <1>1, <1>3, <1>4, <1>5, <1>6 DEF TranscriptInv

\* What a line adds to what has been read.
LEMMA LineRead ==
    ASSUME TranscriptInv, NEW line \in Lines, Read(line),
           NEW frame, frame = IF line.json THEN extract(line.text) ELSE Null
    PROVE  /\ read' \in Seq(Lines) /\ Len(read') = Len(read) + 1
           /\ DOMAIN read' = DOMAIN read \cup {Len(read) + 1}
           /\ \A i \in DOMAIN read : read'[i] = read[i] /\ i # Len(read) + 1
           /\ read'[Len(read) + 1] = line
           /\ FramesRead' = FramesRead \cup ({frame} \ {Null})
           /\ OffersRead' = OffersRead \cup {f \in {frame} \ {Null} : f.type = "offer"}
<1>1. read \in Seq(Lines) /\ read' = Append(read, line)
  BY DEF TranscriptInv, Read
<1>2. /\ read' \in Seq(Lines) /\ Len(read') = Len(read) + 1
      /\ DOMAIN read' = DOMAIN read \cup {Len(read) + 1}
      /\ \A i \in DOMAIN read : read'[i] = read[i] /\ i # Len(read) + 1
      /\ read'[Len(read) + 1] = line
  BY <1>1
<1>3. FramesRead' = FramesRead \cup ({frame} \ {Null})
  BY <1>2 DEF FramesRead
<1>4. OffersRead' = OffersRead \cup {f \in {frame} \ {Null} : f.type = "offer"}
  BY <1>3 DEF OffersRead
<1>5. QED
  BY <1>2, <1>3, <1>4

LEMMA ReadOffers ==
    ASSUME TranscriptInv, NEW line \in Lines, Read(line)
    PROVE  OffersKept'
<1> DEFINE frame == IF line.json THEN extract(line.text) ELSE Null
<1>1. OffersRead' = OffersRead \cup {f \in {frame} \ {Null} : f.type = "offer"}
  BY LineRead
<1>2. Ingest(line, frame)
  BY DEF Read
<1>3. OffersKept
  BY DEF TranscriptInv
<1> HIDE DEF frame
<1>4. CASE frame # Null /\ frame.type = "offer"
  <2>1. OffersRead' = OffersRead \cup {frame}
    BY <1>1, <1>4
  <2>2. offers_by_id' = {o \in offers_by_id : o[1] # frame.id} \cup {<<frame.id, frame>>}
    BY <1>2, <1>4 DEF Ingest, offers_with
  <2>3. \A p \in offers_by_id' : p = <<p[2].id, p[2]>> /\ p[2] \in OffersRead'
    BY <1>3, <2>1, <2>2 DEF OffersKept
  <2>4. \A p, q \in offers_by_id' : p[1] = q[1] => p = q
    BY <1>3, <2>2 DEF OffersKept
  <2>5. ASSUME NEW o \in OffersRead'
        PROVE  \E p \in offers_by_id' : p[1] = o.id
    <3>1. CASE o.id = frame.id
      <4>1. <<frame.id, frame>> \in offers_by_id' /\ <<frame.id, frame>>[1] = o.id
        BY <2>2, <3>1
      <4>2. QED
        BY <4>1
    <3>2. CASE o.id # frame.id
      <4>1. PICK p \in offers_by_id : p[1] = o.id
        BY <1>3, <2>1, <3>2 DEF OffersKept
      <4>2. QED
        BY <2>2, <3>2, <4>1
    <3>3. QED
      BY <3>1, <3>2
  <2>6. QED
    BY <2>3, <2>4, <2>5 DEF OffersKept
<1>5. CASE ~(frame # Null /\ frame.type = "offer")
  <2>1. OffersRead' = OffersRead /\ offers_by_id' = offers_by_id
    BY <1>1, <1>2, <1>5 DEF Ingest
  <2>2. QED
    BY <1>3, <2>1 DEF OffersKept
<1>6. QED
  BY <1>4, <1>5

LEMMA ReadAccepts ==
    ASSUME TranscriptInv, NEW line \in Lines, Read(line)
    PROVE  AcceptsKept'
<1> DEFINE frame == IF line.json THEN extract(line.text) ELSE Null
<1> PICK n : n = Len(read) + 1
  OBVIOUS
<1> PICK m : m = Len(accepts_list) + 1
  OBVIOUS
<1>1. /\ Len(read') = Len(read) + 1 /\ DOMAIN read' = DOMAIN read \cup {n}
      /\ \A i \in DOMAIN read : read'[i] = read[i] /\ i # n
      /\ read'[n] = line /\ FramesRead' = FramesRead \cup ({frame} \ {Null})
  BY LineRead
<1>2. Ingest(line, frame)
  BY DEF Read
<1>3. AcceptsKept /\ Len(read) \in Nat
  BY DEF TranscriptInv
<1>4. Len(accepts_list) \in Nat /\ DOMAIN accepts_list = 1..Len(accepts_list)
  BY <1>3 DEF AcceptsKept
<1>5. \A i \in DOMAIN read : (IsAccept(i)' <=> IsAccept(i)) /\ FrameAt(i)' = FrameAt(i)
  BY <1>1 DEF IsAccept, IsFrame, FrameAt
<1>6. IsAccept(n)' <=> (frame # Null /\ frame.type = "accept")
  BY <1>1 DEF IsAccept, IsFrame, FrameAt
<1> HIDE DEF frame
<1>7. CASE frame # Null /\ frame.type = "accept"
  <2>1. accepts_list' = Append(accepts_list, frame) /\ frame \in FramesRead'
    BY <1>1, <1>2, <1>7 DEF Ingest
  <2>2. accepts_list \in Seq(FramesRead')
    BY <1>1, <1>3 DEF AcceptsKept
  <2>3. /\ accepts_list' \in Seq(FramesRead') /\ Len(accepts_list') = Len(accepts_list) + 1
        /\ DOMAIN accepts_list' = DOMAIN accepts_list \cup {m}
        /\ \A a \in DOMAIN accepts_list : accepts_list'[a] = accepts_list[a] /\ a # m
        /\ accepts_list'[m] = frame
    BY <2>1, <2>2
  <2>4. \A i \in DOMAIN read, a \in DOMAIN accepts_list :
            Listed(i, a) => Listed(i, a)' /\ a \in DOMAIN accepts_list'
    BY <1>5, <2>3 DEF Listed
  <2>5. Listed(n, m)' /\ m \in DOMAIN accepts_list'
    BY <1>1, <1>6, <1>7, <2>3 DEF Listed, FrameAt, frame
  <2>6. \A i \in DOMAIN read' : IsAccept(i)' => \E a \in DOMAIN accepts_list' : Listed(i, a)'
    BY <1>1, <1>3, <1>5, <2>4, <2>5 DEF AcceptsKept
  <2>7. ASSUME NEW i \in DOMAIN read', NEW j \in DOMAIN read',
               IsAccept(i)', IsAccept(j)', i # j
        PROVE  \E a, b \in DOMAIN accepts_list' : Listed(i, a)' /\ Listed(j, b)' /\ a # b
    <3>1. CASE i \in DOMAIN read /\ j \in DOMAIN read
      <4>1. PICK a, b \in DOMAIN accepts_list : Listed(i, a) /\ Listed(j, b) /\ a # b
        BY <1>3, <1>5, <2>7, <3>1 DEF AcceptsKept
      <4>2. QED
        BY <2>4, <3>1, <4>1
    <3>2. CASE i \in DOMAIN read /\ j = n
      <4>1. PICK a \in DOMAIN accepts_list : Listed(i, a)
        BY <1>3, <1>5, <2>7, <3>2 DEF AcceptsKept
      <4>2. QED
        BY <2>3, <2>4, <2>5, <3>2, <4>1
    <3>3. CASE i = n /\ j \in DOMAIN read
      <4>1. PICK b \in DOMAIN accepts_list : Listed(j, b)
        BY <1>3, <1>5, <2>7, <3>3 DEF AcceptsKept
      <4>2. QED
        BY <2>3, <2>4, <2>5, <3>3, <4>1
    <3>4. QED
      BY <1>1, <2>7, <3>1, <3>2, <3>3
  <2>8. Len(accepts_list') <= Len(read')
    BY <1>1, <1>3, <1>4, <2>3 DEF AcceptsKept
  <2>9. QED
    BY <2>3, <2>6, <2>7, <2>8 DEF AcceptsKept
<1>8. CASE ~(frame # Null /\ frame.type = "accept")
  <2>1. accepts_list' = accepts_list
    BY <1>2, <1>8 DEF Ingest
  <2>2. accepts_list' \in Seq(FramesRead')
    BY <1>1, <1>3, <2>1 DEF AcceptsKept
  <2>3. \A i \in DOMAIN read, a \in DOMAIN accepts_list :
            Listed(i, a) => Listed(i, a)' /\ a \in DOMAIN accepts_list'
    BY <1>5, <2>1 DEF Listed
  <2>4. \A i \in DOMAIN read' : IsAccept(i)' => i \in DOMAIN read /\ IsAccept(i)
    BY <1>1, <1>5, <1>6, <1>8
  <2>5. \A i \in DOMAIN read' : IsAccept(i)' => \E a \in DOMAIN accepts_list' : Listed(i, a)'
    BY <1>3, <2>3, <2>4 DEF AcceptsKept
  <2>6. \A i, j \in DOMAIN read' : IsAccept(i)' /\ IsAccept(j)' /\ i # j =>
            \E a, b \in DOMAIN accepts_list' : Listed(i, a)' /\ Listed(j, b)' /\ a # b
    BY <1>3, <2>3, <2>4 DEF AcceptsKept
  <2>7. Len(accepts_list') <= Len(read')
    BY <1>1, <1>3, <1>4, <2>1 DEF AcceptsKept
  <2>8. QED
    BY <2>2, <2>5, <2>6, <2>7 DEF AcceptsKept
<1>9. QED
  BY <1>7, <1>8

LEMMA ReadSignatures ==
    ASSUME TranscriptInv, NEW line \in Lines, Read(line)
    PROVE  SignaturesKept'
<1>1. /\ DOMAIN read' = DOMAIN read \cup {Len(read) + 1}
      /\ \A i \in DOMAIN read : read'[i] = read[i]
      /\ read'[Len(read) + 1] = line
  BY LineRead
<1>2. signatures_ok' = (signatures_ok /\ (line.json => line.status = "VALID"))
  BY DEF Read, Ingest, signatures_after
<1>3. SignaturesKept
  BY DEF TranscriptInv
<1>4. signatures_ok' \in BOOLEAN
  BY <1>2
<1>5. ASSUME signatures_ok', NEW i \in DOMAIN read', read'[i].json
      PROVE  read'[i].status = "VALID"
  <2>1. CASE i \in DOMAIN read
    BY <1>1, <1>2, <1>3, <1>5, <2>1 DEF SignaturesKept
  <2>2. CASE i = Len(read) + 1
    BY <1>1, <1>2, <1>5, <2>2
  <2>3. QED
    BY <1>1, <1>5, <2>1, <2>2
<1>6. QED
  BY <1>4, <1>5 DEF SignaturesKept

\* A selection is of the transcript as it was read.
LEMMA SelectChosen ==
    ASSUME TranscriptInv, NEW target, Select(target)
    PROVE  (AgreementTraced /\ NeverGuesses)'
<1>1. UNCHANGED <<read, offers_by_id, accepts_list, frames_by_contract, signatures_ok>>
  BY DEF Select
<1>2. FramesRead' = FramesRead /\ OffersRead' = OffersRead
  BY <1>1 DEF FramesRead, OffersRead
<1>3. CASE Cardinality(matched(target)) # 1
  <2>1. ~Found'
    BY <1>3 DEF Select, Found
  <2>2. QED
    BY <2>1 DEF AgreementTraced, NeverGuesses
<1>4. CASE Cardinality(matched(target)) = 1
  <2> DEFINE i == CHOOSE k \in matched(target) : TRUE
             o == CHOOSE x \in offers_of(accepts_list[i]) : TRUE
             c == accepts_list[i]
             a == candidate(i)
  <2>1. IsFiniteSet(matched(target))
    <3>1. Len(accepts_list) \in Nat /\ DOMAIN accepts_list = 1..Len(accepts_list)
      BY DEF TranscriptInv, AcceptsKept
    <3>2. IsFiniteSet(DOMAIN accepts_list)
      BY <3>1, FS_Interval
    <3>3. matched(target) \subseteq DOMAIN accepts_list
      BY DEF matched, candidates
    <3>4. QED
      BY <3>2, <3>3, FS_Subset
  <2>2. matched(target) # {}
    BY <1>4, FS_EmptySet
  <2>3. i \in matched(target)
    BY <2>2
  <2>4. /\ selection'.found = TRUE /\ selection'.target = target
        /\ selection'.agreement = a /\ selection'.authentic = signatures_ok
    BY <1>4 DEF Select
  <2> HIDE DEF i
  <2>5. i \in DOMAIN accepts_list /\ offers_of(c) # {} /\ c \in FramesRead
    BY <2>3 DEF matched, candidates, TranscriptInv, AcceptsKept
  <2>6. o \in offers_of(c)
    BY <2>5
  <2>7. a = AgreementOf(o, c)
    BY DEF candidate
  <2> HIDE DEF o, a
  <2>8. o \in OffersRead /\ c.ref = o.id
    BY <2>6 DEF offers_of, TranscriptInv, OffersKept
  <2>9. /\ a.offer = o /\ a.accept = c
        /\ a.payer_did = IF o.role = "payer" THEN o.from ELSE c.from
        /\ a.payee_did = IF o.role = "payer" THEN c.from ELSE o.from
    BY <2>7 DEF AgreementOf
  <2>10. target \in {Null, a.contract_id, a.computed}
    BY <2>3 DEF matched, a
  <2>11. signatures_ok => \A k \in DOMAIN read : read[k].json => read[k].status = "VALID"
    BY DEF TranscriptInv, SignaturesKept
  <2>12. AgreementTraced'
    <3>1. (selection.authentic =>
              \A k \in DOMAIN read : read[k].json => read[k].status = "VALID")'
      BY <1>1, <2>4, <2>11
    <3>2. a.offer \in OffersRead' /\ a.accept \in FramesRead' /\ a.accept.ref = a.offer.id
      BY <1>2, <2>5, <2>8, <2>9
    <3>3. /\ {a.payer_did, a.payee_did} = {a.offer.from, a.accept.from}
          /\ IF a.offer.role = "payer" THEN a.payer_did = a.offer.from
             ELSE a.payee_did = a.offer.from
      BY <2>9
    <3>4. QED
      BY <2>4, <2>10, <3>1, <3>2, <3>3 DEF AgreementTraced
  <2>13. NeverGuesses'
    <3> DEFINE fits(h) == h.ref \in {x.id : x \in OffersRead} /\ target \in {Null, h.contract}
    <3>1. ASSUME NEW k \in DOMAIN read, NEW l \in DOMAIN read, IsAccept(k), IsAccept(l), k # l,
                 fits(FrameAt(k)), fits(FrameAt(l))
          PROVE  FALSE
      <4>1. PICK x, y \in DOMAIN accepts_list : Listed(k, x) /\ Listed(l, y) /\ x # y
        BY <3>1 DEF TranscriptInv, AcceptsKept
      <4>2. ASSUME NEW z \in DOMAIN accepts_list, fits(accepts_list[z])
            PROVE  z \in matched(target)
        <5>1. PICK p \in offers_by_id : p[1] = accepts_list[z].ref
          BY <4>2 DEF TranscriptInv, OffersKept
        <5>2. offers_of(accepts_list[z]) # {}
          BY <5>1 DEF offers_of
        <5>3. accepts_list[z].contract # Null => candidate(z).contract_id = accepts_list[z].contract
          BY DEF candidate, AgreementOf
        <5>4. QED
          BY <4>2, <5>2, <5>3 DEF matched, candidates
      <4>3. x \in matched(target) /\ y \in matched(target)
        BY <3>1, <4>1, <4>2 DEF Listed
      <4>4. QED
        BY <1>4, <2>1, <4>1, <4>3, OnlyOne
    <3>2. ASSUME NEW k \in DOMAIN read, NEW l \in DOMAIN read, k # l, read[k].json, read[l].json,
                 Null \notin {FrameAt(k), FrameAt(l)},
                 FrameAt(k).type = "accept", FrameAt(l).type = "accept"
          PROVE  ~(fits(FrameAt(k)) /\ fits(FrameAt(l)))
      BY <3>1, <3>2 DEF IsAccept, IsFrame
    <3>3. QED
      BY <1>1, <1>2, <2>4, <3>2 DEF NeverGuesses, FrameAt
  <2>14. QED
    BY <2>12, <2>13
<1>5. QED
  BY <1>3, <1>4

LEMMA TranscriptNextInv == TranscriptInv /\ [ReadNext]_transcriptVars => TranscriptInv'
<1> SUFFICES ASSUME TranscriptInv, [ReadNext]_transcriptVars
             PROVE  TranscriptInv'
  OBVIOUS
<1>1. ASSUME NEW line \in Lines, Read(line)
      PROVE  TranscriptInv'
  <2>1. read' \in Seq(Lines)
    BY <1>1, LineRead
  <2>2. ~Found'
    BY <1>1 DEF Read, Found
  <2>3. (AgreementTraced /\ NeverGuesses)'
    BY <2>2 DEF AgreementTraced, NeverGuesses
  <2>4. QED
    BY <1>1, <2>1, <2>3, ReadOffers, ReadAccepts, ReadSignatures DEF TranscriptInv
<1>2. ASSUME UNCHANGED <<read, offers_by_id, accepts_list, frames_by_contract, signatures_ok>>,
             (AgreementTraced /\ NeverGuesses)'
      PROVE  TranscriptInv'
  <2>1. FramesRead' = FramesRead /\ OffersRead' = OffersRead
    BY <1>2 DEF FramesRead, OffersRead
  <2>2. OffersKept'
    BY <1>2, <2>1 DEF TranscriptInv, OffersKept
  <2>3. AcceptsKept'
    BY <1>2, <2>1 DEF TranscriptInv, AcceptsKept, IsAccept, IsFrame, FrameAt, Listed
  <2>4. SignaturesKept'
    BY <1>2 DEF TranscriptInv, SignaturesKept
  <2>5. QED
    BY <1>2, <2>2, <2>3, <2>4 DEF TranscriptInv
<1>3. ASSUME NEW line \in Lines, Raise(line)
      PROVE  TranscriptInv'
  <2>1. ~Found'
    BY <1>3 DEF Raise, Found
  <2>2. (AgreementTraced /\ NeverGuesses)'
    BY <2>1 DEF AgreementTraced, NeverGuesses
  <2>3. QED
    BY <1>2, <1>3, <2>2 DEF Raise
<1>4. ASSUME NEW target \in Targets, Select(target)
      PROVE  TranscriptInv'
  BY <1>2, <1>4, SelectChosen DEF Select
<1>5. CASE UNCHANGED transcriptVars
  <2>1. UNCHANGED <<read, selection, FramesRead, OffersRead, Found>>
    BY <1>5 DEF transcriptVars, Found, OffersRead, FramesRead
  <2>2. AgreementTraced'
    BY <2>1 DEF TranscriptInv, AgreementTraced
  <2>3. NeverGuesses'
    BY <2>1 DEF TranscriptInv, NeverGuesses
  <2>4. QED
    BY <1>2, <1>5, <2>2, <2>3 DEF transcriptVars
<1>6. QED
  BY <1>1, <1>3, <1>4, <1>5 DEF ReadNext

LEMMA TranscriptAlways == ReadSpec => []TranscriptInv
BY TranscriptInitInv, TranscriptNextInv, PTL DEF ReadSpec

\* What cross_verify.py makes of an export's lines, whatever they are: one offer of an id,
\* and no accept that is not of a line.
THEOREM ReadTypeOKAlways == ReadSpec => []ReadTypeOK
<1>1. TranscriptInv => ReadTypeOK
  BY DEF TranscriptInv, OffersKept, AcceptsKept, SignaturesKept, ReadTypeOK
<1>2. QED
  BY <1>1, TranscriptAlways, PTL

\* The selected agreement is that of an offer and an accept of the transcript that belong
\* together, in their roles, and passes as signed only if every record is: whatever the
\* lines, in whatever order, and however often each.
THEOREM AgreementTracedAlways == ReadSpec => []AgreementTraced
<1>1. TranscriptInv => AgreementTraced
  BY DEF TranscriptInv
<1>2. QED
  BY <1>1, TranscriptAlways, PTL

\* Of two accepts that fit what the caller asks for, parse_export_lines selects neither.
THEOREM NeverGuessesAlways == ReadSpec => []NeverGuesses
<1>1. TranscriptInv => NeverGuesses
  BY DEF TranscriptInv
<1>2. QED
  BY <1>1, TranscriptAlways, PTL

-----------------------------------------------------------------------------
(* The chain.  What a block's logs say is true of the escrows after it and   *)
(* after every later block.                                                  *)

Places == Deployments \X Ids
EscrowRecords == {NoEscrow} \cup [status : {"Locked", "Claimed", "Refunded"}, terms : Terms,
                                  secret : Secrets \cup {None}]
EscrowMaps == [Places -> EscrowRecords]

Told(l, es) ==
    LET e == es[<<l.address, l.id>>]
    IN  /\ l.name = "Locked" => e.status # "None" /\ e.terms = l.terms
        /\ l.name = "Claimed" => e.status = "Claimed" /\ e.secret = l.secret
        /\ l.name = "Refunded" => e.status = "Refunded"

AllTold(logs, es) == \A n \in DOMAIN logs : Told(logs[n], es)

\* The escrows after block i.
EscrowsAt(i) == IF i = 0 THEN [x \in Places |-> NoEscrow] ELSE chain[i].escrows

\* A block of one call that succeeded.
RanAlone(i) ==
    LET c == chain[i].tx.calls[1]
    IN  chain[i].ok /\ Len(chain[i].tx.calls) = 1 =>
            /\ chain[i].logs = LogsOf(c)
            /\ Runs(EscrowsAt(i - 1)[<<c.at, c.id>>], c, i)

Blocks == [tx : Txs, ok : BOOLEAN, logs : Seq(Log), escrows : EscrowMaps]

ChainInv ==
    /\ chain \in Seq(Blocks) /\ Len(chain) <= MaxBlocks
    /\ \A i, j \in DOMAIN chain : i <= j => AllTold(chain[i].logs, chain[j].escrows)
    /\ \A i, j \in DOMAIN chain : chain[i].tx = chain[j].tx => i = j
    /\ \A i \in DOMAIN chain : RanAlone(i)

\* The state w of a transaction under way.
UnderWay(w) ==
    /\ w.ok \in BOOLEAN /\ w.escrows \in EscrowMaps
    /\ w.logs \in Seq(Log) /\ AllTold(w.logs, w.escrows)
    /\ \A i \in DOMAIN chain : AllTold(chain[i].logs, w.escrows)

LEMMA CallKinds ==
    ASSUME NEW call \in Call
    PROVE  /\ call.at \in Deployments /\ call.id \in Ids /\ <<call.at, call.id>> \in Places
           /\ call.do \in {"lock", "claim", "refund"}
           /\ call.do = "lock" => call.terms \in Terms
           /\ call.do = "claim" => call.secret \in Secrets
BY DEF Call, Places

\* The logs of a call: its event, and before it perhaps a transfer.
LEMMA LogsOfCall ==
    ASSUME NEW call \in Call
    PROVE  /\ LogsOf(call) \in Seq(Log) /\ Len(LogsOf(call)) > 0
           /\ LET event == LogsOf(call)[Len(LogsOf(call))]
              IN  /\ event.address = call.at /\ event.id = call.id
                  /\ call.do = "lock" => event.name = "Locked" /\ event.terms = call.terms
                  /\ call.do = "claim" => event.name = "Claimed" /\ event.secret = call.secret
                  /\ call.do = "refund" => event.name = "Refunded"
           /\ \A n \in DOMAIN LogsOf(call) :
                  n # Len(LogsOf(call)) => LogsOf(call)[n].name = "Transfer" /\ n = 1 /\ call.do = "lock"
           /\ Len(LogsOf(call)) = 2 <=> /\ call.do = "lock"
                                        /\ call.terms.token \notin SilentTokens \cup {Native}
           /\ Len(LogsOf(call)) = 2 =>
                  LogsOf(call)[1] = [name |-> "Transfer", address |-> call.terms.token,
                                     from |-> call.terms.payer, to |-> call.at,
                                     amount |-> call.terms.amount]
<1> USE CallKinds
<1>1. CASE call.do = "lock"
  <2> DEFINE moved == [name |-> "Transfer", address |-> call.terms.token, from |-> call.terms.payer,
                       to |-> call.at, amount |-> call.terms.amount]
             event == [name |-> "Locked", address |-> call.at, id |-> call.id, terms |-> call.terms]
  <2>1. moved \in Log /\ event \in Log
    BY <1>1 DEF Log
  <2>2. LogsOf(call) = (IF call.terms.token \in SilentTokens \cup {Native} THEN << >>
                        ELSE <<moved>>) \o <<event>>
    BY <1>1 DEF LogsOf
  <2>3. /\ event.name = "Locked" /\ event.address = call.at /\ event.id = call.id
        /\ event.terms = call.terms /\ moved.name = "Transfer"
    OBVIOUS
  <2> HIDE DEF moved, event
  <2>4. CASE call.terms.token \in SilentTokens \cup {Native}
    <3>1. LogsOf(call) = <<event>>
      BY <2>1, <2>2, <2>4
    <3>2. /\ LogsOf(call) \in Seq(Log) /\ Len(LogsOf(call)) = 1 /\ LogsOf(call)[1] = event
          /\ DOMAIN LogsOf(call) = {1}
      BY <2>1, <3>1
    <3>3. QED
      BY <1>1, <2>3, <2>4, <3>2
  <2>5. CASE call.terms.token \notin SilentTokens \cup {Native}
    <3>1. PICK s, r \in Seq(Log) : /\ LogsOf(call) = s \o r /\ Len(s) = 1 /\ Len(r) = 1
                                  /\ s[1] = moved /\ r[1] = event
      <4>1. LogsOf(call) = <<moved>> \o <<event>>
        BY <2>2, <2>5
      <4>2. <<moved>> \in Seq(Log) /\ <<event>> \in Seq(Log)
        BY <2>1
      <4>3. QED
        BY <4>1, <4>2
    <3>2. /\ LogsOf(call) \in Seq(Log) /\ Len(LogsOf(call)) = 2
          /\ LogsOf(call)[1] = moved /\ LogsOf(call)[2] = event
          /\ DOMAIN LogsOf(call) = {1, 2}
      <4>1. /\ s \o r \in Seq(Log) /\ Len(s \o r) = Len(s) + Len(r)
            /\ \A i \in 1..(Len(s) + Len(r)) :
                   (s \o r)[i] = IF i <= Len(s) THEN s[i] ELSE r[i - Len(s)]
        BY ConcatProperties
      <4>2. LogsOf(call) \in Seq(Log) /\ Len(LogsOf(call)) = 2
        BY <3>1, <4>1
      <4>3. LogsOf(call)[1] = moved /\ LogsOf(call)[2] = event
        BY <3>1, <4>1
      <4>4. DOMAIN LogsOf(call) = 1..2
        BY <4>2
      <4>5. QED
        BY <4>2, <4>3, <4>4
    <3>3. QED
      BY <1>1, <2>3, <2>5, <3>2 DEF moved
  <2>6. QED
    BY <2>4, <2>5
<1>2. CASE call.do = "claim"
  <2> DEFINE event == [name |-> "Claimed", address |-> call.at, id |-> call.id,
                       secret |-> call.secret]
  <2>1. LogsOf(call) = <<event>> /\ event \in Log
    BY <1>2 DEF LogsOf, Log
  <2>2. /\ event.name = "Claimed" /\ event.address = call.at /\ event.id = call.id
        /\ event.secret = call.secret
    OBVIOUS
  <2> HIDE DEF event
  <2>3. /\ LogsOf(call) \in Seq(Log) /\ Len(LogsOf(call)) = 1 /\ LogsOf(call)[1] = event
        /\ DOMAIN LogsOf(call) = {1}
    BY <2>1
  <2>4. QED
    BY <1>2, <2>2, <2>3
<1>3. CASE call.do = "refund"
  <2> DEFINE event == [name |-> "Refunded", address |-> call.at, id |-> call.id]
  <2>1. LogsOf(call) = <<event>> /\ event \in Log
    BY <1>3 DEF LogsOf, Log
  <2>2. event.name = "Refunded" /\ event.address = call.at /\ event.id = call.id
    OBVIOUS
  <2> HIDE DEF event
  <2>3. /\ LogsOf(call) \in Seq(Log) /\ Len(LogsOf(call)) = 1 /\ LogsOf(call)[1] = event
        /\ DOMAIN LogsOf(call) = {1}
    BY <2>1
  <2>4. QED
    BY <1>3, <2>2, <2>3
<1>4. QED
  BY <1>1, <1>2, <1>3

\* The escrows after a call that runs.
Applied(es, call) == [es EXCEPT ![<<call.at, call.id>>] = Run(es[<<call.at, call.id>>], call)]

\* A call that runs makes none of what was told untrue, and its own event true.
LEMMA RunTells ==
    ASSUME NEW es \in EscrowMaps, NEW call \in Call, NEW time,
           Runs(es[<<call.at, call.id>>], call, time)
    PROVE  /\ Applied(es, call) \in EscrowMaps
           /\ \A l \in Log : Told(l, es) => Told(l, Applied(es, call))
           /\ AllTold(LogsOf(call), Applied(es, call))
<1> PICK fs : fs = Applied(es, call)
  OBVIOUS
<1> USE DEF Applied
<1> DEFINE p == <<call.at, call.id>>
           e == es[p]
           f == Run(e, call)
<1>1. p \in Places /\ e \in EscrowRecords
  BY CallKinds DEF EscrowMaps
<1>2. /\ f \in EscrowRecords /\ f.status # "None" /\ e.status \notin {"Claimed", "Refunded"}
      /\ e.status # "None" => f.terms = e.terms
      /\ call.do = "lock" => f.terms = call.terms
      /\ call.do = "claim" => f.status = "Claimed" /\ f.secret = call.secret
      /\ call.do = "refund" => f.status = "Refunded"
  <2>1. CASE call.do = "lock"
    <3>1. f = [status |-> "Locked", terms |-> call.terms, secret |-> None] /\ e.status = "None"
      BY <2>1 DEF Run, Runs
    <3>2. call.terms \in Terms
      BY <2>1, CallKinds
    <3>3. QED
      BY <2>1, <3>1, <3>2 DEF EscrowRecords
  <2>2. CASE call.do = "claim"
    <3>1. f = [e EXCEPT !.status = "Claimed", !.secret = call.secret] /\ e.status = "Locked"
      BY <2>2 DEF Run, Runs
    <3>2. call.secret \in Secrets
      BY <2>2, CallKinds
    <3>3. e \in [status : {"Locked", "Claimed", "Refunded"}, terms : Terms,
                 secret : Secrets \cup {None}]
      BY <1>1, <3>1 DEF EscrowRecords, NoEscrow
    <3> HIDE DEF e, f
    <3>4. QED
      BY <2>2, <3>1, <3>2, <3>3 DEF EscrowRecords
  <2>3. CASE call.do = "refund"
    <3>1. f = [e EXCEPT !.status = "Refunded"] /\ e.status = "Locked"
      BY <2>3 DEF Run, Runs
    <3>2. e \in [status : {"Locked", "Claimed", "Refunded"}, terms : Terms,
                 secret : Secrets \cup {None}]
      BY <1>1, <3>1 DEF EscrowRecords, NoEscrow
    <3> HIDE DEF e, f
    <3>3. QED
      BY <2>3, <3>1, <3>2 DEF EscrowRecords
  <2>4. QED
    BY <2>1, <2>2, <2>3, CallKinds
<1> HIDE DEF p, e, f
<1>3. fs[p] = f /\ \A q \in Places : q # p => fs[q] = es[q]
  BY <1>1 DEF EscrowMaps, p, e, f
<1>4. fs \in EscrowMaps
  BY <1>1, <1>2 DEF EscrowMaps, p, e, f
<1>5. ASSUME NEW l \in Log, Told(l, es)
      PROVE  Told(l, fs)
  <2>1. CASE l.name \notin {"Locked", "Claimed", "Refunded"}
    BY <2>1 DEF Told
  <2>2. CASE l.name \in {"Locked", "Claimed", "Refunded"}
    <3>1. <<l.address, l.id>> \in Places
      BY <2>2 DEF Log, Places
    <3>2. CASE <<l.address, l.id>> # p
      BY <1>3, <1>5, <3>1, <3>2 DEF Told
    <3>3. CASE <<l.address, l.id>> = p
      BY <1>2, <1>3, <1>5, <3>3 DEF Told, e
    <3>4. QED
      BY <3>2, <3>3
  <2>3. QED
    BY <2>1, <2>2
<1>6. ASSUME NEW n \in DOMAIN LogsOf(call)
      PROVE  Told(LogsOf(call)[n], fs)
  <2>1. CASE n # Len(LogsOf(call))
    <3>1. LogsOf(call)[n].name = "Transfer"
      BY <2>1, LogsOfCall
    <3>2. QED
      BY <3>1 DEF Told
  <2>2. CASE n = Len(LogsOf(call))
    <3>1. LET event == LogsOf(call)[n]
          IN  /\ event.address = call.at /\ event.id = call.id
              /\ call.do = "lock" => event.name = "Locked" /\ event.terms = call.terms
              /\ call.do = "claim" => event.name = "Claimed" /\ event.secret = call.secret
              /\ call.do = "refund" => event.name = "Refunded"
      BY <2>2, LogsOfCall
    <3>2. call.do \in {"lock", "claim", "refund"}
      BY CallKinds
    <3>3. QED
      BY <1>2, <1>3, <3>1, <3>2 DEF Told, p
  <2>3. QED
    BY <2>1, <2>2
<1>7. QED
  BY <1>4, <1>5, <1>6 DEF AllTold

\* A non-empty set of naturals has a least element.
LEMMA Least ==
    ASSUME NEW T, T \subseteq Nat, T # {}
    PROVE  \E x \in T : \A y \in T : x <= y
<1> DEFINE R == OpToRel(<, Nat)
<1>1. \A x, y \in Nat : x < y => <<x, y>> \in R
  BY DEF OpToRel
<1>2. IsWellFoundedOn(R, Nat)
  BY NatLessThanWellFounded
<1> HIDE DEF R
<1>3. PICK x \in T : \A y \in T : ~ (<<y, x>> \in R)
  BY <1>2, WFMin
<1>4. ASSUME NEW y \in T
      PROVE  x <= y
  <2>1. x \in Nat /\ y \in Nat /\ ~(y < x)
    BY <1>1, <1>3
  <2>2. QED
    BY <2>1
<1>5. QED
  BY <1>4

\* The states a transaction goes through in its first n calls.
IsExecution(it, tx, n) ==
    it = [k \in 0..n |-> IF k = 0 THEN Unrun(TRUE) ELSE RunNext(it[k - 1], tx.calls[k])]

Executed(tx) == CHOOSE it : IsExecution(it, tx, Len(tx.calls))

LEMMA ExecutionExists ==
    ASSUME NEW tx, NEW n \in Nat
    PROVE  \E it : IsExecution(it, tx, n)
<1> DEFINE Bad == {m \in Nat : ~\E it : IsExecution(it, tx, m)}
<1>1. SUFFICES ASSUME Bad # {}
               PROVE  FALSE
  OBVIOUS
<1>2. PICK m \in Bad : \A k \in Bad : m <= k
  <2>1. Bad \subseteq Nat
    OBVIOUS
  <2> HIDE DEF Bad
  <2>2. QED
    BY <1>1, <2>1, Least
<1>3. CASE m = 0
  <2>1. IsExecution([k \in 0..0 |-> Unrun(TRUE)], tx, 0)
    BY DEF IsExecution
  <2>2. QED
    BY <1>2, <1>3, <2>1
<1>4. CASE m # 0
  <2>1. m \in Nat /\ m - 1 \in Nat /\ ~(m <= m - 1)
    BY <1>2, <1>4
  <2>2. m - 1 \notin Bad
    <3> HIDE DEF Bad
    <3> QED
      BY <1>2, <2>1
  <2>3. PICK it : IsExecution(it, tx, m - 1)
    BY <2>1, <2>2
  <2> DEFINE more == [k \in 0..m |-> IF k = 0 THEN Unrun(TRUE)
                                     ELSE RunNext(it[k - 1], tx.calls[k])]
  <2>4. ASSUME NEW k \in 0..(m - 1)
        PROVE  more[k] = it[k]
    <3>1. it = [j \in 0..(m - 1) |-> IF j = 0 THEN Unrun(TRUE) ELSE RunNext(it[j - 1], tx.calls[j])]
      BY <2>3 DEF IsExecution
    <3>2. it[k] = IF k = 0 THEN Unrun(TRUE) ELSE RunNext(it[k - 1], tx.calls[k])
      BY <3>1
    <3>3. k \in 0..m
      BY <2>1
    <3>4. more[k] = IF k = 0 THEN Unrun(TRUE) ELSE RunNext(it[k - 1], tx.calls[k])
      BY <3>3
    <3>5. QED
      BY <3>2, <3>4
  <2>5. \A k \in 0..m : k # 0 => more[k - 1] = it[k - 1]
    <3> HIDE DEF more
    <3> QED
      BY <2>1, <2>4
  <2>6. more = [k \in 0..m |-> IF k = 0 THEN Unrun(TRUE)
                               ELSE RunNext(more[k - 1], tx.calls[k])]
    <3> DEFINE again == [k \in 0..m |-> IF k = 0 THEN Unrun(TRUE)
                                        ELSE RunNext(more[k - 1], tx.calls[k])]
    <3>1. ASSUME NEW k \in 0..m
          PROVE  more[k] = again[k]
      <4>1. CASE k = 0
        BY <4>1
      <4>2. CASE k # 0
        <5>1. more[k] = RunNext(it[k - 1], tx.calls[k])
          BY <4>2
        <5>2. again[k] = RunNext(more[k - 1], tx.calls[k])
          <6> HIDE DEF more
          <6> QED
            BY <4>2
        <5>3. more[k - 1] = it[k - 1]
          BY <2>5, <4>2
        <5> HIDE DEF more, again
        <5>4. QED
          BY <5>1, <5>2, <5>3
      <4>3. QED
        BY <4>1, <4>2
    <3>2. DOMAIN more = 0..m /\ DOMAIN again = 0..m
      OBVIOUS
    <3>3. more = [k \in 0..m |-> more[k]] /\ again = [k \in 0..m |-> again[k]]
      OBVIOUS
    <3> HIDE DEF more, again
    <3>4. more = again
      BY <3>1, <3>3
    <3>5. QED
      BY <3>4 DEF again
  <2> HIDE DEF more
  <2>7. IsExecution(more, tx, m)
    BY <2>6 DEF IsExecution
  <2>8. QED
    BY <1>2, <2>7
<1>5. QED
  BY <1>3, <1>4

LEMMA ExecutionSteps ==
    ASSUME NEW tx, tx.calls \in Seq(Call)
    PROVE  /\ Execution(tx) = Executed(tx)[Len(tx.calls)]
           /\ Executed(tx)[0] = Unrun(TRUE)
           /\ \A k \in 1..Len(tx.calls) :
                  Executed(tx)[k] = RunNext(Executed(tx)[k - 1], tx.calls[k])
<1>1. Len(tx.calls) \in Nat
  OBVIOUS
<1>2. Execution(tx) = Executed(tx)[Len(tx.calls)]
  BY DEF Execution, Executed, IsExecution
<1>3. IsExecution(Executed(tx), tx, Len(tx.calls))
  BY <1>1, ExecutionExists DEF Executed
<1>4. PICK it : it = Executed(tx)
  OBVIOUS
<1>5. it = [k \in 0..Len(tx.calls) |-> IF k = 0 THEN Unrun(TRUE)
                                       ELSE RunNext(it[k - 1], tx.calls[k])]
  BY <1>3, <1>4 DEF IsExecution
<1>6. it[0] = Unrun(TRUE) /\ \A k \in 1..Len(tx.calls) : it[k] = RunNext(it[k - 1], tx.calls[k])
  BY <1>1, <1>5
<1>7. QED
  BY <1>2, <1>4, <1>6

\* Nothing run yet, or all of it undone.
LEMMA UnrunUnderWay ==
    ASSUME ChainInv, NEW ok \in BOOLEAN
    PROVE  UnderWay(Unrun(ok)) /\ EscrowsOf(chain) = EscrowsAt(Len(chain))
<1>1. chain \in Seq(Blocks) /\ Len(chain) \in Nat
  BY DEF ChainInv
<1>2. CASE chain = << >>
  <2>1. Len(chain) = 0 /\ DOMAIN chain = {}
    BY <1>2
  <2>2. EscrowsOf(chain) = [x \in Places |-> NoEscrow]
    BY <1>2 DEF EscrowsOf, Places
  <2>3. EscrowsOf(chain) \in EscrowMaps
    BY <2>2 DEF EscrowMaps, EscrowRecords
  <2>4. /\ Unrun(ok).ok = ok /\ Unrun(ok).logs = << >> /\ Unrun(ok).escrows = EscrowsOf(chain)
    BY DEF Unrun
  <2>5. << >> \in Seq(Log) /\ DOMAIN << >> = {}
    OBVIOUS
  <2>6. QED
    BY <2>1, <2>2, <2>3, <2>4, <2>5 DEF UnderWay, AllTold, EscrowsAt
<1>3. CASE chain # << >>
  <2>1. Len(chain) \in DOMAIN chain /\ Len(chain) # 0
    BY <1>1, <1>3
  <2>2. EscrowsOf(chain) = chain[Len(chain)].escrows
    BY <1>3 DEF EscrowsOf, Last
  <2>3. chain[Len(chain)] \in Blocks
    BY <1>1, <2>1
  <2>4. EscrowsOf(chain) \in EscrowMaps
    BY <2>2, <2>3 DEF Blocks
  <2>5. \A i \in DOMAIN chain : AllTold(chain[i].logs, EscrowsOf(chain))
    <3>1. \A i \in DOMAIN chain : i <= Len(chain)
      BY <1>1
    <3>2. QED
      BY <2>1, <2>2, <3>1 DEF ChainInv
  <2>6. /\ Unrun(ok).ok = ok /\ Unrun(ok).logs = << >> /\ Unrun(ok).escrows = EscrowsOf(chain)
    BY DEF Unrun
  <2>7. << >> \in Seq(Log) /\ DOMAIN << >> = {}
    OBVIOUS
  <2>8. UnderWay(Unrun(ok))
    BY <2>4, <2>5, <2>6, <2>7 DEF UnderWay, AllTold
  <2>9. QED
    BY <2>1, <2>2, <2>8 DEF EscrowsAt
<1>4. QED
  BY <1>2, <1>3

LEMMA CallUnderWay ==
    ASSUME ChainInv, NEW w, UnderWay(w), NEW call \in Call
    PROVE  UnderWay(RunNext(w, call))
<1> DEFINE p == <<call.at, call.id>>
<1>1. CASE ~(w.ok /\ Runs(w.escrows[p], call, Len(chain) + 1))
  <2>1. RunNext(w, call) = Unrun(FALSE)
    BY <1>1 DEF RunNext
  <2>2. QED
    BY <2>1, UnrunUnderWay
<1>2. CASE w.ok /\ Runs(w.escrows[p], call, Len(chain) + 1)
  <2>1. PICK fs : fs = Applied(w.escrows, call)
    OBVIOUS
  <2>2. PICK ls : ls = w.logs \o LogsOf(call)
    OBVIOUS
  <2>3. RunNext(w, call) = [ok |-> TRUE, escrows |-> fs, logs |-> ls]
    BY <1>2, <2>1, <2>2 DEF RunNext, Applied
  <2>4. /\ w.escrows \in EscrowMaps /\ w.logs \in Seq(Log) /\ AllTold(w.logs, w.escrows)
        /\ \A i \in DOMAIN chain : AllTold(chain[i].logs, w.escrows)
    BY DEF UnderWay
  <2>5. /\ fs \in EscrowMaps /\ AllTold(LogsOf(call), fs)
        /\ \A l \in Log : Told(l, w.escrows) => Told(l, fs)
    BY <1>2, <2>1, <2>4, RunTells
  <2>6. LogsOf(call) \in Seq(Log)
    BY LogsOfCall
  <2>7. /\ ls \in Seq(Log) /\ Len(ls) = Len(w.logs) + Len(LogsOf(call))
        /\ \A i \in 1..(Len(w.logs) + Len(LogsOf(call))) :
               ls[i] = IF i <= Len(w.logs) THEN w.logs[i] ELSE LogsOf(call)[i - Len(w.logs)]
    BY <2>2, <2>4, <2>6, ConcatProperties
  <2>8. ASSUME NEW n \in DOMAIN ls
        PROVE  Told(ls[n], fs)
    <3>1. n \in 1..(Len(w.logs) + Len(LogsOf(call)))
      BY <2>7
    <3>2. CASE n <= Len(w.logs)
      <4>1. n \in DOMAIN w.logs /\ ls[n] = w.logs[n] /\ w.logs[n] \in Log
        BY <2>4, <2>7, <3>1, <3>2
      <4>2. QED
        BY <2>4, <2>5, <4>1 DEF AllTold
    <3>3. CASE ~(n <= Len(w.logs))
      <4>1. /\ n - Len(w.logs) \in DOMAIN LogsOf(call)
            /\ ls[n] = LogsOf(call)[n - Len(w.logs)]
        BY <2>4, <2>6, <2>7, <3>1, <3>3
      <4>2. QED
        BY <2>5, <4>1 DEF AllTold
    <3>4. QED
      BY <3>2, <3>3
  <2>9. ASSUME NEW i \in DOMAIN chain
        PROVE  AllTold(chain[i].logs, fs)
    <3>1. chain[i] \in Blocks
      BY DEF ChainInv
    <3>2. chain[i].logs \in Seq(Log)
      BY <3>1 DEF Blocks
    <3>3. \A n \in DOMAIN chain[i].logs : chain[i].logs[n] \in Log
      BY <3>2
    <3>4. QED
      BY <2>4, <2>5, <3>3 DEF AllTold
  <2>10. QED
    BY <2>3, <2>5, <2>7, <2>8, <2>9 DEF UnderWay, AllTold
<1>3. QED
  BY <1>1, <1>2

LEMMA ExecutionUnderWay ==
    ASSUME ChainInv, NEW tx, tx.calls \in Seq(Call)
    PROVE  UnderWay(Execution(tx))
<1> DEFINE Bad == {k \in 0..Len(tx.calls) : ~UnderWay(Executed(tx)[k])}
<1>1. Bad = {}
  <2> SUFFICES ASSUME Bad # {}
               PROVE  FALSE
    OBVIOUS
  <2>1. Bad \subseteq Nat
    OBVIOUS
  <2>2. PICK k \in Bad : \A j \in Bad : k <= j
    <3> HIDE DEF Bad
    <3> QED
      BY <2>1, Least
  <2>3. k \in 0..Len(tx.calls) /\ ~UnderWay(Executed(tx)[k])
    OBVIOUS
  <2>4. k # 0
    BY <2>3, UnrunUnderWay, ExecutionSteps
  <2>5. k \in 1..Len(tx.calls) /\ k - 1 \in 0..Len(tx.calls) /\ ~(k <= k - 1)
    BY <2>3, <2>4
  <2>6. k - 1 \notin Bad
    <3> HIDE DEF Bad
    <3> QED
      BY <2>2, <2>5
  <2>7. UnderWay(Executed(tx)[k - 1])
    BY <2>5, <2>6
  <2>8. Executed(tx)[k] = RunNext(Executed(tx)[k - 1], tx.calls[k])
    BY <2>5, ExecutionSteps
  <2>9. tx.calls[k] \in Call
    BY <2>5
  <2>10. QED
    BY <2>3, <2>7, <2>8, <2>9, CallUnderWay
<1>2. Len(tx.calls) \in 0..Len(tx.calls)
  OBVIOUS
<1>3. UnderWay(Executed(tx)[Len(tx.calls)])
  BY <1>1, <1>2
<1>4. QED
  BY <1>3, ExecutionSteps

\* The fields of what a transaction has done.
LEMMA DoneFields ==
    ASSUME NEW a, NEW b, NEW c, NEW r, r = [ok |-> a, escrows |-> b, logs |-> c]
    PROVE  r.ok = a /\ r.escrows = b /\ r.logs = c
OBVIOUS

\* A transaction of one call.
LEMMA ExecutionAlone ==
    ASSUME ChainInv, NEW tx, tx.calls \in Seq(Call), Len(tx.calls) = 1, Execution(tx).ok,
           NEW call, call = tx.calls[1]
    PROVE  /\ Execution(tx).logs = LogsOf(call)
           /\ Runs(EscrowsAt(Len(chain))[<<call.at, call.id>>], call, Len(chain) + 1)
<1>0. call \in Call /\ 1 \in 1..Len(tx.calls) /\ 1 - 1 = 0
  OBVIOUS
<1>1. Execution(tx) = RunNext(Unrun(TRUE), call)
  <2>1. Executed(tx)[1] = RunNext(Executed(tx)[1 - 1], tx.calls[1])
    BY <1>0, ExecutionSteps
  <2>2. QED
    BY <1>0, <2>1, ExecutionSteps
<1>2. Unrun(FALSE).ok = FALSE
  BY DEF Unrun
<1>3. /\ Runs(Unrun(TRUE).escrows[<<call.at, call.id>>], call, Len(chain) + 1)
      /\ Execution(tx).logs = Unrun(TRUE).logs \o LogsOf(call)
  <2> PICK w : w = Unrun(TRUE)
    OBVIOUS
  <2> DEFINE p == <<call.at, call.id>>
             goes == w.ok /\ Runs(w.escrows[p], call, Len(chain) + 1)
  <2>1. RunNext(w, call) = IF goes
                           THEN [ok |-> TRUE, escrows |-> [w.escrows EXCEPT ![p] = Run(@, call)],
                                 logs |-> w.logs \o LogsOf(call)]
                           ELSE Unrun(FALSE)
    BY DEF RunNext
  <2>2. goes
    <3> HIDE DEF goes
    <3> QED
      BY <1>1, <1>2, <2>1
  <2> HIDE DEF goes
  <2>3. Execution(tx).logs = w.logs \o LogsOf(call)
    <3>1. PICK ls : ls = w.logs \o LogsOf(call)
      OBVIOUS
    <3>2. PICK fs : RunNext(w, call) = [ok |-> TRUE, escrows |-> fs, logs |-> ls]
      BY <2>1, <2>2, <3>1
    <3>3. PICK r : r = RunNext(w, call)
      OBVIOUS
    <3>4. r.logs = ls
      BY <3>2, <3>3, DoneFields
    <3>5. r = Execution(tx)
      BY <1>1, <3>3, Zenon
    <3>6. QED
      BY <3>1, <3>4, <3>5, Zenon
  <2>4. QED
    BY <2>2, <2>3 DEF goes
<1>4. Unrun(TRUE).logs = << >> /\ Unrun(TRUE).escrows = EscrowsAt(Len(chain))
  BY UnrunUnderWay DEF Unrun
<1>5. LogsOf(call) \in Seq(Log)
  BY <1>0, LogsOfCall
<1>6. << >> \o LogsOf(call) = LogsOf(call)
  BY <1>5, ConcatEmptySeq
<1>7. QED
  BY <1>3, <1>4, <1>6

LEMMA ChainInitInv == EvmInit => ChainInv
<1> SUFFICES ASSUME EvmInit
             PROVE  ChainInv
  OBVIOUS
<1>1. chain \in Seq(Blocks) /\ Len(chain) = 0 /\ DOMAIN chain = {}
  BY DEF EvmInit
<1>2. 0 <= MaxBlocks
  BY EvmVerifierAssumption
<1>3. QED
  BY <1>1, <1>2 DEF ChainInv

\* The block of a transaction.
LEMMA MineBlock ==
    ASSUME ChainInv, NEW tx \in Txs, Mine(tx)
    PROVE  \E b \in Blocks :
               /\ b.tx = tx /\ b.ok = Execution(tx).ok
               /\ b.escrows = Execution(tx).escrows /\ b.logs = Execution(tx).logs
               /\ chain' \in Seq(Blocks) /\ Len(chain') = Len(chain) + 1
               /\ DOMAIN chain' = DOMAIN chain \cup {Len(chain) + 1}
               /\ \A i \in DOMAIN chain : chain'[i] = chain[i] /\ i <= Len(chain)
               /\ chain'[Len(chain) + 1] = b
<1>1. PICK w : w = Execution(tx)
  OBVIOUS
<1>2. w.ok \in BOOLEAN /\ w.escrows \in EscrowMaps /\ w.logs \in Seq(Log)
  <2>1. tx.calls \in Seq(Call)
    BY EvmVerifierAssumption
  <2>2. UnderWay(w)
    BY <1>1, <2>1, ExecutionUnderWay
  <2>3. QED
    BY <2>2 DEF UnderWay
<1>3. PICK b : b = [tx |-> tx, ok |-> w.ok, escrows |-> w.escrows, logs |-> w.logs]
  OBVIOUS
<1>4. chain' = Append(chain, b)
  BY <1>1, <1>3 DEF Mine
<1>5. b.tx = tx /\ b.ok = w.ok /\ b.escrows = w.escrows /\ b.logs = w.logs /\ b \in Blocks
  BY <1>2, <1>3 DEF Blocks
<1>6. chain \in Seq(Blocks)
  BY DEF ChainInv
<1>7. /\ chain' \in Seq(Blocks) /\ Len(chain') = Len(chain) + 1
      /\ DOMAIN chain' = DOMAIN chain \cup {Len(chain) + 1}
      /\ \A i \in DOMAIN chain : chain'[i] = chain[i] /\ i <= Len(chain)
      /\ chain'[Len(chain) + 1] = b
  BY <1>4, <1>5, <1>6
<1>8. QED
  BY <1>1, <1>5, <1>7

\* What a block keeps when the blocks up to it stay.
LEMMA RanAloneStays ==
    ASSUME chain \in Seq(Blocks), NEW i \in DOMAIN chain, RanAlone(i),
           \A j \in 1..i : chain'[j] = chain[j]
    PROVE  RanAlone(i)'
<1>1. i \in 1..Len(chain) /\ Len(chain) \in Nat
  OBVIOUS
<1>2. chain'[i] = chain[i]
  BY <1>1
<1>3. EscrowsAt(i - 1)' = EscrowsAt(i - 1)
  <2>1. CASE i = 1
    BY <2>1 DEF EscrowsAt
  <2>2. CASE i # 1
    <3>1. i - 1 \in 1..i /\ i - 1 # 0
      BY <1>1, <2>2
    <3>2. chain'[i - 1] = chain[i - 1]
      BY <3>1
    <3>3. QED
      BY <3>1, <3>2 DEF EscrowsAt
  <2>3. QED
    BY <2>1, <2>2
<1>4. QED
  BY <1>2, <1>3 DEF RanAlone

LEMMA MineChain ==
    ASSUME ChainInv, NEW tx \in Txs, Mine(tx)
    PROVE  ChainInv'
<1>1. PICK n : n = Len(chain) + 1
  OBVIOUS
<1>2. Len(chain) \in Nat /\ DOMAIN chain = 1..Len(chain) /\ n \in Nat /\ n > Len(chain)
  BY <1>1 DEF ChainInv
<1>3. PICK b \in Blocks :
          /\ b.tx = tx /\ b.ok = Execution(tx).ok
          /\ b.escrows = Execution(tx).escrows /\ b.logs = Execution(tx).logs
          /\ chain' \in Seq(Blocks) /\ Len(chain') = n
          /\ DOMAIN chain' = DOMAIN chain \cup {n}
          /\ \A i \in DOMAIN chain : chain'[i] = chain[i] /\ i <= Len(chain)
          /\ chain'[n] = b
  BY <1>1, MineBlock
<1>4. tx.calls \in Seq(Call)
  BY EvmVerifierAssumption
<1>5. /\ AllTold(b.logs, b.escrows)
      /\ \A i \in DOMAIN chain : AllTold(chain[i].logs, b.escrows)
  BY <1>3, <1>4, ExecutionUnderWay DEF UnderWay
<1>6. Len(chain') <= MaxBlocks
  <2>1. Len(chain) < MaxBlocks /\ MaxBlocks \in Nat
    BY EvmVerifierAssumption DEF Mine
  <2>2. QED
    BY <1>1, <1>2, <1>3, <2>1
<1>7. ASSUME NEW i \in DOMAIN chain', NEW j \in DOMAIN chain', i <= j
      PROVE  AllTold(chain'[i].logs, chain'[j].escrows)
  <2>1. CASE j = n /\ i = n
    BY <1>3, <1>5, <2>1
  <2>2. CASE j = n /\ i \in DOMAIN chain
    BY <1>3, <1>5, <2>2
  <2>3. CASE j \in DOMAIN chain
    <3>1. i \in DOMAIN chain
      BY <1>2, <1>3, <1>7, <2>3
    <3>2. QED
      BY <1>3, <1>7, <2>3, <3>1 DEF ChainInv
  <2>4. QED
    BY <1>3, <2>1, <2>2, <2>3
<1>8. ASSUME NEW i \in DOMAIN chain', NEW j \in DOMAIN chain', chain'[i].tx = chain'[j].tx
      PROVE  i = j
  <2>1. \A k \in DOMAIN chain : chain[k].tx # tx
    BY DEF Mine
  <2>2. CASE i \in DOMAIN chain /\ j \in DOMAIN chain
    BY <1>3, <1>8, <2>2 DEF ChainInv
  <2>3. QED
    BY <1>3, <1>8, <2>1, <2>2
<1>9. ASSUME NEW i \in DOMAIN chain'
      PROVE  RanAlone(i)'
  <2>1. CASE i \in DOMAIN chain
    <3>1. \A j \in 1..i : j \in DOMAIN chain
      BY <1>2, <2>1
    <3>2. QED
      BY <1>3, <2>1, <3>1, RanAloneStays DEF ChainInv
  <2>2. CASE i = n
    <3>1. EscrowsAt(n - 1)' = EscrowsAt(Len(chain)) /\ n - 1 = Len(chain)
      <4>1. n - 1 = Len(chain)
        BY <1>1, <1>2
      <4>2. Len(chain) # 0 => Len(chain) \in DOMAIN chain
        BY <1>2
      <4>3. QED
        BY <1>3, <4>1, <4>2 DEF EscrowsAt
    <3> DEFINE c == tx.calls[1]
    <3>2. ASSUME b.ok, Len(tx.calls) = 1
          PROVE  /\ b.logs = LogsOf(c)
                 /\ Runs(EscrowsAt(Len(chain))[<<c.at, c.id>>], c, n)
      BY <1>1, <1>3, <1>4, <3>2, ExecutionAlone
    <3>3. QED
      BY <1>3, <2>2, <3>1, <3>2 DEF RanAlone
  <2>3. QED
    BY <1>3, <2>1, <2>2
<1>10. QED
  BY <1>3, <1>6, <1>7, <1>8, <1>9 DEF ChainInv

LEMMA ReorganiseChain ==
    ASSUME ChainInv, Reorganise
    PROVE  ChainInv'
<1>1. chain \in Seq(Blocks) /\ Len(chain) \in Nat /\ DOMAIN chain = 1..Len(chain)
  BY DEF ChainInv
<1>2. PICK k \in 0..(Len(chain) - 1) : chain' = SubSeq(chain, 1, k)
  BY DEF Reorganise
<1>3. /\ chain' \in Seq(Blocks) /\ Len(chain') = k /\ DOMAIN chain' = 1..k
      /\ \A i \in 1..k : chain'[i] = chain[i]
  BY <1>1, <1>2
<1>4. DOMAIN chain' \subseteq DOMAIN chain
  BY <1>1, <1>2, <1>3
<1>5. Len(chain') <= MaxBlocks
  BY <1>1, <1>2, <1>3, EvmVerifierAssumption DEF ChainInv
<1>6. \A i \in DOMAIN chain' : RanAlone(i)'
  <2>1. ASSUME NEW i \in DOMAIN chain'
        PROVE  RanAlone(i)'
    <3>1. i \in DOMAIN chain /\ \A j \in 1..i : chain'[j] = chain[j]
      BY <1>2, <1>3, <1>4
    <3>2. QED
      BY <1>1, <3>1, RanAloneStays DEF ChainInv
  <2>2. QED
    BY <2>1
<1>7. \A i, j \in DOMAIN chain' : i <= j => AllTold(chain'[i].logs, chain'[j].escrows)
  BY <1>3, <1>4 DEF ChainInv
<1>8. \A i, j \in DOMAIN chain' : chain'[i].tx = chain'[j].tx => i = j
  BY <1>3, <1>4 DEF ChainInv
<1>9. QED
  BY <1>3, <1>5, <1>6, <1>7, <1>8 DEF ChainInv

LEMMA ChainSame ==
    ASSUME ChainInv, UNCHANGED chain
    PROVE  ChainInv'
<1>1. \A i \in DOMAIN chain : RanAlone(i)' <=> RanAlone(i)
  BY DEF RanAlone, EscrowsAt
<1>2. QED
  BY <1>1 DEF ChainInv

-----------------------------------------------------------------------------
(* The verification.  An event it keeps is in the logs of the block of the   *)
(* transaction it was asked about, and all are of one escrow.                *)

Phases ==
    /\ request \in Requests \cup {NoRequest} /\ reorgs \in 0..MaxReorgs
    /\ rpcFailed \in BOOLEAN /\ asked \in Nat
    /\ lock_event \in Event \cup {None} /\ claim_event \in Event \cup {None}
    /\ refund_event \in Event \cup {None}
    /\ step \in {"idle", "chain", "lock", "claim", "refund", "done", "failed"}
    /\ step = "idle" => request = NoRequest
    /\ step \in {"idle", "chain", "lock"} => lock_event = None
    /\ step \in {"idle", "chain", "lock", "claim"} => claim_event = None
    /\ step \in {"idle", "chain", "lock", "claim", "refund"} => refund_event = None
    /\ step \in {"claim", "refund", "done"} => lock_event # None
    /\ step = "refund" => (claim_event = None <=> request.claim_tx = None)
    /\ step = "done" => None \in {claim_event, refund_event}

\* An event e of this name is in the logs of the transaction tx.
IsIn(e, name, tx) ==
    /\ e.block \in DOMAIN chain /\ chain[e.block].tx = tx /\ e.log.name = name
    /\ \E n \in DOMAIN chain[e.block].logs : chain[e.block].logs[n] = e.log

OfTheLock(e) == /\ lock_event # None
                /\ e.log.address = lock_event.log.address /\ e.log.id = lock_event.log.id

Sourced ==
    reorgs = 0 =>
        /\ asked <= Len(chain)
        /\ lock_event # None => IsIn(lock_event, "Locked", request.lock_tx)
        /\ claim_event # None => IsIn(claim_event, "Claimed", request.claim_tx) /\ OfTheLock(claim_event)
        /\ refund_event # None => IsIn(refund_event, "Refunded", request.refund_tx)
                                  /\ OfTheLock(refund_event)

\* A request about a settlement that wallets have made.
Granted(r) ==
    /\ r.chain_id = "here" /\ r.lock_tx # None
    /\ Plain(r.lock_tx) /\ Plain(r.claim_tx) /\ Plain(r.refund_tx)
    /\ Done(r.lock_tx, "lock") /\ Done(r.claim_tx, "claim") /\ Done(r.refund_tx, "refund")
    /\ SameEscrow(r.claim_tx, r.lock_tx) /\ SameEscrow(r.refund_tx, r.lock_tx)
    /\ r.htlc \in {None, r.lock_tx.to} /\ r.id \in {None, r.lock_tx.calls[1].id}
    /\ r.lock_tx.calls[1].terms.token \notin SilentTokens

Accepting == reorgs = 0 /\ ~rpcFailed /\ Granted(request) => step # "failed"

EvmInv == ChainInv /\ Phases /\ Sourced /\ Accepting

EventNames == {"Locked", "Claimed", "Refunded"}

\* A receipt of tx with such an event, and the event in block b.
Receipted(tx, htlc, id, name) == \E a \in BlockOf(tx) : HasEvent(chain[a], htlc, id, name)
Seen(b, htlc, id, name) == TheEvent(chain[b], b, htlc, id, name)

\* A transaction is in one block, and what is found in its receipt is in its logs.
LEMMA EventFound ==
    ASSUME ChainInv, NEW tx, NEW htlc, NEW id, NEW name \in EventNames,
           Receipted(tx, htlc, id, name), NEW b \in BlockOf(tx)
    PROVE  LET e == Seen(b, htlc, id, name)
           IN  /\ e \in Event /\ e.block = b /\ IsIn(e, name, tx)
               /\ htlc # None => e.log.address = htlc
               /\ id # None => e.log.id = id
<1>0. PICK a \in BlockOf(tx) : HasEvent(chain[a], htlc, id, name)
  BY DEF Receipted
<1>1. a = b /\ b \in DOMAIN chain /\ chain[b].tx = tx
  BY DEF BlockOf, ChainInv
<1> PICK e : e = Seen(b, htlc, id, name)
  OBVIOUS
<1> DEFINE M == matching_events(chain[b].logs, htlc, id, name)
           n == CHOOSE i \in M : TRUE
<1>2. M # {}
  <2>1. Cardinality(M) = 1
    BY <1>0, <1>1 DEF HasEvent
  <2>2. QED
    BY <2>1, FS_EmptySet
<1>3. n \in M
  BY <1>2
<1>4. e = [log |-> chain[b].logs[n], block |-> b]
  BY DEF Seen, TheEvent
<1> HIDE DEF n
<1>5. /\ n \in DOMAIN chain[b].logs /\ chain[b].logs[n].name = name
      /\ htlc # None => chain[b].logs[n].address = htlc
      /\ id # None => chain[b].logs[n].id = id
  BY <1>3 DEF matching_events, EmittedBy
<1>6. b \in 1..MaxBlocks /\ chain[b].logs[n] \in Log
  <2>1. chain[b] \in Blocks /\ b \in 1..Len(chain) /\ Len(chain) \in Nat /\ Len(chain) <= MaxBlocks
    BY <1>1 DEF ChainInv
  <2>2. chain[b].logs \in Seq(Log)
    BY <2>1 DEF Blocks
  <2>3. QED
    BY <1>5, <2>1, <2>2, EvmVerifierAssumption
<1> HIDE DEF M
<1>7. e \in Event /\ e.block = b /\ e.log = chain[b].logs[n]
  BY <1>4, <1>6 DEF Event
<1>8. QED
  BY <1>1, <1>5, <1>7 DEF IsIn

LEMMA EventsAreNot ==
    /\ None \notin Event /\ None \notin Deployments /\ None \notin Ids /\ None # "here"
    /\ \A e \in Event : e.log \in Log
    /\ \A l \in Log : l.name \in EventNames => l.address # None /\ l.id # None
<1>1. \A l \in Log : l.name \in EventNames => l.address \in Deployments /\ l.id \in Ids
  BY DEF Log, EventNames
<1>2. QED
  BY <1>1, EvmVerifierAssumption DEF Event

LEMMA EvmInitInv == EvmInit => EvmInv
<1> SUFFICES ASSUME EvmInit
             PROVE  EvmInv
  OBVIOUS
<1>1. Phases
  <2>1. /\ reorgs = 0 /\ request = NoRequest /\ step = "idle" /\ rpcFailed = FALSE /\ asked = 0
        /\ lock_event = None /\ claim_event = None /\ refund_event = None
    BY DEF EvmInit
  <2>2. 0 \in 0..MaxReorgs
    BY EvmVerifierAssumption
  <2>3. QED
    BY <2>1, <2>2 DEF Phases
<1>2. Len(chain) = 0
  BY DEF EvmInit
<1>3. Sourced /\ Accepting
  BY <1>2 DEF EvmInit, Sourced, Accepting
<1>4. QED
  BY <1>1, <1>3, ChainInitInv DEF EvmInv

\* A chain that has grown by blocks.
Grown == /\ DOMAIN chain \subseteq DOMAIN chain' /\ Len(chain) <= Len(chain')
         /\ \A i \in DOMAIN chain : chain'[i] = chain[i]

LEMMA MineGrows ==
    ASSUME ChainInv, NEW tx \in Txs, Mine(tx)
    PROVE  Grown
<1>1. Len(chain) \in Nat
  BY DEF ChainInv
<1>2. /\ Len(chain') = Len(chain) + 1
      /\ DOMAIN chain' = DOMAIN chain \cup {Len(chain) + 1}
      /\ \A i \in DOMAIN chain : chain'[i] = chain[i]
  BY MineBlock
<1>3. QED
  BY <1>1, <1>2 DEF Grown

\* Blocks that come after the verification began settle nothing it was begun about.
LEMMA DoneBefore ==
    ASSUME ChainInv, ChainInv', Grown, NEW tx, NEW what, asked \in Nat, asked <= Len(chain),
           UNCHANGED asked, Done(tx, what)'
    PROVE  Done(tx, what)
<1>1. SUFFICES ASSUME tx # None
               PROVE  Done(tx, what)
  BY DEF Done
<1>2. PICK b \in DOMAIN chain' : /\ chain'[b].tx = tx /\ b <= asked /\ chain'[b].ok
                                 /\ chain'[b].tx.calls[1].do = what
  BY <1>1 DEF Done, BlockOf
<1>3. b \in DOMAIN chain
  <2>1. chain' \in Seq(Blocks) /\ chain \in Seq(Blocks)
    BY DEF ChainInv
  <2>2. b \in Nat /\ b >= 1 /\ Len(chain) \in Nat /\ DOMAIN chain = 1..Len(chain)
    BY <1>2, <2>1
  <2>3. QED
    BY <1>2, <2>2
<1>4. QED
  BY <1>2, <1>3 DEF Grown, Done, BlockOf

LEMMA GrantedBefore ==
    ASSUME ChainInv, ChainInv', Grown, NEW r, asked \in Nat, asked <= Len(chain), UNCHANGED asked, Granted(r)'
    PROVE  Granted(r)
<1>1. \A tx, what : Done(tx, what)' => Done(tx, what)
  BY DoneBefore
<1>2. QED
  BY <1>1 DEF Granted, Plain, SameEscrow

LEMMA MineInv ==
    ASSUME EvmInv, NEW tx \in Txs, Mine(tx)
    PROVE  EvmInv'
<1>1. ChainInv /\ Phases /\ Sourced /\ Accepting
  BY DEF EvmInv
<1>2. UNCHANGED <<reorgs, request, step, lock_event, claim_event, refund_event, rpcFailed, asked>>
  BY DEF Mine, rpcVars
<1>3. ChainInv' /\ Grown
  BY <1>1, MineChain, MineGrows
<1>4. Phases'
  BY <1>1, <1>2 DEF Phases
<1>5. Sourced'
  <2>1. SUFFICES ASSUME reorgs = 0
                 PROVE  Sourced'
    BY <1>2 DEF Sourced
  <2>2. \A e, name, t : IsIn(e, name, t) => IsIn(e, name, t)'
    BY <1>3 DEF IsIn, Grown
  <2>3. \A e : OfTheLock(e) => OfTheLock(e)'
    BY <1>2 DEF OfTheLock
  <2>4. asked <= Len(chain')
    <3>1. asked \in Nat /\ Len(chain) \in Nat /\ Len(chain') \in Nat
      BY <1>1, <1>3 DEF Phases, ChainInv
    <3>2. QED
      BY <1>1, <1>3, <2>1, <3>1 DEF Sourced, Grown
  <2>5. PICK e, f, g, r : e = lock_event /\ f = claim_event /\ g = refund_event /\ r = request
    OBVIOUS
  <2>6. /\ e # None => IsIn(e, "Locked", r.lock_tx)'
        /\ f # None => IsIn(f, "Claimed", r.claim_tx)' /\ OfTheLock(f)'
        /\ g # None => IsIn(g, "Refunded", r.refund_tx)' /\ OfTheLock(g)'
    BY <1>1, <2>1, <2>2, <2>3, <2>5 DEF Sourced
  <2>7. QED
    BY <1>2, <2>4, <2>5, <2>6 DEF Sourced, IsIn, OfTheLock
<1>6. Accepting'
  <2>1. SUFFICES ASSUME reorgs = 0, ~rpcFailed, Granted(request)'
                 PROVE  step # "failed"
    BY <1>2 DEF Accepting
  <2>2. PICK r : r = request
    OBVIOUS
  <2>3. Granted(r)'
    BY <1>2, <2>1, <2>2
  <2>4. Granted(r)
    BY <1>1, <1>2, <1>3, <2>1, <2>3, GrantedBefore DEF Phases, Sourced
  <2>5. QED
    BY <1>1, <2>1, <2>2, <2>4 DEF Accepting
<1>7. QED
  BY <1>3, <1>4, <1>5, <1>6 DEF EvmInv

LEMMA ReorganiseInv ==
    ASSUME EvmInv, Reorganise
    PROVE  EvmInv'
<1>1. ChainInv /\ Phases
  BY DEF EvmInv
<1>2. /\ UNCHANGED <<request, step, lock_event, claim_event, refund_event, rpcFailed, asked>>
      /\ reorgs' = reorgs + 1 /\ reorgs < MaxReorgs
  BY DEF Reorganise, rpcVars
<1>3. ChainInv'
  BY <1>1, ReorganiseChain
<1>4. reorgs \in Nat /\ reorgs' \in 0..MaxReorgs /\ reorgs' # 0
  BY <1>1, <1>2, EvmVerifierAssumption DEF Phases
<1>5. Phases'
  BY <1>1, <1>2, <1>4 DEF Phases
<1>6. Sourced' /\ Accepting'
  BY <1>4 DEF Sourced, Accepting
<1>7. QED
  BY <1>3, <1>5, <1>6 DEF EvmInv

\* The block of a transaction that a wallet has made before the verification began.
LEMMA GrantedBlock ==
    ASSUME ChainInv, NEW tx, tx # None, Plain(tx), NEW what, Done(tx, what),
           NEW c, c = tx.calls[1]
    PROVE  \E b \in BlockOf(tx) :
               /\ chain[b].ok /\ chain[b].logs = LogsOf(c) /\ c \in Call /\ c.do = what
               /\ tx.to = c.at
               /\ Runs(EscrowsAt(b - 1)[<<c.at, c.id>>], c, b)
<1>1. PICK b \in BlockOf(tx) : b <= asked /\ chain[b].ok /\ chain[b].tx.calls[1].do = what
  BY DEF Done
<1>2. b \in DOMAIN chain /\ chain[b].tx = tx
  BY DEF BlockOf
<1>3. Len(tx.calls) = 1 /\ tx.to = c.at
  BY DEF Plain
<1>4. chain[b] \in Blocks /\ RanAlone(b)
  BY <1>2 DEF ChainInv
<1>5. tx.calls \in Seq(Call)
  BY <1>2, <1>4, EvmVerifierAssumption DEF Blocks
<1>6. c \in Call
  BY <1>3, <1>5
<1>7. QED
  BY <1>1, <1>2, <1>3, <1>4, <1>6 DEF RanAlone

EventName(what) == CASE what = "lock" -> "Locked" [] what = "claim" -> "Claimed"
                     [] what = "refund" -> "Refunded"

\* The receipt of a plain call that succeeded is accepted.
LEMMA PlainAccepted ==
    ASSUME ChainInv, NEW b \in DOMAIN chain, NEW c \in Call,
           chain[b].ok, chain[b].logs = LogsOf(c), chain[b].tx.to = c.at,
           c.do = "lock" => c.terms.token \notin SilentTokens,
           NEW htlc \in {None, c.at}, NEW id \in {None, c.id}
    PROVE  HasEvent(chain[b], htlc, id, EventName(c.do))
<1> DEFINE name == EventName(c.do)
           last == Len(LogsOf(c))
           event == LogsOf(c)[last]
<1>1. /\ LogsOf(c) \in Seq(Log) /\ last > 0
      /\ event.address = c.at /\ event.id = c.id
      /\ c.do = "lock" => event.name = "Locked" /\ event.terms = c.terms
      /\ c.do = "claim" => event.name = "Claimed"
      /\ c.do = "refund" => event.name = "Refunded"
      /\ \A n \in DOMAIN LogsOf(c) : n # last => LogsOf(c)[n].name = "Transfer" /\ n = 1
  BY LogsOfCall
<1>2. c.do \in {"lock", "claim", "refund"}
  BY CallKinds
<1>3. event.name = name /\ name \in EventNames /\ name # "Transfer"
  BY <1>1, <1>2 DEF EventName, EventNames
<1>4. last \in DOMAIN LogsOf(c)
  BY <1>1
<1>5. matching_events(LogsOf(c), htlc, id, name) = {last}
  <2>1. \A n \in DOMAIN LogsOf(c) : LogsOf(c)[n].name = name => n = last
    BY <1>1, <1>3
  <2>2. EmittedBy(event, htlc) /\ (id # None => event.id = id)
    BY <1>1, <1>3 DEF EmittedBy, EventNames
  <2> HIDE DEF name, last
  <2>3. QED
    BY <1>3, <1>4, <2>1, <2>2 DEF matching_events
<1>6. Cardinality({last}) = 1
  BY FS_Singleton
<1>7. ~Unfunded(LogsOf(c), htlc)
  <2> SUFFICES ASSUME NEW n \in DOMAIN LogsOf(c), LogsOf(c)[n].name = "Locked",
                      LogsOf(c)[n].terms.token # Native
               PROVE  erc20_transfer_in(LogsOf(c), LogsOf(c)[n])
    BY DEF Unfunded
  <2>1. n = last /\ c.do = "lock"
    BY <1>1, <1>2
  <2>2. c.terms.token \notin SilentTokens \cup {Native}
    BY <1>1, <2>1
  <2>3. /\ Len(LogsOf(c)) = 2
        /\ LogsOf(c)[1] = [name |-> "Transfer", address |-> c.terms.token,
                           from |-> c.terms.payer, to |-> c.at, amount |-> c.terms.amount]
    BY <2>1, <2>2, LogsOfCall
  <2>4. 1 \in DOMAIN LogsOf(c)
    BY <1>1, <2>3
  <2>5. event.terms = c.terms /\ event.address = c.at
    BY <1>1, <2>1
  <2> HIDE DEF last
  <2>6. QED
    BY <2>1, <2>3, <2>4, <2>5 DEF erc20_transfer_in
<1>8. htlc # None => chain[b].tx.to = htlc
  OBVIOUS
<1>9. QED
  BY <1>5, <1>6, <1>7, <1>8 DEF HasEvent

\* The event of a plain call is the one that says what was called.
LEMMA PlainEvent ==
    ASSUME NEW c \in Call, NEW n \in DOMAIN LogsOf(c), LogsOf(c)[n].name \in EventNames
    PROVE  LogsOf(c)[n].address = c.at /\ LogsOf(c)[n].id = c.id
<1>1. n = Len(LogsOf(c))
  BY LogsOfCall DEF EventNames
<1>2. QED
  BY <1>1, LogsOfCall

\* An escrow is locked before it is settled, and settled once.
LEMMA SettledAfter ==
    ASSUME ChainInv, NEW a \in DOMAIN chain, NEW b \in DOMAIN chain,
           NEW c \in Call, NEW d \in Call, c.at = d.at, c.id = d.id,
           chain[a].logs = LogsOf(c), Runs(EscrowsAt(a - 1)[<<c.at, c.id>>], c, a),
           d.do \in {"claim", "refund"}, chain[b].logs = LogsOf(d),
           c.do # d.do, b <= a
    PROVE  FALSE
<1> DEFINE p == <<c.at, c.id>>
           e == EscrowsAt(a - 1)[p]
           last == Len(LogsOf(d))
<1>1. Len(chain) \in Nat /\ DOMAIN chain = 1..Len(chain)
  BY DEF ChainInv
<1>2. LogsOf(d)[last].address = d.at /\ LogsOf(d)[last].id = d.id /\ last \in DOMAIN LogsOf(d)
  <2>1. LogsOf(d) \in Seq(Log) /\ last > 0
    BY LogsOfCall
  <2>2. last \in DOMAIN LogsOf(d)
    BY <2>1
  <2>3. LogsOf(d)[last].address = d.at /\ LogsOf(d)[last].id = d.id
    BY LogsOfCall
  <2>4. QED
    BY <2>2, <2>3
<1>3. LogsOf(d)[last].name \in {"Claimed", "Refunded"}
  BY LogsOfCall
<1> HIDE DEF last
<1>4. CASE b = a
  <2>1. LogsOf(c) = LogsOf(d)
    BY <1>4
  <2>2. c.do \in {"lock", "claim", "refund"} /\ d.do \in {"lock", "claim", "refund"}
    BY CallKinds
  <2>3. LogsOf(c)[Len(LogsOf(c))].name = LogsOf(d)[Len(LogsOf(d))].name
    BY <2>1
  <2>4. /\ c.do = "lock" => LogsOf(c)[Len(LogsOf(c))].name = "Locked"
        /\ c.do = "claim" => LogsOf(c)[Len(LogsOf(c))].name = "Claimed"
        /\ c.do = "refund" => LogsOf(c)[Len(LogsOf(c))].name = "Refunded"
        /\ d.do = "claim" => LogsOf(d)[Len(LogsOf(d))].name = "Claimed"
        /\ d.do = "refund" => LogsOf(d)[Len(LogsOf(d))].name = "Refunded"
    BY LogsOfCall
  <2>5. QED
    BY <2>2, <2>3, <2>4
<1>5. CASE b # a
  <2>1. a - 1 \in DOMAIN chain /\ b <= a - 1 /\ a - 1 # 0
    BY <1>1, <1>5
  <2>2. Told(LogsOf(d)[last], chain[a - 1].escrows)
    BY <1>2, <2>1 DEF ChainInv, AllTold
  <2>3. EscrowsAt(a - 1) = chain[a - 1].escrows
    BY <2>1 DEF EscrowsAt
  <2>4. e.status \in {"Claimed", "Refunded"}
    BY <1>2, <1>3, <2>2, <2>3 DEF Told
  <2>5. e.status \in {"None", "Locked"}
    <3>1. c.do \in {"lock", "claim", "refund"}
      BY CallKinds
    <3> HIDE DEF e
    <3>2. Runs(e, c, a)
      BY DEF e
    <3>3. QED
      BY <3>1, <3>2 DEF Runs
  <2> HIDE DEF e
  <2>6. QED
    BY <2>4, <2>5
<1>6. QED
  BY <1>4, <1>5

LEMMA BeginInv ==
    ASSUME EvmInv, NEW r \in Requests, Begin(r)
    PROVE  EvmInv'
<1>1. ChainInv /\ Phases
  BY DEF EvmInv
<1>2. /\ step = "idle" /\ request' = r /\ asked' = Len(chain)
      /\ step' = IF r.lock_tx = None \/ r.chain_id = None THEN "failed" ELSE "chain"
      /\ UNCHANGED <<chain, reorgs, lock_event, claim_event, refund_event, rpcFailed>>
  BY DEF Begin, chainVars
<1>3. ChainInv'
  BY <1>1, <1>2, ChainSame
<1>4. lock_event = None /\ claim_event = None /\ refund_event = None
  BY <1>1, <1>2 DEF Phases
<1>5. Len(chain) \in Nat
  BY <1>1 DEF ChainInv
<1>6. Phases'
  BY <1>1, <1>2, <1>4, <1>5 DEF Phases
<1>7. Sourced'
  BY <1>2, <1>4, <1>5 DEF Sourced
<1>8. Accepting'
  <2>1. SUFFICES ASSUME Granted(request)'
                 PROVE  step' # "failed"
    BY DEF Accepting
  <2>2. r.chain_id = "here" /\ r.lock_tx # None
    BY <1>2, <2>1 DEF Granted
  <2>3. QED
    BY <1>2, <2>2, EventsAreNot
<1>9. QED
  BY <1>3, <1>6, <1>7, <1>8 DEF EvmInv

\* A step of the verification that keeps what it was asked.
RpcStep == UNCHANGED <<chain, reorgs, request, asked>>

\* Such a step leaves what events say of the chain, and the settlement, as they are.
LEMMA RpcStepKeeps ==
    ASSUME RpcStep
    PROVE  /\ \A e, name, tx : IsIn(e, name, tx)' <=> IsIn(e, name, tx)
           /\ Granted(request)' <=> Granted(request)
<1>1. \A e, name, tx : IsIn(e, name, tx)' <=> IsIn(e, name, tx)
  BY DEF RpcStep, IsIn
<1>2. \A tx, what : Done(tx, what)' <=> Done(tx, what)
  BY DEF RpcStep, Done, BlockOf
<1>3. PICK r : r = request
  OBVIOUS
<1>4. Granted(r)' <=> Granted(r)
  BY <1>2 DEF Granted, Plain, SameEscrow
<1>5. request' = r
  BY <1>3 DEF RpcStep
<1>6. QED
  BY <1>1, <1>3, <1>4, <1>5 DEF Granted, Plain, SameEscrow, Done

LEMMA RpcFailsInv ==
    ASSUME EvmInv, RpcFails
    PROVE  EvmInv'
<1>1. ChainInv /\ Phases /\ Sourced
  BY DEF EvmInv
<1>2. /\ step \in {"chain", "lock", "claim", "refund"} /\ step' = "failed" /\ rpcFailed' = TRUE
      /\ UNCHANGED <<chain, reorgs, request, asked, lock_event, claim_event, refund_event>>
  BY DEF RpcFails, Fail, chainVars
<1>3. ChainInv'
  BY <1>1, <1>2, ChainSame
<1>4. Phases'
  BY <1>1, <1>2 DEF Phases
<1>5. Sourced'
  BY <1>1, <1>2 DEF Sourced, IsIn, OfTheLock
<1>6. Accepting'
  BY <1>2 DEF Accepting
<1>7. QED
  BY <1>3, <1>4, <1>5, <1>6 DEF EvmInv

LEMMA FetchChainIdInv ==
    ASSUME EvmInv, FetchChainId
    PROVE  EvmInv'
<1>1. ChainInv /\ Phases /\ Sourced /\ Accepting
  BY DEF EvmInv
<1>2. /\ step = "chain" /\ step' = IF request.chain_id = "here" THEN "lock" ELSE "failed"
      /\ UNCHANGED <<chain, reorgs, request, asked, rpcFailed, lock_event, claim_event, refund_event>>
  BY DEF FetchChainId, Fail, chainVars
<1>3. ChainInv'
  BY <1>1, <1>2, ChainSame
<1>4. Phases'
  BY <1>1, <1>2 DEF Phases
<1>5. Sourced'
  BY <1>1, <1>2 DEF Sourced, IsIn, OfTheLock
<1>6. Accepting'
  <2>1. Granted(request)' <=> Granted(request)
    BY <1>2, RpcStepKeeps DEF RpcStep
  <2>2. QED
    BY <1>2, <2>1 DEF Accepting, Granted
<1>7. QED
  BY <1>3, <1>4, <1>5, <1>6 DEF EvmInv

LEMMA FetchLockInv ==
    ASSUME EvmInv, FetchLock
    PROVE  EvmInv'
<1> DEFINE found == \E b \in BlockOf(request.lock_tx) :
                        HasEvent(chain[b], request.htlc, request.id, "Locked")
<1>1. ChainInv /\ Phases /\ Sourced /\ Accepting
  BY DEF EvmInv
<1>2. /\ step = "lock" /\ claim_event = None /\ refund_event = None /\ lock_event = None
      /\ UNCHANGED <<chain, reorgs, request, asked, rpcFailed, claim_event, refund_event>>
  <2>1. UNCHANGED <<chain, reorgs, request, asked, rpcFailed, claim_event, refund_event>>
    BY DEF FetchLock, Fail, chainVars
  <2>2. QED
    BY <1>1, <2>1 DEF FetchLock, Phases
<1>3. ChainInv'
  BY <1>1, <1>2, ChainSame
<1>4. CASE found
  <2>1. PICK b \in BlockOf(request.lock_tx) :
            lock_event' = TheEvent(chain[b], b, request.htlc, request.id, "Locked")
    BY <1>4 DEF FetchLock
  <2>2. step' = "claim"
    BY <1>4 DEF FetchLock
  <2>3. PICK e, r : e = lock_event' /\ r = request
    OBVIOUS
  <2>4. e \in Event /\ IsIn(e, "Locked", r.lock_tx)
    <3>1. "Locked" \in EventNames
      BY DEF EventNames
    <3>2. PICK tx, htlc, id : tx = request.lock_tx /\ htlc = request.htlc /\ id = request.id
      OBVIOUS
    <3>3. Receipted(tx, htlc, id, "Locked")
      BY <1>4, <3>2 DEF Receipted
    <3>4. b \in BlockOf(tx) /\ e = Seen(b, htlc, id, "Locked")
      BY <2>1, <2>3, <3>2 DEF Seen
    <3>5. e \in Event /\ IsIn(e, "Locked", tx)
      BY <1>1, <3>1, <3>3, <3>4, EventFound
    <3>6. QED
      BY <2>3, <3>2, <3>5
  <2>5. e # None
    BY <2>4, EventsAreNot
  <2>6. Phases'
    BY <1>1, <1>2, <2>2, <2>3, <2>4, <2>5 DEF Phases
  <2>7. IsIn(e, "Locked", r.lock_tx)'
    BY <1>2, <2>4, RpcStepKeeps DEF RpcStep
  <2>8. Sourced'
    BY <1>1, <1>2, <2>3, <2>7 DEF Sourced, IsIn
  <2>9. Accepting'
    BY <2>2 DEF Accepting
  <2>10. QED
    BY <1>3, <2>6, <2>8, <2>9 DEF EvmInv
<1>5. CASE ~found
  <2>1. step' = "failed" /\ lock_event' = None
    BY <1>2, <1>5 DEF FetchLock, Fail
  <2>2. Phases'
    BY <1>1, <1>2, <2>1 DEF Phases
  <2>3. Sourced'
    BY <1>1, <1>2, <2>1 DEF Sourced
  <2>4. ~Granted(request)
    <3>1. SUFFICES ASSUME Granted(request)
                   PROVE  FALSE
      OBVIOUS
    <3>2. PICK tx, c, htlc, id : /\ tx = request.lock_tx /\ c = tx.calls[1]
                                 /\ htlc = request.htlc /\ id = request.id
      OBVIOUS
    <3>3. /\ tx # None /\ Plain(tx) /\ Done(tx, "lock") /\ htlc \in {None, tx.to}
          /\ id \in {None, c.id} /\ c.terms.token \notin SilentTokens /\ c = tx.calls[1]
      BY <3>1, <3>2 DEF Granted
    <3>4. PICK b \in BlockOf(tx) :
              /\ chain[b].ok /\ chain[b].logs = LogsOf(c) /\ c \in Call /\ c.do = "lock"
              /\ tx.to = c.at
      <4> HIDE DEF found
      <4> QED
        BY <1>1, <3>3, GrantedBlock
    <3>5. b \in DOMAIN chain /\ chain[b].tx.to = c.at
      BY <3>4 DEF BlockOf
    <3>6. HasEvent(chain[b], htlc, id, EventName(c.do))
      BY <1>1, <3>3, <3>4, <3>5, PlainAccepted
    <3>7. EventName(c.do) = "Locked"
      BY <3>4 DEF EventName
    <3>8. QED
      BY <1>5, <3>2, <3>4, <3>6, <3>7
  <2>5. Accepting'
    <3>1. ~Granted(request)'
      BY <1>2, <2>4, RpcStepKeeps DEF RpcStep
    <3>2. QED
      BY <3>1 DEF Accepting
  <2>6. QED
    BY <1>3, <2>2, <2>3, <2>5 DEF EvmInv
<1>6. QED
  BY <1>4, <1>5

\* Where the lock of a granted settlement is found.
LEMMA GrantedLock ==
    ASSUME ChainInv, Sourced, reorgs = 0, lock_event # None, Granted(request),
           NEW c, c = request.lock_tx.calls[1]
    PROVE  /\ lock_event.block \in DOMAIN chain /\ c \in Call /\ c.do = "lock"
           /\ lock_event.log.address = c.at /\ lock_event.log.id = c.id
           /\ chain[lock_event.block].logs = LogsOf(c)
           /\ Runs(EscrowsAt(lock_event.block - 1)[<<c.at, c.id>>], c, lock_event.block)
<1>1. PICK e, tx : e = lock_event /\ tx = request.lock_tx
  OBVIOUS
<1>2. IsIn(e, "Locked", tx)
  BY <1>1 DEF Sourced
<1>3. tx # None /\ Plain(tx) /\ Done(tx, "lock") /\ c = tx.calls[1]
  BY <1>1 DEF Granted
<1>4. PICK b \in BlockOf(tx) :
          /\ chain[b].ok /\ chain[b].logs = LogsOf(c) /\ c \in Call /\ c.do = "lock"
          /\ Runs(EscrowsAt(b - 1)[<<c.at, c.id>>], c, b)
  BY <1>3, GrantedBlock
<1>5. b = e.block /\ b \in DOMAIN chain
  BY <1>2, <1>4 DEF IsIn, BlockOf, ChainInv
<1>6. PICK n \in DOMAIN LogsOf(c) : LogsOf(c)[n] = e.log /\ e.log.name = "Locked"
  BY <1>2, <1>4, <1>5 DEF IsIn
<1>7. e.log.address = c.at /\ e.log.id = c.id
  BY <1>4, <1>6, PlainEvent DEF EventNames
<1>8. QED
  BY <1>1, <1>4, <1>5, <1>7

\* The receipt that settles a granted settlement is accepted, and is of a later block
\* than the lock.
LEMMA GrantedSettling ==
    ASSUME ChainInv, Sourced, reorgs = 0, lock_event # None, Granted(request),
           NEW tx, tx # None, NEW what \in {"claim", "refund"}, Plain(tx), Done(tx, what),
           SameEscrow(tx, request.lock_tx)
    PROVE  \E b \in BlockOf(tx) :
               /\ HasEvent(chain[b], htlc_addr, contract_id, EventName(what))
               /\ ~(b <= lock_event.block)
<1>1. PICK c, d : c = request.lock_tx.calls[1] /\ d = tx.calls[1]
  OBVIOUS
<1>2. /\ lock_event.block \in DOMAIN chain /\ c \in Call /\ c.do = "lock"
      /\ lock_event.log.address = c.at /\ lock_event.log.id = c.id
      /\ chain[lock_event.block].logs = LogsOf(c)
      /\ Runs(EscrowsAt(lock_event.block - 1)[<<c.at, c.id>>], c, lock_event.block)
  BY <1>1, GrantedLock
<1>3. PICK b \in BlockOf(tx) :
          /\ chain[b].ok /\ chain[b].logs = LogsOf(d) /\ d \in Call /\ d.do = what
          /\ tx.to = d.at
  <2>1. \E b \in BlockOf(tx) :
          /\ chain[b].ok /\ chain[b].logs = LogsOf(d) /\ d \in Call /\ d.do = what
          /\ tx.to = d.at
          /\ Runs(EscrowsAt(b - 1)[<<d.at, d.id>>], d, b)
    BY <1>1, GrantedBlock
  <2>2. QED
    BY <2>1
<1>4. d.at = c.at /\ d.id = c.id
  BY <1>1 DEF SameEscrow
<1>5. b \in DOMAIN chain /\ chain[b].tx.to = d.at
  BY <1>3 DEF BlockOf
<1>6. htlc_addr = d.at /\ contract_id = d.id
  BY <1>2, <1>4 DEF htlc_addr, contract_id
<1>7. HasEvent(chain[b], htlc_addr, contract_id, EventName(what))
  <2>1. d.do # "lock"
    BY <1>3
  <2>2. HasEvent(chain[b], d.at, d.id, EventName(d.do))
    BY <1>3, <1>5, <2>1, PlainAccepted
  <2>3. QED
    BY <1>3, <1>6, <2>2
<1>8. PICK a : a = lock_event.block
  OBVIOUS
<1>9. ~(b <= a)
  <2>1. /\ a \in DOMAIN chain /\ chain[a].logs = LogsOf(c)
        /\ Runs(EscrowsAt(a - 1)[<<c.at, c.id>>], c, a)
    BY <1>2, <1>8
  <2>2. c.do # d.do /\ d.do \in {"claim", "refund"}
    BY <1>2, <1>3
  <2>3. QED
    BY <1>2, <1>3, <1>4, <1>5, <2>1, <2>2, SettledAfter
<1>10. QED
  BY <1>7, <1>8, <1>9

\* Wallets do not settle an escrow twice.
LEMMA GrantedOnce ==
    ASSUME ChainInv, Granted(request), request.claim_tx # None, request.refund_tx # None
    PROVE  FALSE
<1>1. PICK t, u, c, d : /\ t = request.claim_tx /\ u = request.refund_tx
                        /\ c = t.calls[1] /\ d = u.calls[1]
  OBVIOUS
<1>2. /\ t # None /\ u # None /\ Plain(t) /\ Plain(u) /\ Done(t, "claim") /\ Done(u, "refund")
      /\ c.at = d.at /\ c.id = d.id /\ c = t.calls[1] /\ d = u.calls[1]
  BY <1>1 DEF Granted, SameEscrow
<1>3. PICK a \in BlockOf(t) :
          /\ chain[a].logs = LogsOf(c) /\ c \in Call /\ c.do = "claim"
          /\ Runs(EscrowsAt(a - 1)[<<c.at, c.id>>], c, a)
  <2>1. \E a \in BlockOf(t) :
            /\ chain[a].ok /\ chain[a].logs = LogsOf(c) /\ c \in Call /\ c.do = "claim"
            /\ t.to = c.at /\ Runs(EscrowsAt(a - 1)[<<c.at, c.id>>], c, a)
    BY <1>2, GrantedBlock
  <2>2. QED
    BY <2>1
<1>4. PICK b \in BlockOf(u) :
          /\ chain[b].logs = LogsOf(d) /\ d \in Call /\ d.do = "refund"
          /\ Runs(EscrowsAt(b - 1)[<<d.at, d.id>>], d, b)
  <2>1. \E b \in BlockOf(u) :
            /\ chain[b].ok /\ chain[b].logs = LogsOf(d) /\ d \in Call /\ d.do = "refund"
            /\ u.to = d.at /\ Runs(EscrowsAt(b - 1)[<<d.at, d.id>>], d, b)
    BY <1>2, GrantedBlock
  <2>2. QED
    BY <2>1
<1>5. a \in DOMAIN chain /\ b \in DOMAIN chain /\ a \in Nat /\ b \in Nat
  BY <1>3, <1>4 DEF BlockOf, ChainInv
<1>6. c.do \in {"claim", "refund"} /\ d.do \in {"claim", "refund"} /\ c.do # d.do
  BY <1>3, <1>4
<1>7. ~(b <= a)
  BY <1>2, <1>3, <1>4, <1>5, <1>6, SettledAfter
<1>8. ~(a <= b)
  BY <1>2, <1>3, <1>4, <1>5, <1>6, SettledAfter
<1>9. QED
  BY <1>5, <1>7, <1>8

\* An event found at the contract of the lock, under its id, is of the lock's escrow.
LEMMA SettlingFound ==
    ASSUME ChainInv, Phases, lock_event # None, NEW tx, NEW name \in EventNames,
           Receipted(tx, htlc_addr, contract_id, name),
           reorgs = 0 => IsIn(lock_event, "Locked", request.lock_tx),
           NEW b \in BlockOf(tx), NEW e, e = Seen(b, htlc_addr, contract_id, name)
    PROVE  /\ e \in Event /\ e.block = b /\ IsIn(e, name, tx)
           /\ reorgs = 0 => OfTheLock(e)
<1>1. PICK htlc, id : htlc = htlc_addr /\ id = contract_id
  OBVIOUS
<1>2. Receipted(tx, htlc, id, name) /\ e = Seen(b, htlc, id, name)
  BY <1>1
<1>4. /\ e \in Event /\ e.block = b /\ IsIn(e, name, tx)
      /\ htlc # None => e.log.address = htlc
      /\ id # None => e.log.id = id
  BY <1>2, EventFound
<1>5. htlc = lock_event.log.address /\ id = lock_event.log.id
  BY <1>1 DEF htlc_addr, contract_id
<1>6. reorgs = 0 => htlc # None /\ id # None
  <2>1. lock_event \in Event
    BY DEF Phases
  <2>2. lock_event.log \in Log
    BY <2>1, EventsAreNot
  <2>3. reorgs = 0 => lock_event.log.name \in EventNames
    BY DEF IsIn, EventNames
  <2>4. QED
    BY <1>5, <2>2, <2>3, EventsAreNot
<1>7. QED
  BY <1>4, <1>5, <1>6 DEF OfTheLock

LEMMA FetchClaimInv ==
    ASSUME EvmInv, FetchClaim
    PROVE  EvmInv'
<1>1. ChainInv /\ Phases /\ Sourced /\ Accepting
  BY DEF EvmInv
<1>2. /\ step = "claim" /\ lock_event # None /\ claim_event = None /\ refund_event = None
      /\ UNCHANGED <<chain, reorgs, request, asked, rpcFailed, lock_event, refund_event>>
  <2>1. UNCHANGED <<chain, reorgs, request, asked, rpcFailed, lock_event, refund_event>>
    BY DEF FetchClaim, Fail, chainVars
  <2>2. QED
    BY <1>1, <2>1 DEF FetchClaim, Phases
<1>3. ChainInv'
  BY <1>1, <1>2, ChainSame
<1>4. PICK tx : tx = request.claim_tx
  OBVIOUS
<1>5. CASE tx = None
  <2>1. step' = "refund" /\ claim_event' = None
    BY <1>2, <1>4, <1>5 DEF FetchClaim
  <2>2. Phases'
    BY <1>1, <1>2, <1>4, <1>5, <2>1 DEF Phases
  <2>3. Sourced'
    BY <1>1, <1>2, <2>1 DEF Sourced, IsIn
  <2>4. Accepting'
    BY <2>1 DEF Accepting
  <2>5. QED
    BY <1>3, <2>2, <2>3, <2>4 DEF EvmInv
<1>6. CASE tx # None /\ Receipted(tx, htlc_addr, contract_id, "Claimed")
  <2>1. PICK b \in BlockOf(tx) : claim_event' = Seen(b, htlc_addr, contract_id, "Claimed")
    BY <1>4, <1>6 DEF FetchClaim, Receipted, Seen
  <2>2. step' = "refund"
    BY <1>4, <1>6 DEF FetchClaim, Receipted
  <2>3. PICK e : e = claim_event'
    OBVIOUS
  <2>4. e \in Event /\ IsIn(e, "Claimed", tx) /\ (reorgs = 0 => OfTheLock(e))
    BY <1>1, <1>2, <1>6, <2>1, <2>3, SettlingFound DEF Sourced, EventNames
  <2>5. e # None
    BY <2>4, EventsAreNot
  <2>6. Phases'
    BY <1>1, <1>2, <1>4, <1>6, <2>2, <2>3, <2>4, <2>5 DEF Phases
  <2>7. IsIn(e, "Claimed", tx)' /\ (reorgs = 0 => OfTheLock(e)')
    BY <1>2, <2>4, RpcStepKeeps DEF RpcStep, OfTheLock
  <2>8. Sourced'
    BY <1>1, <1>2, <1>4, <2>3, <2>7 DEF Sourced, IsIn, OfTheLock
  <2>9. Accepting'
    BY <2>2 DEF Accepting
  <2>10. QED
    BY <1>3, <2>6, <2>8, <2>9 DEF EvmInv
<1>7. CASE tx # None /\ ~Receipted(tx, htlc_addr, contract_id, "Claimed")
  <2>1. step' = "failed" /\ claim_event' = None
    BY <1>2, <1>4, <1>7 DEF FetchClaim, Fail, Receipted
  <2>2. Phases'
    BY <1>1, <1>2, <2>1 DEF Phases
  <2>3. Sourced'
    BY <1>1, <1>2, <2>1 DEF Sourced, IsIn
  <2>4. reorgs = 0 => ~Granted(request)
    <3>1. SUFFICES ASSUME reorgs = 0, Granted(request)
                   PROVE  FALSE
      OBVIOUS
    <3>2. tx # None /\ Plain(tx) /\ Done(tx, "claim") /\ SameEscrow(tx, request.lock_tx)
      BY <1>4, <1>7, <3>1 DEF Granted
    <3>3. \E b \in BlockOf(tx) : HasEvent(chain[b], htlc_addr, contract_id, EventName("claim"))
      BY <1>1, <1>2, <3>1, <3>2, GrantedSettling
    <3>4. QED
      BY <1>7, <3>3 DEF EventName, Receipted
  <2>5. Accepting'
    <3>1. Granted(request)' <=> Granted(request)
      BY <1>2, RpcStepKeeps DEF RpcStep
    <3>2. QED
      BY <1>2, <2>4, <3>1 DEF Accepting
  <2>6. QED
    BY <1>3, <2>2, <2>3, <2>5 DEF EvmInv
<1>8. QED
  BY <1>5, <1>6, <1>7

LEMMA FetchRefundInv ==
    ASSUME EvmInv, FetchRefund
    PROVE  EvmInv'
<1>1. ChainInv /\ Phases /\ Sourced /\ Accepting
  BY DEF EvmInv
<1>2. /\ step = "refund" /\ lock_event # None /\ refund_event = None
      /\ claim_event = None <=> request.claim_tx = None
      /\ UNCHANGED <<chain, reorgs, request, asked, rpcFailed, lock_event, claim_event>>
  <2>1. UNCHANGED <<chain, reorgs, request, asked, rpcFailed, lock_event, claim_event>>
    BY DEF FetchRefund, Fail, chainVars
  <2>2. QED
    BY <1>1, <2>1 DEF FetchRefund, Phases
<1>3. ChainInv'
  BY <1>1, <1>2, ChainSame
<1>4. PICK tx : tx = request.refund_tx
  OBVIOUS
<1>5. Granted(request)' <=> Granted(request)
  BY <1>2, RpcStepKeeps DEF RpcStep
<1>6. lock_event.block \in Nat
  BY <1>1, <1>2, EvmVerifierAssumption DEF Phases, Event
<1>7. CASE tx = None
  <2>1. step' = (IF InOrder(claim_event) THEN "done" ELSE "failed") /\ refund_event' = None
    BY <1>2, <1>4, <1>7 DEF FetchRefund
  <2>2. Phases'
    BY <1>1, <1>2, <2>1 DEF Phases
  <2>3. Sourced'
    BY <1>1, <1>2, <2>1 DEF Sourced, IsIn, OfTheLock
  <2>4. reorgs = 0 /\ Granted(request) => InOrder(claim_event)
    <3>1. SUFFICES ASSUME reorgs = 0, Granted(request), claim_event # None
                   PROVE  claim_event.block >= lock_event.block
      BY DEF InOrder
    <3>2. PICK u : u = request.claim_tx
      OBVIOUS
    <3>3. u # None /\ Plain(u) /\ Done(u, "claim") /\ SameEscrow(u, request.lock_tx)
      BY <1>2, <3>1, <3>2 DEF Granted
    <3>4. PICK b \in BlockOf(u) : ~(b <= lock_event.block)
      BY <1>1, <1>2, <3>1, <3>3, GrantedSettling
    <3>5. b = claim_event.block /\ b \in Nat
      BY <1>1, <3>1, <3>2, <3>4 DEF Sourced, IsIn, BlockOf, ChainInv
    <3>6. QED
      BY <1>6, <3>4, <3>5
  <2>5. Accepting'
    BY <1>2, <1>5, <2>1, <2>4 DEF Accepting
  <2>6. QED
    BY <1>3, <2>2, <2>3, <2>5 DEF EvmInv
<1>8. CASE tx # None /\ Receipted(tx, htlc_addr, contract_id, "Refunded")
  <2>1. PICK b \in BlockOf(tx) :
            /\ refund_event' = Seen(b, htlc_addr, contract_id, "Refunded")
            /\ step' = IF claim_event = None /\ b >= lock_event.block THEN "done" ELSE "failed"
    BY <1>4, <1>8 DEF FetchRefund, Receipted, Seen
  <2>2. PICK e : e = refund_event'
    OBVIOUS
  <2>3. e \in Event /\ IsIn(e, "Refunded", tx) /\ (reorgs = 0 => OfTheLock(e))
    BY <1>1, <1>2, <1>8, <2>1, <2>2, SettlingFound DEF Sourced, EventNames
  <2>4. Phases'
    BY <1>1, <1>2, <2>1, <2>2, <2>3 DEF Phases
  <2>5. IsIn(e, "Refunded", tx)' /\ (reorgs = 0 => OfTheLock(e)')
    BY <1>2, <2>3, RpcStepKeeps DEF RpcStep, OfTheLock
  <2>6. Sourced'
    BY <1>1, <1>2, <1>4, <2>2, <2>5 DEF Sourced, IsIn, OfTheLock
  <2>7. reorgs = 0 /\ Granted(request) => claim_event = None /\ b >= lock_event.block
    <3>1. SUFFICES ASSUME reorgs = 0, Granted(request)
                   PROVE  claim_event = None /\ b >= lock_event.block
      OBVIOUS
    <3>2. claim_event = None
      BY <1>1, <1>2, <1>4, <1>8, <3>1, GrantedOnce
    <3>3. tx # None /\ Plain(tx) /\ Done(tx, "refund") /\ SameEscrow(tx, request.lock_tx)
      BY <1>4, <1>8, <3>1 DEF Granted
    <3>4. PICK a \in BlockOf(tx) : ~(a <= lock_event.block)
      BY <1>1, <1>2, <3>1, <3>3, GrantedSettling
    <3>5. a = b /\ b \in Nat
      BY <1>1, <3>4 DEF BlockOf, ChainInv
    <3>6. QED
      BY <1>6, <3>2, <3>4, <3>5
  <2>8. Accepting'
    BY <1>2, <1>5, <2>1, <2>7 DEF Accepting
  <2>9. QED
    BY <1>3, <2>4, <2>6, <2>8 DEF EvmInv
<1>9. CASE tx # None /\ ~Receipted(tx, htlc_addr, contract_id, "Refunded")
  <2>1. step' = "failed" /\ refund_event' = None
    BY <1>2, <1>4, <1>9 DEF FetchRefund, Fail, Receipted
  <2>2. Phases'
    BY <1>1, <1>2, <2>1 DEF Phases
  <2>3. Sourced'
    BY <1>1, <1>2, <2>1 DEF Sourced, IsIn, OfTheLock
  <2>4. reorgs = 0 => ~Granted(request)
    <3>1. SUFFICES ASSUME reorgs = 0, Granted(request)
                   PROVE  FALSE
      OBVIOUS
    <3>2. tx # None /\ Plain(tx) /\ Done(tx, "refund") /\ SameEscrow(tx, request.lock_tx)
      BY <1>4, <1>9, <3>1 DEF Granted
    <3>3. \E b \in BlockOf(tx) : HasEvent(chain[b], htlc_addr, contract_id, EventName("refund"))
      BY <1>1, <1>2, <3>1, <3>2, GrantedSettling
    <3>4. QED
      BY <1>9, <3>3 DEF EventName, Receipted
  <2>5. Accepting'
    BY <1>2, <1>5, <2>4 DEF Accepting
  <2>6. QED
    BY <1>3, <2>2, <2>3, <2>5 DEF EvmInv
<1>10. QED
  BY <1>7, <1>8, <1>9

LEMMA EvmSame ==
    ASSUME EvmInv, UNCHANGED evmVars
    PROVE  EvmInv'
<1>1. /\ ChainInv /\ Phases /\ Sourced /\ Accepting
      /\ UNCHANGED <<chain, reorgs, request, step, asked, rpcFailed, lock_event, claim_event,
                     refund_event>>
  BY DEF EvmInv, evmVars, chainVars, rpcVars
<1>2. ChainInv' /\ Phases'
  BY <1>1, ChainSame DEF Phases
<1>3. Sourced'
  BY <1>1 DEF Sourced, IsIn, OfTheLock
<1>4. Accepting'
  <2>1. Granted(request)' <=> Granted(request)
    BY <1>1, RpcStepKeeps DEF RpcStep
  <2>2. QED
    BY <1>1, <2>1 DEF Accepting
<1>5. QED
  BY <1>2, <1>3, <1>4 DEF EvmInv

LEMMA EvmNextInv == EvmInv /\ [EvmNext]_evmVars => EvmInv'
BY MineInv, ReorganiseInv, BeginInv, FetchChainIdInv, FetchLockInv, FetchClaimInv,
   FetchRefundInv, RpcFailsInv, EvmSame DEF EvmNext

LEMMA EvmAlways == EvmSpec => []EvmInv
BY EvmInitInv, EvmNextInv, PTL DEF EvmSpec

\* The evidence is of one escrow, in the state the chain has it in.
LEMMA EvidenceHolds == EvmInv => Authentic
<1> SUFFICES ASSUME EvmInv, step = "done", reorgs = 0
             PROVE  /\ Evidenced.status # "None" /\ Evidenced.terms = lock_event.log.terms
                    /\ settlement_status = "claimed" =>
                           Evidenced.status = "Claimed" /\ Evidenced.secret = claim_event.log.secret
                    /\ settlement_status = "refunded" => Evidenced.status = "Refunded"
  BY DEF Authentic
<1>1. ChainInv /\ Phases /\ Sourced
  BY DEF EvmInv
<1>2. lock_event # None /\ IsIn(lock_event, "Locked", request.lock_tx)
  BY <1>1 DEF Phases, Sourced
<1>3. /\ chain # << >> /\ Len(chain) \in DOMAIN chain
      /\ EscrowsOf(chain) = chain[Len(chain)].escrows
      /\ \A i \in DOMAIN chain : i <= Len(chain)
  <2>1. chain \in Seq(Blocks) /\ DOMAIN chain # {}
    BY <1>1, <1>2 DEF ChainInv, IsIn
  <2>2. chain # << >>
    BY <2>1
  <2>3. QED
    BY <2>1, <2>2 DEF EscrowsOf, Last
<1>4. ASSUME NEW e, NEW name, NEW tx, IsIn(e, name, tx)
      PROVE  Told(e.log, EscrowsOf(chain)) /\ e.log.name = name
  BY <1>1, <1>3, <1>4 DEF ChainInv, AllTold, IsIn
<1>5. Evidenced.status # "None" /\ Evidenced.terms = lock_event.log.terms
  BY <1>2, <1>4 DEF Told, Evidenced
<1>6. ASSUME claim_event # None
      PROVE  Evidenced.status = "Claimed" /\ Evidenced.secret = claim_event.log.secret
  <2>1. IsIn(claim_event, "Claimed", request.claim_tx) /\ OfTheLock(claim_event)
    BY <1>1, <1>6 DEF Sourced
  <2>2. QED
    BY <1>4, <2>1 DEF Told, Evidenced, OfTheLock
<1>7. ASSUME refund_event # None
      PROVE  Evidenced.status = "Refunded"
  <2>1. IsIn(refund_event, "Refunded", request.refund_tx) /\ OfTheLock(refund_event)
    BY <1>1, <1>7 DEF Sourced
  <2>2. QED
    BY <1>4, <2>1 DEF Told, Evidenced, OfTheLock
<1>8. QED
  BY <1>5, <1>6, <1>7 DEF settlement_status

LEMMA EvmTyped == EvmInv => EvmTypeOK
<1> SUFFICES ASSUME EvmInv
             PROVE  EvmTypeOK
  OBVIOUS
<1>1. ASSUME NEW i \in DOMAIN chain
      PROVE  chain[i].tx \in Txs /\ chain[i].ok \in BOOLEAN /\ chain[i].logs \in Seq(Log)
  <2>1. chain[i] \in Blocks
    BY DEF EvmInv, ChainInv
  <2>2. QED
    BY <2>1 DEF Blocks
<1>2. Phases
  BY DEF EvmInv
<1>3. QED
  BY <1>1, <1>2 DEF Phases, EvmTypeOK

\* build_rpc_settlement_evidence keeps to its types whatever the chain does between two calls:
\* evidence is of a lock, and of at most one way to settle it.
THEOREM EvmTypeOKAlways == EvmSpec => []EvmTypeOK
BY EvmTyped, EvmAlways, PTL

\* Evidence from a chain that drops no blocks is of one escrow of one contract, with the terms,
\* the outcome and the secret the chain has for it, for all transactions and deployments.
THEOREM AuthenticAlways == EvmSpec => []Authentic
BY EvidenceHolds, EvmAlways, PTL

\* The settlement wallets made before the verification began is never refused by the receipts.
THEOREM NeverRefusedAlways == EvmSpec => []NeverRefused
<1>1. EvmInv => NeverRefused
  BY DEF EvmInv, Accepting, Granted, NeverRefused
<1>2. QED
  BY <1>1, EvmAlways, PTL

-----------------------------------------------------------------------------
(* What a transaction that succeeds logs is a matter of its calls alone,     *)
(* whatever chain it runs on: a receipt that is fetched again, after a       *)
(* reorganisation, has the same logs or failed.                              *)

LogsRun(f, tx) == /\ f[0] = << >>
                  /\ \A k \in 1..Len(tx.calls) : f[k] = f[k - 1] \o LogsOf(tx.calls[k])

Logged(tx, logs) == \E f : LogsRun(f, tx) /\ logs = f[Len(tx.calls)]

LEMMA LoggedOnce ==
    ASSUME NEW tx, tx.calls \in Seq(Call), NEW a, NEW b, Logged(tx, a), Logged(tx, b)
    PROVE  a = b
<1>1. PICK f : LogsRun(f, tx) /\ a = f[Len(tx.calls)]
  BY DEF Logged
<1>2. PICK g : LogsRun(g, tx) /\ b = g[Len(tx.calls)]
  BY DEF Logged
<1> DEFINE Bad == {k \in 0..Len(tx.calls) : f[k] # g[k]}
<1>3. Bad = {}
  <2> SUFFICES ASSUME Bad # {}
               PROVE  FALSE
    OBVIOUS
  <2>1. Bad \subseteq Nat
    OBVIOUS
  <2>2. PICK k \in Bad : \A j \in Bad : k <= j
    <3> HIDE DEF Bad
    <3> QED
      BY <2>1, Least
  <2>3. k \in 0..Len(tx.calls) /\ f[k] # g[k]
    OBVIOUS
  <2>4. k # 0
    BY <1>1, <1>2, <2>3 DEF LogsRun
  <2>5. k \in 1..Len(tx.calls) /\ k - 1 \in 0..Len(tx.calls) /\ ~(k <= k - 1)
    BY <2>3, <2>4
  <2>6. k - 1 \notin Bad
    <3> HIDE DEF Bad
    <3> QED
      BY <2>2, <2>5
  <2>7. f[k - 1] = g[k - 1]
    BY <2>5, <2>6
  <2>8. f[k] = f[k - 1] \o LogsOf(tx.calls[k]) /\ g[k] = g[k - 1] \o LogsOf(tx.calls[k])
    BY <1>1, <1>2, <2>5 DEF LogsRun
  <2>9. QED
    BY <2>3, <2>7, <2>8
<1>4. Len(tx.calls) \in 0..Len(tx.calls)
  OBVIOUS
<1>5. QED
  BY <1>1, <1>2, <1>3, <1>4

LEMMA RunLogs ==
    ASSUME NEW w, NEW call, NEW r, r = RunNext(w, call)
    PROVE  IF r.ok THEN w.ok /\ r.logs = w.logs \o LogsOf(call) ELSE r.logs = << >>
<1>1. CASE ~(w.ok /\ Runs(w.escrows[<<call.at, call.id>>], call, Len(chain) + 1))
  <2>1. r = Unrun(FALSE)
    BY <1>1 DEF RunNext
  <2>2. QED
    BY <2>1 DEF Unrun
<1>2. CASE w.ok /\ Runs(w.escrows[<<call.at, call.id>>], call, Len(chain) + 1)
  <2>1. PICK fs, ls : fs = Applied(w.escrows, call) /\ ls = w.logs \o LogsOf(call)
    OBVIOUS
  <2>2. r = [ok |-> TRUE, escrows |-> fs, logs |-> ls]
    BY <1>2, <2>1 DEF RunNext, Applied
  <2>3. r.ok = TRUE /\ r.logs = ls
    BY <2>2, DoneFields
  <2>4. QED
    BY <1>2, <2>1, <2>3
<1>3. QED
  BY <1>1, <1>2

LEMMA ExecutionLogged ==
    ASSUME NEW tx, tx.calls \in Seq(Call), NEW w, w = Execution(tx)
    PROVE  IF w.ok THEN Logged(tx, w.logs) ELSE w.logs = << >>
<1>1. PICK it, n : it = Executed(tx) /\ n = Len(tx.calls)
  OBVIOUS
<1>2. /\ n \in Nat /\ w = it[n] /\ it[0] = Unrun(TRUE)
      /\ \A k \in 1..n : it[k] = RunNext(it[k - 1], tx.calls[k])
  <2>1. Len(tx.calls) \in Nat
    OBVIOUS
  <2>2. /\ Execution(tx) = it[Len(tx.calls)] /\ it[0] = Unrun(TRUE)
        /\ \A k \in 1..Len(tx.calls) : it[k] = RunNext(it[k - 1], tx.calls[k])
    BY <1>1, ExecutionSteps
  <2>3. QED
    BY <1>1, <2>1, <2>2
<1>3. ASSUME NEW k \in 1..n
      PROVE  IF it[k].ok
             THEN it[k - 1].ok /\ it[k].logs = it[k - 1].logs \o LogsOf(tx.calls[k])
             ELSE it[k].logs = << >>
  <2>1. PICK v, c, r : v = it[k - 1] /\ c = tx.calls[k] /\ r = it[k]
    OBVIOUS
  <2>2. r = RunNext(v, c)
    BY <1>2, <2>1
  <2>3. IF r.ok THEN v.ok /\ r.logs = v.logs \o LogsOf(c) ELSE r.logs = << >>
    BY <2>2, RunLogs
  <2>4. QED
    BY <2>1, <2>3
<1>4. it[0].logs = << >> /\ it[0].ok
  BY <1>2 DEF Unrun
<1>5. CASE ~w.ok
  <2>1. n # 0
    BY <1>2, <1>4, <1>5
  <2>2. n \in 1..n
    BY <1>2, <2>1
  <2>3. QED
    BY <1>2, <1>3, <1>5, <2>2
<1>6. CASE w.ok
  <2> DEFINE Bad == {j \in 0..n : ~it[n - j].ok}
  <2>1. Bad = {}
    <3> SUFFICES ASSUME Bad # {}
                 PROVE  FALSE
      OBVIOUS
    <3>1. Bad \subseteq Nat
      OBVIOUS
    <3>2. PICK j \in Bad : \A i \in Bad : j <= i
      <4> HIDE DEF Bad
      <4> QED
        BY <3>1, Least
    <3>3. j \in 0..n /\ ~it[n - j].ok
      OBVIOUS
    <3>4. j # 0
      BY <1>2, <1>6, <3>3
    <3>5. /\ j - 1 \in 0..n /\ ~(j <= j - 1) /\ n - (j - 1) \in 1..n
          /\ (n - (j - 1)) - 1 = n - j
      BY <1>2, <3>3, <3>4
    <3>6. j - 1 \notin Bad
      <4> HIDE DEF Bad
      <4> QED
        BY <3>2, <3>5
    <3>7. it[n - (j - 1)].ok
      BY <3>5, <3>6
    <3>8. it[(n - (j - 1)) - 1].ok
      BY <1>3, <3>5, <3>7
    <3>9. QED
      BY <3>3, <3>5, <3>8
  <2>2. ASSUME NEW k \in 1..n
        PROVE  it[k].ok
    <3>1. n - k \in 0..n /\ n - (n - k) = k
      BY <1>2
    <3>2. QED
      BY <2>1, <3>1
  <2> DEFINE f == [k \in 0..n |-> it[k].logs]
  <2>3. f[0] = << >> /\ f[n] = w.logs
    <3>1. 0 \in 0..n /\ n \in 0..n
      BY <1>2
    <3>2. f[0] = it[0].logs /\ f[n] = it[n].logs
      BY <3>1
    <3>3. QED
      BY <1>2, <1>4, <3>2
  <2>4. ASSUME NEW k \in 1..n
        PROVE  f[k] = f[k - 1] \o LogsOf(tx.calls[k])
    <3>1. k \in 0..n /\ k - 1 \in 0..n
      BY <1>2
    <3>2. f[k] = it[k].logs /\ f[k - 1] = it[k - 1].logs
      BY <3>1
    <3>3. QED
      BY <1>3, <2>2, <3>2
  <2> HIDE DEF f
  <2>5. LogsRun(f, tx)
    BY <1>1, <2>3, <2>4 DEF LogsRun
  <2>6. QED
    BY <1>1, <1>6, <2>3, <2>5 DEF Logged
<1>7. QED
  BY <1>5, <1>6

ChainLogged == \A i \in DOMAIN chain : IF chain[i].ok THEN Logged(chain[i].tx, chain[i].logs)
                                       ELSE chain[i].logs = << >>

LEMMA MineLogged ==
    ASSUME ChainInv, ChainLogged, NEW tx \in Txs, Mine(tx)
    PROVE  ChainLogged'
<1>1. PICK n : n = Len(chain) + 1
  OBVIOUS
<1>2. PICK b \in Blocks :
          /\ b.tx = tx /\ b.ok = Execution(tx).ok /\ b.logs = Execution(tx).logs
          /\ DOMAIN chain' = DOMAIN chain \cup {n}
          /\ \A i \in DOMAIN chain : chain'[i] = chain[i]
          /\ chain'[n] = b
  BY <1>1, MineBlock
<1>3. tx.calls \in Seq(Call)
  BY EvmVerifierAssumption
<1>4. IF b.ok THEN Logged(b.tx, b.logs) ELSE b.logs = << >>
  BY <1>2, <1>3, ExecutionLogged
<1>5. QED
  BY <1>2, <1>4 DEF ChainLogged

LEMMA ReorganiseLogged ==
    ASSUME ChainInv, ChainLogged, Reorganise
    PROVE  ChainLogged'
<1>1. chain \in Seq(Blocks) /\ Len(chain) \in Nat /\ DOMAIN chain = 1..Len(chain)
  BY DEF ChainInv
<1>2. PICK k \in 0..(Len(chain) - 1) : chain' = SubSeq(chain, 1, k)
  BY DEF Reorganise
<1>3. DOMAIN chain' = 1..k /\ \A i \in 1..k : chain'[i] = chain[i] /\ i \in DOMAIN chain
  BY <1>1, <1>2
<1>4. QED
  BY <1>3 DEF ChainLogged

\* The log is the only event of this name, of the contract and the id if they are given,
\* that tx logs when it succeeds.
Caught(log, tx, htlc, id, name) ==
    /\ tx \in Txs
    /\ htlc # None => tx.to = htlc
    /\ \E logs : /\ Logged(tx, logs) /\ ~Unfunded(logs, htlc)
                 /\ Cardinality(matching_events(logs, htlc, id, name)) = 1
                 /\ \E n \in matching_events(logs, htlc, id, name) : log = logs[n]

LEMMA EventCaught ==
    ASSUME ChainInv, ChainLogged, NEW tx, NEW htlc, NEW id, NEW name,
           Receipted(tx, htlc, id, name), NEW b \in BlockOf(tx), NEW e, e = Seen(b, htlc, id, name)
    PROVE  Caught(e.log, tx, htlc, id, name)
<1>1. PICK a \in BlockOf(tx) : HasEvent(chain[a], htlc, id, name)
  BY DEF Receipted
<1>2. a = b /\ b \in DOMAIN chain /\ chain[b].tx = tx
  BY DEF BlockOf, ChainInv
<1>3. PICK logs : logs = chain[b].logs
  OBVIOUS
<1> DEFINE M == matching_events(logs, htlc, id, name)
           n == CHOOSE i \in M : TRUE
<1>4. /\ chain[b].ok /\ (htlc # None => tx.to = htlc) /\ ~Unfunded(logs, htlc)
      /\ Cardinality(M) = 1
  BY <1>1, <1>2, <1>3 DEF HasEvent
<1>5. M # {}
  BY <1>4, FS_EmptySet
<1>6. n \in M
  BY <1>5
<1>7. e = [log |-> logs[n], block |-> b]
  BY <1>3 DEF Seen, TheEvent
<1>8. tx \in Txs
  <2>1. chain[b] \in Blocks
    BY <1>2 DEF ChainInv
  <2>2. QED
    BY <1>2, <2>1 DEF Blocks
<1>9. Logged(tx, logs)
  BY <1>2, <1>3, <1>4 DEF ChainLogged
<1> HIDE DEF n, M
<1>10. e.log = logs[n]
  BY <1>7
<1>11. QED
  BY <1>4, <1>6, <1>8, <1>9, <1>10 DEF Caught, M

Kept ==
    /\ step \notin {"idle", "failed"} => request.lock_tx # None
    /\ step = "done" => /\ (claim_event = None <=> request.claim_tx = None)
                        /\ (refund_event = None <=> request.refund_tx = None)
    /\ lock_event # None =>
           Caught(lock_event.log, request.lock_tx, request.htlc, request.id, "Locked")
    /\ claim_event # None => Caught(claim_event.log, request.claim_tx, lock_event.log.address,
                                    lock_event.log.id, "Claimed")
    /\ refund_event # None => Caught(refund_event.log, request.refund_tx, lock_event.log.address,
                                     lock_event.log.id, "Refunded")

EvidenceInv == EvmInv /\ ChainLogged /\ Kept

LEMMA KeptSame ==
    ASSUME Kept, UNCHANGED <<request, lock_event, claim_event, refund_event>>,
           step' = "done" => step = "done",
           step' \notin {"idle", "failed"} => step \notin {"idle", "failed"}
    PROVE  Kept'
BY DEF Kept

LEMMA FetchLockKept ==
    ASSUME EvidenceInv, FetchLock
    PROVE  Kept'
<1>1. ChainInv /\ ChainLogged /\ Phases /\ Kept
  BY DEF EvidenceInv, EvmInv
<1>2. /\ claim_event' = None /\ refund_event' = None /\ lock_event = None /\ step' # "done"
      /\ request.lock_tx # None
      /\ UNCHANGED request
  BY <1>1 DEF FetchLock, Fail, Phases, Kept
<1>3. PICK tx, htlc, id : tx = request.lock_tx /\ htlc = request.htlc /\ id = request.id
  OBVIOUS
<1>4. CASE Receipted(tx, htlc, id, "Locked")
  <2>1. PICK b \in BlockOf(tx) : lock_event' = Seen(b, htlc, id, "Locked")
    BY <1>3, <1>4 DEF FetchLock, Receipted, Seen
  <2>2. PICK e : e = lock_event'
    OBVIOUS
  <2>3. Caught(e.log, tx, htlc, id, "Locked")
    BY <1>1, <1>4, <2>1, <2>2, EventCaught
  <2>4. QED
    BY <1>2, <1>3, <2>2, <2>3 DEF Kept
<1>5. CASE ~Receipted(tx, htlc, id, "Locked")
  <2>1. lock_event' = None
    BY <1>2, <1>3, <1>5 DEF FetchLock, Receipted, Fail
  <2>2. QED
    BY <1>2, <2>1 DEF Kept
<1>6. QED
  BY <1>4, <1>5

LEMMA FetchClaimKept ==
    ASSUME EvidenceInv, FetchClaim
    PROVE  Kept'
<1>1. ChainInv /\ ChainLogged /\ Phases /\ Kept
  BY DEF EvidenceInv, EvmInv
<1>2. /\ claim_event = None /\ refund_event' = None /\ lock_event # None /\ step' # "done"
      /\ request.lock_tx # None
      /\ UNCHANGED <<request, lock_event>>
  BY <1>1 DEF FetchClaim, Fail, Phases, Kept
<1>3. PICK tx, htlc, id : tx = request.claim_tx /\ htlc = htlc_addr /\ id = contract_id
  OBVIOUS
<1>4. htlc = lock_event.log.address /\ id = lock_event.log.id
  BY <1>2, <1>3 DEF htlc_addr, contract_id
<1>5. CASE tx # None /\ Receipted(tx, htlc, id, "Claimed")
  <2>1. PICK b \in BlockOf(tx) : claim_event' = Seen(b, htlc, id, "Claimed")
    BY <1>3, <1>5 DEF FetchClaim, Receipted, Seen
  <2>2. PICK e : e = claim_event'
    OBVIOUS
  <2>3. Caught(e.log, tx, htlc, id, "Claimed")
    BY <1>1, <1>5, <2>1, <2>2, EventCaught
  <2>4. QED
    BY <1>1, <1>2, <1>3, <1>4, <2>2, <2>3 DEF Kept
<1>6. CASE ~(tx # None /\ Receipted(tx, htlc, id, "Claimed"))
  <2>1. claim_event' = None
    BY <1>2, <1>3, <1>6 DEF FetchClaim, Receipted, Fail
  <2>2. QED
    BY <1>1, <1>2, <2>1 DEF Kept
<1>7. QED
  BY <1>5, <1>6

LEMMA FetchRefundKept ==
    ASSUME EvidenceInv, FetchRefund
    PROVE  Kept'
<1>1. ChainInv /\ ChainLogged /\ Phases /\ Kept
  BY DEF EvidenceInv, EvmInv
<1>2. /\ refund_event = None /\ lock_event # None /\ (claim_event = None <=> request.claim_tx = None)
      /\ request.lock_tx # None
      /\ UNCHANGED <<request, lock_event, claim_event>>
  BY <1>1 DEF FetchRefund, Fail, Phases, Kept
<1>3. PICK tx, htlc, id : tx = request.refund_tx /\ htlc = htlc_addr /\ id = contract_id
  OBVIOUS
<1>4. htlc = lock_event.log.address /\ id = lock_event.log.id
  BY <1>2, <1>3 DEF htlc_addr, contract_id
<1>5. CASE tx # None /\ Receipted(tx, htlc, id, "Refunded")
  <2>1. PICK b \in BlockOf(tx) : refund_event' = Seen(b, htlc, id, "Refunded")
    BY <1>3, <1>5 DEF FetchRefund, Receipted, Seen
  <2>2. PICK e : e = refund_event'
    OBVIOUS
  <2>3. Caught(e.log, tx, htlc, id, "Refunded") /\ e \in Event
    BY <1>1, <1>5, <2>1, <2>2, EventCaught, EventFound DEF EventNames
  <2>4. e # None
    BY <2>3, EventsAreNot
  <2>5. QED
    BY <1>1, <1>2, <1>3, <1>4, <1>5, <2>2, <2>3, <2>4 DEF Kept
<1>6. CASE tx = None
  <2>1. refund_event' = None
    BY <1>2, <1>3, <1>6 DEF FetchRefund
  <2>2. QED
    BY <1>1, <1>2, <1>3, <1>6, <2>1 DEF Kept
<1>7. CASE tx # None /\ ~Receipted(tx, htlc, id, "Refunded")
  <2>1. refund_event' = None /\ step' = "failed"
    BY <1>2, <1>3, <1>7 DEF FetchRefund, Receipted, Fail
  <2>2. QED
    BY <1>1, <1>2, <2>1 DEF Kept
<1>8. QED
  BY <1>5, <1>6, <1>7

LEMMA EvidenceInitInv == EvmInit => EvidenceInv
<1> SUFFICES ASSUME EvmInit
             PROVE  EvidenceInv
  OBVIOUS
<1>1. DOMAIN chain = {}
  BY DEF EvmInit
<1>2. ChainLogged /\ Kept
  BY <1>1 DEF EvmInit, ChainLogged, Kept
<1>3. QED
  BY <1>2, EvmInitInv DEF EvidenceInv

LEMMA EvidenceNextInv ==
    ASSUME EvidenceInv, [EvmNext]_evmVars
    PROVE  EvidenceInv'
<1>1. EvmInv /\ ChainInv /\ Phases /\ ChainLogged /\ Kept
  BY DEF EvidenceInv, EvmInv
<1>2. EvmInv'
  BY <1>1, EvmNextInv
<1>3. CASE ~((\E tx \in Txs : Mine(tx)) \/ Reorganise)
  <2>1. ChainLogged'
    <3>1. UNCHANGED chain
      BY <1>3 DEF EvmNext, Begin, FetchChainId, FetchLock, FetchClaim, FetchRefund, RpcFails, Fail,
                  evmVars, chainVars
    <3>2. QED
      BY <1>1, <3>1 DEF ChainLogged
  <2>2. Kept'
    <3>1. ASSUME NEW r \in Requests, Begin(r)
          PROVE  Kept'
      <4>1. /\ lock_event' = None /\ claim_event' = None /\ refund_event' = None /\ step' # "done"
            /\ step' # "failed" => request'.lock_tx # None
        BY <1>1, <3>1 DEF Begin, Phases
      <4>2. QED
        BY <4>1 DEF Kept
    <3>2. CASE FetchChainId \/ RpcFails
      BY <1>1, <3>2, KeptSame DEF FetchChainId, RpcFails, Fail
    <3>3. CASE FetchLock
      BY <3>3, FetchLockKept
    <3>4. CASE FetchClaim
      BY <3>4, FetchClaimKept
    <3>5. CASE FetchRefund
      BY <3>5, FetchRefundKept
    <3>6. CASE UNCHANGED evmVars
      BY <1>1, <3>6, KeptSame DEF evmVars, rpcVars
    <3>7. QED
      BY <1>3, <3>1, <3>2, <3>3, <3>4, <3>5, <3>6 DEF EvmNext
  <2>3. QED
    BY <1>2, <2>1, <2>2 DEF EvidenceInv
<1>4. CASE (\E tx \in Txs : Mine(tx)) \/ Reorganise
  <2>1. ChainLogged'
    BY <1>1, <1>4, MineLogged, ReorganiseLogged
  <2>2. Kept'
    BY <1>1, <1>4, KeptSame DEF Mine, Reorganise, rpcVars
  <2>3. QED
    BY <1>2, <2>1, <2>2 DEF EvidenceInv
<1>5. QED
  BY <1>3, <1>4

-----------------------------------------------------------------------------
(* The cross verifier.  A proof is of the agreement in the transcript and    *)
(* of a document, or of the evidence the receipts gave, and the verdict is   *)
(* of that proof.                                                            *)

LEMMA NoReason == \A name, given : (Reason(name, given) = {}) <=> ~given
BY DEF Reason

LEMMA ProofFields ==
    ASSUME NEW a, NEW s, NEW p, p = Proof(a, s)
    PROVE  /\ ~p.refused /\ p.agreement = a /\ p.settlement = s /\ p.root = transcript.root
           /\ p.is_conformant <=> p.failures = {}
           /\ p.proven <=> s.provenance \in Trusted
           /\ p.failures = UNION {AnchorFailures(a), TranscriptFailures(a), TermsFailures(a, s),
                                  Reason("self-attested", s.provenance \notin Trusted)}
<1>1. PICK f : f = UNION {AnchorFailures(a), TranscriptFailures(a), TermsFailures(a, s),
                          Reason("self-attested", s.provenance \notin Trusted)}
  OBVIOUS
<1>2. PICK q : q = [refused |-> FALSE, is_conformant |-> f = {}, failures |-> f, agreement |-> a,
                    settlement |-> s, root |-> transcript.root, proven |-> s.provenance \in Trusted]
  OBVIOUS
<1>3. /\ ~q.refused /\ q.failures = f /\ q.agreement = a /\ q.settlement = s
      /\ q.root = transcript.root
  BY <1>2
<1>4. q.is_conformant <=> f = {}
  BY <1>2, Zenon
<1>5. q.proven <=> s.provenance \in Trusted
  BY <1>2, Zenon
<1>6. p = q
  BY <1>1, <1>2 DEF Proof
<1>7. QED
  BY <1>1, <1>3, <1>4, <1>5, <1>6, Zenon

\* What a proof without a failure says.
LEMMA NoFailure ==
    ASSUME NEW a, NEW s, Proof(a, s).failures = {}
    PROVE  /\ s.provenance \in Trusted
           /\ AnchorFailures(a) = {} /\ TranscriptFailures(a) = {} /\ BindingFailures(a, s) = {}
           /\ SecretFailures(a, s) = {} /\ AddressFailures(a, s) = {} /\ Erc20Failures(a, s) = {}
<1>1. PICK p : p = Proof(a, s)
  OBVIOUS
<1>2. p.failures = UNION {AnchorFailures(a), TranscriptFailures(a), TermsFailures(a, s),
                          Reason("self-attested", s.provenance \notin Trusted)}
  BY <1>1, ProofFields
<1>3. /\ AnchorFailures(a) = {} /\ TranscriptFailures(a) = {} /\ TermsFailures(a, s) = {}
      /\ Reason("self-attested", s.provenance \notin Trusted) = {}
  BY <1>1, <1>2
<1>4. s.provenance \in Trusted
  BY <1>3, NoReason
<1>5. /\ BindingFailures(a, s) = {} /\ SecretFailures(a, s) = {} /\ AddressFailures(a, s) = {}
      /\ Erc20Failures(a, s) = {}
  BY <1>3 DEF TermsFailures
<1>6. QED
  BY <1>3, <1>4, <1>5

\* The settlements a proof is of.
Settled(s) == s.provenance = "self_attested" \/ (step = "done" /\ s = rpc_evidence)

ProofInv == proof # None => /\ exit = ExitCode(proof)
                            /\ \/ proof = Refusal
                               \/ \E s : Settled(s) /\ proof = Proof(Agreement, s)

VerdictInv == verdict # None =>
                  /\ proof # None /\ standalone_exit = exit
                  /\ verdict = verify_standalone_proof(proof)

CrossInv == /\ exit \in {None, 0, 1, 2} /\ standalone_exit \in {None, 0, 1, 2}
            /\ exit # None => step \in {"idle", "done", "failed"}
            /\ ProofInv /\ VerdictInv

LEMMA Refused == Refusal.refused /\ ~Refusal.is_conformant /\ Refusal.failures = {"refused"}
BY DEF Refusal

\* Evidence from receipts.
LEMMA RpcEvidence ==
    ASSUME NEW s, s = rpc_evidence
    PROVE  /\ s.id = lock_event.log.id /\ s.htlc = lock_event.log.address
           /\ s.amount = lock_event.log.terms.amount /\ s.asset = lock_event.log.terms.token
           /\ s.hashlock = lock_event.log.terms.hashlock
           /\ s.payer = lock_event.log.terms.payer /\ s.payee = lock_event.log.terms.payee
           /\ s.status = settlement_status /\ s.provenance = "rpc_receipt_verified"
           /\ s.lock_ts = None /\ s.claim_ts = None
           /\ s.secret = IF claim_event = None THEN None ELSE claim_event.log.secret
           /\ s.lock_tx = request.lock_tx /\ s.claim_tx = request.claim_tx
           /\ s.refund_tx = request.refund_tx
           /\ s.erc20 = IF lock_event.log.terms.token = Native THEN None ELSE TRUE
BY DEF rpc_evidence

\* The standalone verifier on a refusal, and on a proof.
LEMMA RefusalJudged ==
    ASSUME NEW v, v = verify_standalone_proof(Refusal)
    PROVE  ~v.schema /\ ~v.valid /\ ~v.is_conformant
BY Refused DEF verify_standalone_proof

LEMMA VerdictFields ==
    ASSUME NEW p, ~p.refused, NEW v, v = verify_standalone_proof(p),
           NEW f, f = UNION {StandaloneBindings(p), StandaloneAnchors(p), TrustFailures(p),
                             StandaloneTemporal(p), StandaloneErc20(p), Recorded(p)}
    PROVE  /\ v.schema
           /\ v.valid <=> f \ {"self-attested"} = {}
           /\ v.is_conformant <=> /\ f = {}
                                  /\ p.settlement.provenance \in Trusted /\ p.is_conformant
<1>1. PICK w : w = [schema |-> TRUE, valid |-> f \ {"self-attested"} = {},
                    is_conformant |-> /\ f \ {"self-attested"} = {} /\ f = {}
                                      /\ p.settlement.provenance \in Trusted /\ p.is_conformant]
  OBVIOUS
<1>2. w.schema
  BY <1>1, Zenon
<1>3. w.valid <=> f \ {"self-attested"} = {}
  BY <1>1, Zenon
<1>4. w.is_conformant <=> /\ f \ {"self-attested"} = {} /\ f = {}
                          /\ p.settlement.provenance \in Trusted /\ p.is_conformant
  BY <1>1, Zenon
<1>5. f = {} => f \ {"self-attested"} = {}
  OBVIOUS
<1>6. v = w
  BY <1>1, Zenon DEF verify_standalone_proof
<1>7. QED
  BY <1>2, <1>3, <1>4, <1>5, <1>6, Zenon

\* Judged again, a proof is conformant if it was, and valid only if it was at fault for
\* nothing but being self-attested.
LEMMA ProofJudged ==
    ASSUME NEW a, NEW s, Settled(s), NEW p, p = Proof(a, s), NEW v, v = verify_standalone_proof(p)
    PROVE  /\ v.schema
           /\ v.is_conformant <=> p.is_conformant
           /\ p.is_conformant => v.valid
           /\ v.valid => p.failures \subseteq {"self-attested"}
           /\ p.is_conformant => s.provenance \in Trusted
<1>1. /\ ~p.refused /\ p.agreement = a /\ p.settlement = s /\ p.root = transcript.root
      /\ p.is_conformant <=> p.failures = {}
  BY ProofFields
<1>2. PICK f : f = UNION {StandaloneBindings(p), StandaloneAnchors(p), TrustFailures(p),
                          StandaloneTemporal(p), StandaloneErc20(p), Recorded(p)}
  OBVIOUS
<1>3. /\ v.schema
      /\ v.valid <=> f \ {"self-attested"} = {}
      /\ v.is_conformant <=> /\ f = {}
                             /\ p.settlement.provenance \in Trusted /\ p.is_conformant
  BY <1>1, <1>2, VerdictFields
<1>4. ASSUME p.is_conformant
      PROVE  f = {} /\ s.provenance \in Trusted
  <2>1. /\ s.provenance \in Trusted
        /\ AnchorFailures(a) = {} /\ BindingFailures(a, s) = {}
        /\ SecretFailures(a, s) = {} /\ Erc20Failures(a, s) = {}
    BY <1>1, <1>4, NoFailure
  <2>2. s = rpc_evidence
    BY <2>1 DEF Settled, Trusted
  <2>3. /\ s.status = settlement_status /\ s.provenance = "rpc_receipt_verified"
        /\ s.lock_ts = None /\ s.claim_ts = None
        /\ s.secret = IF claim_event = None THEN None ELSE claim_event.log.secret
    BY <2>2, RpcEvidence
  <2>4. StandaloneBindings(p) = {}
    <3>1. Reason("secret", /\ s.status = "claimed" /\ s.secret # None
                           /\ Sha256[s.secret] # a.hashlock) = {}
      BY <2>1 DEF SecretFailures
    <3>2. ~(s.secret # None /\ Sha256[s.secret] # a.hashlock)
      BY <2>3, <3>1, NoReason DEF settlement_status
    <3>3. Reason("secret", s.secret # None /\ Sha256[s.secret] # a.hashlock) = {}
      BY <3>2 DEF Reason
    <3>4. QED
      BY <1>1, <2>1, <3>3 DEF StandaloneBindings
  <2>5. StandaloneAnchors(p) = {}
    BY <1>1, <2>1 DEF StandaloneAnchors, AnchorFailures
  <2>6. TrustFailures(p) = {}
    BY <1>1, <2>3 DEF TrustFailures, Reason
  <2>7. StandaloneTemporal(p) = {}
    BY <1>1, <2>3 DEF StandaloneTemporal, Reason
  <2>8. StandaloneErc20(p) = {}
    <3>1. ~((a.asset # Native \/ s.asset # Native) /\ s.provenance \in Trusted /\ s.erc20 # TRUE)
      BY <2>1, NoReason DEF Erc20Failures
    <3>2. QED
      BY <1>1, <2>1, <3>1 DEF StandaloneErc20, Reason
  <2>9. Recorded(p) = {}
    BY <1>1, <1>4 DEF Recorded
  <2>10. QED
    BY <1>2, <2>1, <2>4, <2>5, <2>6, <2>7, <2>8, <2>9
<1>5. ASSUME v.valid
      PROVE  p.failures \subseteq {"self-attested"}
  <2>1. p.failures \subseteq f
    BY <1>2 DEF Recorded
  <2>2. QED
    BY <1>3, <1>5, <2>1
<1>6. f = {} => f \ {"self-attested"} = {}
  OBVIOUS
<1>7. QED
  BY <1>1, <1>3, <1>4, <1>5, <1>6

\* What a step of the chain and its verification leaves of the proof.
LEMMA ProofSame ==
    ASSUME UNCHANGED <<transcript, anchors>>
    PROVE  /\ Agreement' = Agreement
           /\ \A a, s : Proof(a, s)' = Proof(a, s)
           /\ \A p : verify_standalone_proof(p)' = verify_standalone_proof(p)
<1>1. Agreement' = Agreement
  BY DEF Agreement
<1>2. ASSUME NEW a, NEW s
      PROVE  Proof(a, s)' = Proof(a, s)
  BY DEF Proof, AnchorFailures, TranscriptFailures, signatures_verified
<1>3. ASSUME NEW p
      PROVE  verify_standalone_proof(p)' = verify_standalone_proof(p)
  BY DEF verify_standalone_proof, StandaloneAnchors
<1>4. QED
  BY <1>1, <1>2, <1>3

LEMMA NotACode == None \notin {0, 1, 2} /\ None # TRUE /\ \A p : ExitCode(p) \in {0, 1, 2}
BY CrossAssumption DEF ExitCode

LEMMA CrossInitInv == CrossInit => CrossInv
BY DEF CrossInit, CrossInv, ProofInv, VerdictInv

\* Once a verification has ended, only the chain goes on.
LEMMA EvmEnded ==
    ASSUME CrossInv, Evm, exit # None
    PROVE  UNCHANGED rpcVars
BY DEF CrossInv, Evm, Mine, FetchChainId, FetchLock, FetchClaim, FetchRefund, RpcFails, Begin, rpcVars

\* A step that leaves a verification alone that has ended.
Leaves == /\ UNCHANGED <<transcript, anchors, proof, exit, verdict, standalone_exit>>
          /\ exit # None => UNCHANGED <<request, step, lock_event, claim_event, refund_event>>

LEMMA CrossSame ==
    ASSUME CrossInv, Leaves
    PROVE  CrossInv'
<1> USE DEF Leaves
<1>1. UNCHANGED <<transcript, anchors, proof, exit, verdict, standalone_exit>>
  OBVIOUS
<1>2. proof # None => exit # None
  BY NotACode DEF CrossInv, ProofInv
<1>3. ProofInv'
  <2>1. SUFFICES ASSUME proof # None
                 PROVE  ProofInv'
    BY <1>1 DEF ProofInv
  <2>2. exit = ExitCode(proof)
    BY <2>1 DEF CrossInv, ProofInv
  <2>3. CASE proof = Refusal
    BY <1>1, <2>2, <2>3 DEF ProofInv
  <2>4. CASE proof # Refusal
    <3>1. PICK s : Settled(s) /\ proof = Proof(Agreement, s)
      BY <2>1, <2>4 DEF CrossInv, ProofInv
    <3>2. PICK a : a = Agreement
      OBVIOUS
    <3>3. Settled(s)'
      BY <1>2, <2>1, <3>1 DEF Settled, rpc_evidence, settlement_status
    <3>4. proof' = Proof(a, s)' /\ Agreement' = a
      BY <1>1, <3>1, <3>2, ProofSame
    <3>5. QED
      BY <1>1, <2>2, <3>3, <3>4 DEF ProofInv
  <2>5. QED
    BY <2>3, <2>4
<1>4. VerdictInv'
  <2>1. SUFFICES ASSUME verdict # None
                 PROVE  VerdictInv'
    BY <1>1 DEF VerdictInv
  <2>2. PICK p : p = proof
    OBVIOUS
  <2>3. verdict = verify_standalone_proof(p)
    BY <2>1, <2>2 DEF CrossInv, VerdictInv
  <2>4. PICK v : v = verify_standalone_proof(p)
    OBVIOUS
  <2>5. v = verify_standalone_proof(p)' /\ proof' = p /\ verdict' = v
    BY <1>1, <2>2, <2>3, <2>4, ProofSame
  <2>6. QED
    BY <1>1, <2>1, <2>2, <2>5 DEF CrossInv, VerdictInv
<1>5. QED
  BY <1>1, <1>3, <1>4 DEF CrossInv

LEMMA ConcludeInv ==
    ASSUME CrossInv, exit = None, step \in {"idle", "done", "failed"}, NEW settled \in BOOLEAN, NEW s,
           settled => Settled(s), Conclude(settled, s)
    PROVE  CrossInv'
<1>1. proof = None /\ verdict = None
  BY NotACode DEF CrossInv, ProofInv, VerdictInv
<1>2. UNCHANGED <<evmVars, transcript, anchors, verdict, standalone_exit>>
  BY DEF Conclude
<1>3. VerdictInv' /\ standalone_exit' \in {None, 0, 1, 2} /\ step' \in {"idle", "done", "failed"}
  BY <1>1, <1>2 DEF CrossInv, VerdictInv, evmVars, rpcVars
<1>4. CASE settled /\ Raises
  BY <1>3, <1>4 DEF Conclude, CrossInv, ProofInv
<1>5. CASE ~(settled /\ Raises)
  <2>1. /\ proof' = IF settled /\ transcript.agreement # None THEN Proof(Agreement, s) ELSE Refusal
        /\ exit' = ExitCode(proof')
    BY <1>5 DEF Conclude
  <2>2. exit' \in {0, 1, 2}
    BY <2>1, NotACode
  <2>3. CASE proof' = Refusal
    BY <1>3, <2>1, <2>2, <2>3 DEF CrossInv, ProofInv
  <2>4. CASE settled /\ proof' = Proof(Agreement, s)
    <3>1. Settled(s)'
      BY <1>2, <2>4 DEF Settled, rpc_evidence, settlement_status, evmVars, rpcVars
    <3>2. PICK a : a = Agreement
      OBVIOUS
    <3>3. proof' = Proof(a, s)' /\ Agreement' = a
      BY <1>2, <2>4, <3>2, ProofSame
    <3>4. ProofInv'
      BY <2>1, <3>1, <3>3 DEF ProofInv
    <3>5. QED
      BY <1>3, <2>2, <3>4 DEF CrossInv
  <2>5. QED
    BY <2>1, <2>3, <2>4
<1>6. QED
  BY <1>4, <1>5

LEMMA VerifyRpcInv ==
    ASSUME CrossInv, VerifyRpc
    PROVE  CrossInv'
<1>1. /\ step \in {"done", "failed"} /\ exit = None
      /\ Conclude(step = "done", IF step = "done" THEN rpc_evidence ELSE None)
  BY DEF VerifyRpc
<1>2. CASE step = "done"
  <2>1. PICK s : s = rpc_evidence
    OBVIOUS
  <2>2. Settled(s)
    BY <1>2, <2>1 DEF Settled
  <2>3. Conclude(TRUE, s)
    BY <1>1, <1>2, <2>1 DEF Conclude
  <2>4. QED
    BY <1>1, <2>2, <2>3, ConcludeInv
<1>3. CASE step # "done"
  <2>1. Conclude(FALSE, None)
    BY <1>1, <1>3 DEF Conclude
  <2>2. QED
    BY <1>1, <2>1, ConcludeInv
<1>4. QED
  BY <1>2, <1>3

LEMMA VerifyDocumentInv ==
    ASSUME CrossInv, NEW d \in Documents, VerifyDocument(d)
    PROVE  CrossInv'
<1>1. /\ step = "idle" /\ exit = None
      /\ Conclude(d # None /\ WellFormed(d), IF d # None THEN parse_settlement_evidence(d) ELSE None)
  BY DEF VerifyDocument
<1>2. CASE d # None /\ WellFormed(d)
  <2>1. PICK s : s = parse_settlement_evidence(d)
    OBVIOUS
  <2>2. DOMAIN d = EvidenceFields
    BY <1>2, CrossAssumption
  <2>3. s.provenance = "self_attested"
    BY <2>1, <2>2 DEF EvidenceFields, parse_settlement_evidence
  <2>4. Conclude(TRUE, s)
    BY <1>1, <1>2, <2>1 DEF Conclude
  <2>5. QED
    BY <1>1, <2>3, <2>4, ConcludeInv DEF Settled
<1>3. CASE ~(d # None /\ WellFormed(d))
  <2>1. Conclude(FALSE, None)
    BY <1>1, <1>3 DEF Conclude
  <2>2. QED
    BY <1>1, <2>1, ConcludeInv
<1>4. QED
  BY <1>2, <1>3

\* A proof that was made is judged with the code it was given.
LEMMA JudgedAgain ==
    ASSUME CrossInv, proof # None, NEW v, v = verify_standalone_proof(proof)
    PROVE  /\ exit = IF ~v.schema THEN 2 ELSE IF v.is_conformant THEN 0 ELSE 1
           /\ v.valid => proof.failures \subseteq {"self-attested"}
           /\ v.is_conformant => step = "done"
           /\ proof.refused <=> ~v.schema
           /\ proof.is_conformant <=> v.is_conformant
           /\ proof.is_conformant => v.valid
<1>1. exit = IF proof.refused THEN 2 ELSE IF proof.is_conformant THEN 0 ELSE 1
  BY DEF CrossInv, ProofInv, ExitCode
<1>2. CASE proof = Refusal
  <2>1. ~v.schema /\ ~v.valid /\ ~v.is_conformant
    BY <1>2, RefusalJudged
  <2>2. QED
    BY <1>1, <1>2, <2>1, Refused
<1>3. CASE proof # Refusal
  <2>1. PICK s : Settled(s) /\ proof = Proof(Agreement, s)
    BY <1>3 DEF CrossInv, ProofInv
  <2>2. PICK a, p : a = Agreement /\ p = proof
    OBVIOUS
  <2>3. p = Proof(a, s) /\ v = verify_standalone_proof(p)
    BY <2>1, <2>2
  <2>4. /\ v.schema
        /\ v.is_conformant <=> p.is_conformant
        /\ p.is_conformant => v.valid
        /\ v.valid => p.failures \subseteq {"self-attested"}
        /\ p.is_conformant => s.provenance \in Trusted
    BY <2>1, <2>3, ProofJudged
  <2>5. ~p.refused
    BY <2>3, ProofFields
  <2>6. s.provenance \in Trusted => step = "done"
    BY <2>1 DEF Settled, Trusted
  <2>7. QED
    BY <1>1, <2>2, <2>4, <2>5, <2>6
<1>4. QED
  BY <1>2, <1>3

LEMMA VerifyProofInv ==
    ASSUME CrossInv, VerifyProof
    PROVE  CrossInv'
<1>1. /\ proof # None /\ verdict = None /\ verdict' = verify_standalone_proof(proof)
      /\ standalone_exit' = IF ~verdict'.schema THEN 2 ELSE IF verdict'.is_conformant THEN 0 ELSE 1
      /\ UNCHANGED <<evmVars, transcript, anchors, proof, exit>>
  BY DEF VerifyProof
<1>2. PICK p, v : p = proof /\ v = verify_standalone_proof(p)
  OBVIOUS
<1>4. exit = IF ~v.schema THEN 2 ELSE IF v.is_conformant THEN 0 ELSE 1
  BY <1>1, <1>2, JudgedAgain
<1>5. standalone_exit' = exit
  BY <1>1, <1>2, <1>4
<1>6. v = verify_standalone_proof(p)' /\ proof' = p /\ verdict' = v
  BY <1>1, <1>2, ProofSame
<1>7. VerdictInv'
  BY <1>1, <1>2, <1>5, <1>6 DEF VerdictInv
<1>8. ProofInv'
  <2>1. CASE proof = Refusal
    BY <1>1, <2>1 DEF CrossInv, ProofInv
  <2>2. CASE proof # Refusal
    <3>1. PICK s : Settled(s) /\ proof = Proof(Agreement, s)
      BY <1>1, <2>2 DEF CrossInv, ProofInv
    <3>2. PICK a : a = Agreement
      OBVIOUS
    <3>3. Settled(s)'
      BY <1>1, <3>1 DEF Settled, rpc_evidence, settlement_status, evmVars, rpcVars
    <3>4. proof' = Proof(a, s)' /\ Agreement' = a
      BY <1>1, <3>1, <3>2, ProofSame
    <3>5. QED
      BY <1>1, <3>3, <3>4 DEF CrossInv, ProofInv
  <2>3. QED
    BY <2>1, <2>2
<1>9. QED
  BY <1>1, <1>5, <1>7, <1>8 DEF CrossInv, evmVars, rpcVars

LEMMA CrossNextInv ==
    ASSUME EvidenceInv, CrossInv, [CrossNext]_allVars
    PROVE  EvidenceInv' /\ CrossInv'
<1>1. [EvmNext]_evmVars
  BY DEF CrossNext, Evm, EvmNext, VerifyRpc, VerifyDocument, Conclude, VerifyProof, allVars
<1>2. EvidenceInv'
  BY <1>1, EvidenceNextInv
<1>3. CASE Evm
  <2>1. Leaves
    BY <1>3, EvmEnded DEF Evm, Leaves, crossVars, rpcVars
  <2>2. QED
    BY <1>2, <2>1, CrossSame
<1>4. CASE UNCHANGED allVars
  <2>1. Leaves
    BY <1>4 DEF Leaves, allVars, crossVars, evmVars, rpcVars
  <2>2. QED
    BY <1>2, <2>1, CrossSame
<1>5. QED
  BY <1>2, <1>3, <1>4, VerifyRpcInv, VerifyDocumentInv, VerifyProofInv DEF CrossNext

LEMMA CrossTyped == CrossInv => CrossTypeOK
<1> SUFFICES ASSUME CrossInv
             PROVE  CrossTypeOK
  OBVIOUS
<1>1. proof # None => exit # None
  BY NotACode DEF CrossInv, ProofInv
<1>2. proof # None => exit = IF proof.refused THEN 2 ELSE IF proof.is_conformant THEN 0 ELSE 1
  BY DEF CrossInv, ProofInv, ExitCode
<1>3. proof # None => ~(proof.refused /\ proof.is_conformant)
  <2>1. CASE proof = Refusal
    BY <2>1, Refused
  <2>2. ASSUME proof # None, proof # Refusal
        PROVE  ~proof.refused
    <3>1. PICK s : proof = Proof(Agreement, s)
      BY <2>2 DEF CrossInv, ProofInv
    <3>2. QED
      BY <3>1, ProofFields
  <2>3. QED
    BY <2>1, <2>2
<1>4. proof # None => (exit = 0 <=> proof.is_conformant) /\ (exit = 2 <=> proof.refused)
  BY <1>2, <1>3
<1>5. QED
  BY <1>1, <1>4 DEF CrossInv, VerdictInv, CrossTypeOK

LEMMA StandaloneHolds == CrossInv => StandaloneAgrees
<1> SUFFICES ASSUME CrossInv, verdict # None
             PROVE  /\ standalone_exit = exit
                    /\ step = "idle" => ~verdict.is_conformant
                    /\ verdict.valid => proof.failures \subseteq {"self-attested"}
  BY DEF StandaloneAgrees
<1>1. proof # None /\ standalone_exit = exit /\ verdict = verify_standalone_proof(proof)
  BY DEF CrossInv, VerdictInv
<1>2. /\ verdict.is_conformant => step = "done"
      /\ verdict.valid => proof.failures \subseteq {"self-attested"}
  BY <1>1, JudgedAgain
<1>3. QED
  BY <1>1, <1>2

\* What a conformant proof is of.
LEMMA ConformantProof ==
    ASSUME CrossInv, Conformant, NEW a, a = proof.agreement
    PROVE  /\ step = "done" /\ a = Agreement /\ proof = Proof(a, rpc_evidence)
           /\ proof.settlement = rpc_evidence /\ ~proof.refused /\ Proof(a, rpc_evidence).failures = {}
<1>1. proof # None /\ proof.is_conformant /\ proof # Refusal
  BY Refused DEF Conformant
<1>2. PICK s : Settled(s) /\ proof = Proof(Agreement, s)
  BY <1>1 DEF CrossInv, ProofInv
<1>3. PICK g, p : g = Agreement /\ p = proof
  OBVIOUS
<1>4. p = Proof(g, s)
  BY <1>2, <1>3
<1>5. /\ ~p.refused /\ p.agreement = g /\ p.settlement = s
      /\ p.is_conformant <=> p.failures = {}
  BY <1>4, ProofFields
<1>6. p.failures = {} /\ a = g
  BY <1>1, <1>3, <1>5
<1>7. Proof(g, s).failures = {}
  BY <1>4, <1>6
<1>8. s.provenance \in Trusted
  BY <1>7, NoFailure
<1>9. step = "done" /\ s = rpc_evidence
  BY <1>2, <1>8 DEF Settled, Trusted
<1>10. QED
  BY <1>3, <1>4, <1>5, <1>6, <1>7, <1>9

\* What it says of the agreement and of the receipts.
LEMMA ConformantTerms ==
    ASSUME CrossInv, Conformant, NEW a, a = proof.agreement, NEW t, t = lock_event.log.terms
    PROVE  /\ lock_event.log.id = a.id /\ t.amount = a.amount /\ t.token = a.asset
           /\ t.hashlock = a.hashlock
           /\ a.payer_key \in {None, t.payer} /\ a.payee_key \in {None, t.payee}
           /\ claim_event # None => Sha256[claim_event.log.secret] = a.hashlock
           /\ transcript.signed /\ transcript.room = a.room
           /\ anchors.root \in {None, transcript.root}
<1>1. PICK s : s = rpc_evidence
  OBVIOUS
<1>2. Proof(a, s).failures = {}
  BY <1>1, ConformantProof
<1>3. /\ AnchorFailures(a) = {} /\ TranscriptFailures(a) = {} /\ BindingFailures(a, s) = {}
      /\ SecretFailures(a, s) = {} /\ AddressFailures(a, s) = {}
  BY <1>2, NoFailure
<1>4. /\ s.id = lock_event.log.id /\ s.amount = t.amount /\ s.asset = t.token
      /\ s.hashlock = t.hashlock /\ s.payer = t.payer /\ s.payee = t.payee
      /\ s.status = settlement_status
      /\ s.secret = IF claim_event = None THEN None ELSE claim_event.log.secret
  BY <1>1, RpcEvidence
<1>5. lock_event.log.id = a.id /\ t.amount = a.amount /\ t.token = a.asset /\ t.hashlock = a.hashlock
  BY <1>3, <1>4 DEF BindingFailures, Reason
<1>6. a.payer_key \in {None, t.payer} /\ a.payee_key \in {None, t.payee}
  BY <1>3, <1>4 DEF AddressFailures, Reason
<1>7. claim_event # None => Sha256[claim_event.log.secret] = a.hashlock
  BY <1>3, <1>4 DEF SecretFailures, Reason, settlement_status
<1>8. transcript.signed /\ transcript.room = a.room
  BY <1>3 DEF TranscriptFailures, Reason, signatures_verified
<1>9. anchors.root \in {None, transcript.root}
  BY <1>3 DEF AnchorFailures, Reason
<1>10. QED
  BY <1>5, <1>6, <1>7, <1>8, <1>9

LEMMA SettledHolds == EvidenceInv /\ CrossInv => ConformantIsSettled
<1> SUFFICES ASSUME EvidenceInv, CrossInv, Conformant, reorgs = 0
             PROVE  ConformantIsSettled
  BY DEF ConformantIsSettled
<1>1. PICK a, t, s : a = proof.agreement /\ t = lock_event.log.terms /\ s = proof.settlement
  OBVIOUS
<1>2. step = "done" /\ s = rpc_evidence
  BY <1>1, ConformantProof
<1>3. /\ Evidenced.status # "None" /\ Evidenced.terms = t
      /\ settlement_status = "claimed" => Evidenced.secret = claim_event.log.secret
  BY <1>1, <1>2, EvidenceHolds DEF EvidenceInv, Authentic
<1>4. /\ lock_event.log.id = a.id /\ t.amount = a.amount /\ t.token = a.asset
      /\ t.hashlock = a.hashlock
      /\ a.payer_key \in {None, t.payer} /\ a.payee_key \in {None, t.payee}
      /\ claim_event # None => Sha256[claim_event.log.secret] = a.hashlock
      /\ transcript.signed /\ transcript.room = a.room
      /\ anchors.root \in {None, transcript.root}
  BY <1>1, ConformantTerms
<1>5. s.status = "claimed" => Sha256[Evidenced.secret] = a.hashlock
  BY <1>2, <1>3, <1>4, RpcEvidence DEF settlement_status
<1>6. QED
  BY <1>1, <1>2, <1>3, <1>4, <1>5 DEF ConformantIsSettled

LEMMA CrossAlways == CrossSpec => [](EvidenceInv /\ CrossInv)
<1>1. CrossInit => EvidenceInv /\ CrossInv
  BY EvidenceInitInv, CrossInitInv DEF CrossInit
<1>2. EvidenceInv /\ CrossInv /\ [CrossNext]_allVars => (EvidenceInv /\ CrossInv)'
  BY CrossNextInv
<1>3. QED
  BY <1>1, <1>2, PTL DEF CrossSpec

\* The verifier's exit code says what its proof says, and a verdict is of a proof that was made.
THEOREM CrossTypeOKAlways == CrossSpec => []CrossTypeOK
BY CrossTyped, CrossAlways, PTL

\* A conformant proof is of an escrow on the chain that is as agreed, claimed with the agreed
\* secret if at all, and of a signed transcript: for all transcripts, documents, anchors and
\* transactions, and whatever is mined between two RPC calls.
THEOREM ConformantIsSettledAlways == CrossSpec => []ConformantIsSettled
BY SettledHolds, CrossAlways, PTL

\* verify_standalone_proof never judges a proof otherwise than the verifier that made it.
THEOREM StandaloneAgreesAlways == CrossSpec => []StandaloneAgrees
BY StandaloneHolds, CrossAlways, PTL
-----------------------------------------------------------------------------
(* Bundles.  The lines the verifier of a bundle keeps of a transcript: all,  *)
(* if none is blank.                                                         *)

IsKept(f, lines) ==
    f = [k \in 0..Len(lines) |->
             IF k = 0 THEN << >>
             ELSE IF lines[k].text = Blank THEN f[k - 1] ELSE Append(f[k - 1], lines[k])]

LEMMA PrefixOfOneMore ==
    ASSUME NEW S, NEW lines \in Seq(S), NEW k \in 1..Len(lines)
    PROVE  SubSeq(lines, 1, k) = Append(SubSeq(lines, 1, k - 1), lines[k])
<1>1. Len(lines) \in Nat /\ 1 \in 1..Len(lines) /\ k \in 1..Len(lines)
  OBVIOUS
<1>2. SubSeq(lines, 1, k) = SubSeq(lines, 1, k - 1) \o << lines[k] >>
  BY <1>1, SubSeqRecursiveSecond
<1>3. SubSeq(lines, 1, k - 1) \in Seq(S) /\ lines[k] \in S
  BY <1>1
<1>4. PICK s, e : s = SubSeq(lines, 1, k - 1) /\ e = lines[k]
  OBVIOUS
<1>5. s \in Seq(S) /\ e \in S
  BY <1>3, <1>4
<1>6. Append(s, e) = s \o << e >>
  BY <1>5
<1>7. QED
  BY <1>2, <1>4, <1>6

LEMMA NonBlankAll ==
    ASSUME NEW S, NEW lines \in Seq(S), \A k \in DOMAIN lines : lines[k].text # Blank
    PROVE  NonBlank(lines) = lines
<1>1. PICK n : n = Len(lines)
  OBVIOUS
<1>2. n \in Nat /\ DOMAIN lines = 1..n
  BY <1>1
<1> DEFINE parts == [k \in 0..n |-> SubSeq(lines, 1, k)]
<1>3. SubSeq(lines, 1, 0) = << >>
  BY SubSeqEmpty
<1>4. \E f : IsKept(f, lines)
  <2>1. ASSUME NEW k \in 0..n
        PROVE  SubSeq(lines, 1, k) =
                   IF k = 0 THEN << >>
                   ELSE IF lines[k].text = Blank THEN parts[k - 1] ELSE Append(parts[k - 1], lines[k])
    <3>1. CASE k = 0
      BY <1>3, <3>1
    <3>2. CASE k # 0
      <4>1. k \in 1..n /\ k - 1 \in 0..n
        BY <1>2, <3>2
      <4>2. parts[k - 1] = SubSeq(lines, 1, k - 1)
        BY <4>1
      <4>3. SubSeq(lines, 1, k) = Append(SubSeq(lines, 1, k - 1), lines[k])
        <5>1. k \in 1..Len(lines)
          BY <1>1, <4>1
        <5>2. QED
          BY <5>1, PrefixOfOneMore
      <4>4. lines[k].text # Blank
        BY <1>2, <4>1
      <4> HIDE DEF parts
      <4>5. QED
        BY <3>2, <4>2, <4>3, <4>4
    <3>3. QED
      BY <3>1, <3>2
  <2>2. parts = [k \in 0..n |->
                     IF k = 0 THEN << >>
                     ELSE IF lines[k].text = Blank THEN parts[k - 1] ELSE Append(parts[k - 1], lines[k])]
    <3> DEFINE again == [k \in 0..n |->
                     IF k = 0 THEN << >>
                     ELSE IF lines[k].text = Blank THEN parts[k - 1] ELSE Append(parts[k - 1], lines[k])]
    <3>1. ASSUME NEW k \in 0..n
          PROVE  parts[k] = again[k]
      <4>1. parts[k] = SubSeq(lines, 1, k)
        OBVIOUS
      <4>2. again[k] = IF k = 0 THEN << >>
                     ELSE IF lines[k].text = Blank THEN parts[k - 1] ELSE Append(parts[k - 1], lines[k])
        <5> HIDE DEF parts
        <5> QED
          OBVIOUS
      <4> HIDE DEF parts, again
      <4>3. QED
        BY <2>1, <4>1, <4>2
    <3>2. parts = [k \in 0..n |-> parts[k]] /\ again = [k \in 0..n |-> again[k]]
      OBVIOUS
    <3> HIDE DEF parts, again
    <3>3. parts = again
      BY <3>1, <3>2
    <3>4. QED
      BY <3>3 DEF again
  <2> HIDE DEF parts
  <2>3. IsKept(parts, lines)
    BY <1>1, <2>2 DEF IsKept
  <2>4. QED
    BY <2>3
<1>5. PICK f : f = CHOOSE g : IsKept(g, lines)
  OBVIOUS
<1>6. NonBlank(lines) = f[n]
  BY <1>1, <1>5 DEF NonBlank, IsKept
<1>7. f = [k \in 0..n |-> IF k = 0 THEN << >>
                          ELSE IF lines[k].text = Blank THEN f[k - 1] ELSE Append(f[k - 1], lines[k])]
  <2>1. IsKept(f, lines)
    BY <1>4, <1>5
  <2>2. QED
    BY <1>1, <2>1 DEF IsKept
<1>8. f[0] = << >> /\ \A k \in 1..n : f[k] = Append(f[k - 1], lines[k])
  <2>1. f[0] = << >>
    BY <1>2, <1>7
  <2>2. ASSUME NEW k \in 1..n
        PROVE  f[k] = Append(f[k - 1], lines[k])
    <3>1. k \in 0..n /\ k # 0 /\ lines[k].text # Blank
      BY <1>2
    <3>2. f[k] = IF k = 0 THEN << >>
                 ELSE IF lines[k].text = Blank THEN f[k - 1] ELSE Append(f[k - 1], lines[k])
      BY <1>7, <3>1
    <3>3. QED
      BY <3>1, <3>2
  <2>3. QED
    BY <2>1, <2>2
<1> DEFINE Bad == {k \in 0..n : f[k] # SubSeq(lines, 1, k)}
<1>9. Bad = {}
  <2> SUFFICES ASSUME Bad # {}
               PROVE  FALSE
    OBVIOUS
  <2>1. Bad \subseteq Nat
    OBVIOUS
  <2>2. PICK k \in Bad : \A j \in Bad : k <= j
    <3> HIDE DEF Bad
    <3> QED
      BY <2>1, Least
  <2>3. k \in 0..n /\ f[k] # SubSeq(lines, 1, k)
    OBVIOUS
  <2>4. k # 0
    BY <1>3, <1>8, <2>3
  <2>5. k \in 1..n /\ k - 1 \in 0..n /\ ~(k <= k - 1)
    BY <1>2, <2>3, <2>4
  <2>6. k - 1 \notin Bad
    <3> HIDE DEF Bad
    <3> QED
      BY <2>2, <2>5
  <2>7. f[k - 1] = SubSeq(lines, 1, k - 1)
    BY <2>5, <2>6
  <2>8. SubSeq(lines, 1, k) = Append(SubSeq(lines, 1, k - 1), lines[k])
    <3>1. k \in 1..Len(lines)
      BY <1>1, <2>5
    <3>2. QED
      BY <3>1, PrefixOfOneMore
  <2>9. f[k] = Append(f[k - 1], lines[k])
    BY <1>8, <2>5
  <2>10. QED
    BY <2>3, <2>7, <2>8, <2>9
<1>10. f[n] = SubSeq(lines, 1, n)
  BY <1>2, <1>9
<1>11. SubSeq(lines, 1, n) = lines
  BY <1>1, SubSeqFull
<1>12. QED
  BY <1>6, <1>10, <1>11

\* The root of an ordinary transcript is found again.
LEMMA OrdinaryRoot ==
    ASSUME NEW lines \in Seq(FileLines), Ordinary(lines)
    PROVE  recomputed_root(lines) = lines
<1>1. \A k \in DOMAIN lines : lines[k].text # Blank /\ lines[k].end = "lf"
  BY DEF Ordinary
<1>2. NonBlank(lines) = lines
  BY <1>1, NonBlankAll
<1>3. recomputed_root(lines) = [i \in DOMAIN lines |-> [text |-> lines[i].text, end |-> "lf"]]
  BY <1>2 DEF recomputed_root
<1>4. ASSUME NEW i \in DOMAIN lines
      PROVE  lines[i] = [text |-> lines[i].text, end |-> "lf"]
  <2>1. PICK l \in FileLines : l = lines[i]
    OBVIOUS
  <2>2. l = [text |-> l.text, end |-> l.end]
    BY BundleAssumption
  <2>3. l.end = "lf"
    BY <1>1, <2>1
  <2>4. QED
    BY <2>1, <2>2, <2>3
<1>5. lines = [i \in DOMAIN lines |-> lines[i]]
  OBVIOUS
<1>6. QED
  BY <1>3, <1>4, <1>5

\* A receipt of the transaction has the event that was caught in it, and no other one like it.
LEMMA InReceipt ==
    ASSUME NEW log, NEW tx, NEW htlc, NEW id, NEW name, Caught(log, tx, htlc, id, name),
           NEW logs \in Seq(Log), Logged(tx, logs)
    PROVE  /\ ~Unfunded(logs, htlc)
           /\ \E i \in DOMAIN logs : /\ logs[i] = log /\ log.name = name
                                     /\ matching_events(logs, htlc, id, name) = {i}
<1>1. tx.calls \in Seq(Call)
  BY EvmVerifierAssumption DEF Caught
<1>2. PICK seen : /\ Logged(tx, seen) /\ ~Unfunded(seen, htlc)
                  /\ Cardinality(matching_events(seen, htlc, id, name)) = 1
                  /\ \E n \in matching_events(seen, htlc, id, name) : log = seen[n]
  BY DEF Caught
<1>3. seen = logs
  BY <1>1, <1>2, LoggedOnce
<1>4. PICK i \in matching_events(logs, htlc, id, name) : log = logs[i]
  BY <1>2, <1>3
<1>5. i \in DOMAIN logs /\ log.name = name
  BY <1>4 DEF matching_events
<1>6. matching_events(logs, htlc, id, name) = {i}
  <2>1. IsFiniteSet(DOMAIN logs)
    BY FS_Interval
  <2>2. PICK M : M = matching_events(logs, htlc, id, name)
    OBVIOUS
  <2>3. Cardinality(M) = 1 /\ i \in M
    BY <1>2, <1>3, <1>4, <2>2
  <2>4. IsFiniteSet(M)
    BY <2>1, <2>2, FS_Subset DEF matching_events
  <2>5. \E z : M = {z}
    BY <2>3, <2>4, FS_Singleton
  <2>6. QED
    BY <2>2, <2>3, <2>5
<1>7. QED
  BY <1>2, <1>3, <1>4, <1>5, <1>6

\* An event that was caught is found again under its own address and id.
LEMMA FoundAgain ==
    ASSUME NEW log, NEW tx, NEW htlc, NEW id, NEW name \in EventNames, Caught(log, tx, htlc, id, name),
           NEW r, r.ok, r.tx = tx, r.logs \in Seq(Log), Logged(tx, r.logs), tx.to = log.address
    PROVE  /\ HasEvent(r, log.address, log.id, name)
           /\ TheEvent(r, 0, log.address, log.id, name).log = log
<1>1. PICK logs, addr, cid : logs = r.logs /\ addr = log.address /\ cid = log.id
  OBVIOUS
<1>2. logs \in Seq(Log) /\ Logged(tx, logs)
  BY <1>1
<1>3. PICK i \in DOMAIN logs : /\ logs[i] = log /\ log.name = name /\ ~Unfunded(logs, htlc)
                              /\ matching_events(logs, htlc, id, name) = {i}
  BY <1>2, InReceipt
<1>4. EmittedBy(log, htlc) /\ (id # None => cid = id)
  BY <1>1, <1>3 DEF matching_events
<1>5. addr # None /\ cid # None /\ (htlc # None => addr = htlc)
  <2>1. log \in Log
    BY <1>2, <1>3
  <2>2. QED
    BY <1>1, <1>3, <1>4, <2>1, EventsAreNot DEF EmittedBy
<1>6. ~Unfunded(logs, addr)
  BY <1>3, <1>5 DEF Unfunded, EmittedBy
<1>7. matching_events(logs, addr, cid, name) = {i}
  <2>1. i \in matching_events(logs, addr, cid, name)
    BY <1>1, <1>3, <1>4, <1>5 DEF matching_events, EmittedBy
  <2>2. matching_events(logs, addr, cid, name) \subseteq matching_events(logs, htlc, id, name)
    BY <1>4, <1>5 DEF matching_events, EmittedBy
  <2>3. QED
    BY <1>3, <2>1, <2>2
<1>8. Cardinality(matching_events(logs, addr, cid, name)) = 1
  BY <1>7, FS_Singleton
<1>9. HasEvent(r, addr, cid, name)
  BY <1>1, <1>6, <1>8 DEF HasEvent
<1>10. PICK e : e = TheEvent(r, 0, addr, cid, name)
  OBVIOUS
<1>11. e = [log |-> logs[CHOOSE n \in {i} : TRUE], block |-> 0]
  BY <1>1, <1>7, <1>10 DEF TheEvent
<1>12. (CHOOSE n \in {i} : TRUE) = i
  OBVIOUS
<1>13. e.log = logs[i]
  BY <1>11, <1>12
<1>14. QED
  BY <1>1, <1>3, <1>9, <1>10, <1>13

\* What verify_bundle says.
LEMMA BundleSays ==
    ASSUME NEW b, NEW p, p = b.files["proof.json"], NEW v, v = verify_bundle(b),
           NEW says, says = verify_standalone_proof(p)
    PROVE  /\ v.valid <=> /\ manifest_verified(b) /\ says.valid
                          /\ receipts_verified(b) /\ transcript_matches(b)
           /\ v.is_conformant <=> v.valid /\ says.is_conformant
           /\ v.fatal <=> ~manifest_verified(b) \/ ~says.schema
<1>2. PICK w : w = [valid |-> /\ manifest_verified(b) /\ says.valid
                             /\ receipts_verified(b) /\ transcript_matches(b),
                    is_conformant |-> /\ (/\ manifest_verified(b) /\ says.valid
                                          /\ receipts_verified(b) /\ transcript_matches(b))
                                      /\ says.is_conformant,
                    fatal |-> ~manifest_verified(b) \/ ~says.schema]
  OBVIOUS
<1>3. w.valid <=> /\ manifest_verified(b) /\ says.valid
                  /\ receipts_verified(b) /\ transcript_matches(b)
  BY <1>2, Zenon
<1>4. w.is_conformant <=> /\ (/\ manifest_verified(b) /\ says.valid
                              /\ receipts_verified(b) /\ transcript_matches(b))
                          /\ says.is_conformant
  BY <1>2, Zenon
<1>5. w.fatal <=> ~manifest_verified(b) \/ ~says.schema
  BY <1>2, Zenon
<1>6. v = w
  BY <1>2, Zenon DEF verify_bundle
<1>7. QED
  BY <1>3, <1>4, <1>5, <1>6, Zenon

ReceiptInv(r) ==
    /\ r = <<r[1], r[2]>>
    /\ r[2].ok => /\ r[2].tx = r[1] /\ r[2].logs \in Seq(Log)
                  /\ Logged(r[1], r[2].logs)

CopiedInv == /\ transcript \in Transcripts /\ file \in Seq(FileLines) \cup {None}
             /\ copied # None => proof # None /\ copied \in Seq(FileLines)

\* Each receipt is of a transaction of the request, and of the same chain as the proof if
\* nothing went wrong.
ReceiptsInv ==
    /\ receipts # {} => copied # None
    /\ Fetched \subseteq tx_hashes
    /\ \A r \in receipts : ReceiptInv(r)
    /\ \A r, q \in receipts : r[1] = q[1] => r = q
    /\ step = "done" /\ reorgs = 0 /\ ~rpcFailed =>
           \A r \in receipts : \E b \in BlockOf(r[1]) : r[2] = chain[b]

BundledInv ==
    bundle # None =>
        /\ copied # None /\ Fetched = tx_hashes
        /\ bundle.files = [m \in Members |-> bundle.files[m]]
        /\ bundle.digests = [m \in Members |-> bundle.digests[m]]

ResultInv ==
    /\ bundle_exit \in {None, 0, 1, 2}
    /\ result # None =>
           /\ bundle # None /\ result = verify_bundle(bundle)
           /\ bundle_exit = IF result.fatal THEN 2 ELSE IF result.is_conformant THEN 0 ELSE 1

BundleInv == CopiedInv /\ ReceiptsInv /\ BundledInv /\ ResultInv

LEMMA BundleInitInv == BundleInit => BundleInv
<1> SUFFICES ASSUME BundleInit
             PROVE  BundleInv
  OBVIOUS
<1>1. /\ transcript \in Transcripts /\ file = file_of(transcript) /\ copied = None /\ receipts = {}
      /\ bundle = None /\ result = None /\ bundle_exit = None
  BY DEF BundleInit, CrossInit
<1>2. CopiedInv
  BY <1>1, BundleAssumption DEF CopiedInv, file_of
<1>3. ReceiptsInv
  BY <1>1 DEF ReceiptsInv, Fetched
<1>4. QED
  BY <1>1, <1>2, <1>3 DEF BundleInv, BundledInv, ResultInv

\* A step that changes neither the bundle, nor what it is made of once the transcript is copied.
Untouched ==
    /\ UNCHANGED <<transcript, anchors, file, copied, receipts, bundle, result, bundle_exit>>
    /\ copied # None => UNCHANGED <<proof, request, step, rpcFailed>>
    /\ reorgs' = 0 => reorgs = 0 /\ \A i \in DOMAIN chain : i \in DOMAIN chain' /\ chain'[i] = chain[i]

\* The verdict on a bundle is of the bundle and the anchors alone.
LEMMA SameVerdict ==
    ASSUME UNCHANGED anchors, NEW b
    PROVE  verify_bundle(b)' = verify_bundle(b)
BY DEF verify_bundle, verify_standalone_proof, StandaloneAnchors

LEMMA BundleSame ==
    ASSUME BundleInv, Untouched
    PROVE  BundleInv'
<1>1. /\ UNCHANGED <<transcript, anchors, file, copied, receipts, bundle, result, bundle_exit>>
      /\ CopiedInv /\ ReceiptsInv /\ BundledInv /\ ResultInv
  BY DEF Untouched, BundleInv
<1>2. ResultInv'
  <2>1. PICK b, v : b = bundle /\ v = verify_bundle(b)
    OBVIOUS
  <2>2. verify_bundle(b)' = v
    BY <1>1, <2>1, SameVerdict
  <2>3. result # None => result = v
    BY <1>1, <2>1 DEF ResultInv
  <2>4. QED
    BY <1>1, <2>1, <2>2, <2>3 DEF ResultInv
<1>3. CASE copied = None
  <2>1. receipts = {} /\ bundle = None
    BY <1>1, <1>3 DEF ReceiptsInv, BundledInv
  <2>2. ReceiptsInv' /\ BundledInv'
    BY <1>1, <2>1 DEF ReceiptsInv, BundledInv, Fetched
  <2>3. CopiedInv'
    BY <1>1, <1>3 DEF CopiedInv
  <2>4. QED
    BY <1>2, <2>2, <2>3 DEF BundleInv
<1>4. CASE copied # None
  <2>1. UNCHANGED <<proof, request, step, rpcFailed>>
    BY <1>4 DEF Untouched
  <2>2. CopiedInv'
    BY <1>1, <2>1 DEF CopiedInv
  <2>3. UNCHANGED <<tx_hashes, Fetched, Files>>
    BY <1>1, <2>1 DEF tx_hashes, Fetched, Files
  <2>4. BundledInv'
    BY <1>1, <2>3 DEF BundledInv
  <2>5. ReceiptsInv'
    <3>1. /\ receipts' # {} => copied' # None
          /\ Fetched' \subseteq tx_hashes'
          /\ \A r \in receipts' : ReceiptInv(r)
          /\ \A r, q \in receipts' : r[1] = q[1] => r = q
      BY <1>1, <2>3 DEF ReceiptsInv
    <3>2. ASSUME step' = "done", reorgs' = 0, ~rpcFailed', NEW r \in receipts'
          PROVE  \E b \in BlockOf(r[1])' : r[2] = chain'[b]
      <4>1. PICK b \in BlockOf(r[1]) : r[2] = chain[b]
        BY <1>1, <2>1, <3>2 DEF ReceiptsInv, Untouched
      <4>2. b \in DOMAIN chain' /\ chain'[b] = chain[b]
        BY <3>2, <4>1 DEF Untouched, BlockOf
      <4>3. QED
        BY <4>1, <4>2 DEF BlockOf
    <3>3. QED
      BY <3>1, <3>2 DEF ReceiptsInv, ReceiptInv, BlockOf
  <2>6. QED
    BY <1>2, <2>2, <2>4, <2>5 DEF BundleInv
<1>5. QED
  BY <1>3, <1>4

\* A verification that has ended leaves what a bundle is made of alone.
LEMMA CrossUntouched ==
    ASSUME EvidenceInv, CrossInv, BundleInv, [CrossNext]_allVars, UNCHANGED bundleVars
    PROVE  Untouched
<1>1. ChainInv
  BY DEF EvidenceInv, EvmInv
<1>2. UNCHANGED <<transcript, anchors, file, copied, receipts, bundle, result, bundle_exit, reorgs>>
  BY DEF CrossNext, Evm, VerifyRpc, VerifyDocument, Conclude, VerifyProof, Mine, Begin, FetchChainId,
         FetchLock, FetchClaim, FetchRefund, RpcFails, Fail, allVars, crossVars, evmVars, chainVars,
         rpcVars, bundleVars
<1>3. UNCHANGED chain \/ \E tx \in Txs : Mine(tx)
  BY DEF CrossNext, Evm, VerifyRpc, VerifyDocument, Conclude, VerifyProof, Begin, FetchChainId,
         FetchLock, FetchClaim, FetchRefund, RpcFails, Fail, allVars, evmVars, chainVars
<1>4. \A i \in DOMAIN chain : i \in DOMAIN chain' /\ chain'[i] = chain[i]
  BY <1>1, <1>3, MineGrows DEF Grown
<1>5. ASSUME copied # None
      PROVE  UNCHANGED <<proof, request, step, rpcFailed>>
  <2>1. proof # None /\ exit # None
    BY <1>5, NotACode DEF BundleInv, CopiedInv, CrossInv, ProofInv
  <2>2. CASE Evm
    BY <2>1, <2>2, EvmEnded DEF Evm, crossVars, rpcVars
  <2>3. CASE VerifyProof \/ UNCHANGED allVars
    BY <2>3 DEF VerifyProof, allVars, crossVars, evmVars, rpcVars
  <2>4. QED
    BY <2>1, <2>2, <2>3 DEF CrossNext, VerifyRpc, VerifyDocument
<1>6. QED
  BY <1>2, <1>4, <1>5 DEF Untouched

LEMMA ReorganiseUntouched ==
    ASSUME EvidenceInv, Reorganise, UNCHANGED <<crossVars, bundleVars>>
    PROVE  Untouched
<1>1. reorgs \in Nat
  BY EvmVerifierAssumption DEF EvidenceInv, EvmInv, Phases
<1>2. reorgs' # 0
  BY <1>1 DEF Reorganise
<1>3. QED
  BY <1>2 DEF Reorganise, Untouched, crossVars, bundleVars, rpcVars

\* An event that was found, on a chain that drops no blocks, is in a block of its transaction.
LEMMA HashesMined ==
    ASSUME EvidenceInv, step = "done", reorgs = 0, NEW tx \in tx_hashes
    PROVE  BlockOf(tx) # {}
<1>1. tx # None /\ tx \in {request.lock_tx, request.claim_tx, request.refund_tx}
  BY DEF tx_hashes
<1>2. /\ lock_event # None
      /\ request.claim_tx # None => claim_event # None
      /\ request.refund_tx # None => refund_event # None
  BY DEF EvidenceInv, EvmInv, Phases, Kept
<1>3. PICK e \in {lock_event, claim_event, refund_event} :
          e.block \in DOMAIN chain /\ chain[e.block].tx = tx
  <2>1. /\ IsIn(lock_event, "Locked", request.lock_tx)
        /\ request.claim_tx # None => IsIn(claim_event, "Claimed", request.claim_tx)
        /\ request.refund_tx # None => IsIn(refund_event, "Refunded", request.refund_tx)
    BY <1>2 DEF EvidenceInv, EvmInv, Sourced
  <2>2. QED
    BY <1>1, <2>1 DEF IsIn
<1>4. QED
  BY <1>3 DEF BlockOf

\* The receipt of a transaction that is on the chain, or what stands for a missing one.
LEMMA ReceiptFetched ==
    ASSUME EvidenceInv, NEW tx, NEW r \in {ReceiptOf(tx), NoReceipt}
    PROVE  /\ r.ok => r.tx = tx /\ r.logs \in Seq(Log) /\ Logged(tx, r.logs)
           /\ r # NoReceipt => \E b \in BlockOf(tx) : r = chain[b]
           /\ BlockOf(tx) # {} /\ r = ReceiptOf(tx) => \E b \in BlockOf(tx) : r = chain[b]
<1>1. CASE r = NoReceipt /\ (r = ReceiptOf(tx) => BlockOf(tx) = {})
  BY <1>1 DEF NoReceipt
<1>2. CASE r = ReceiptOf(tx) /\ BlockOf(tx) # {}
  <2>1. PICK b \in BlockOf(tx) : r = chain[b]
    BY <1>2 DEF ReceiptOf
  <2>2. b \in DOMAIN chain /\ chain[b].tx = tx
    BY <2>1 DEF BlockOf
  <2>3. r \in Blocks
    BY <2>1, <2>2 DEF EvidenceInv, EvmInv, ChainInv
  <2>4. r.ok => r.tx = tx /\ r.logs \in Seq(Log) /\ Logged(tx, r.logs)
    BY <2>1, <2>2, <2>3 DEF EvidenceInv, ChainLogged, Blocks
  <2>5. QED
    BY <2>1, <2>4
<1>3. QED
  BY <1>1, <1>2 DEF ReceiptOf

LEMMA FetchReceiptEvidence ==
    ASSUME EvidenceInv, NEW tx, FetchReceipt(tx)
    PROVE  EvidenceInv'
<1>1. /\ UNCHANGED <<chain, reorgs, request, step, lock_event, claim_event, refund_event, asked>>
      /\ rpcFailed' = rpcFailed \/ rpcFailed' = TRUE
      /\ ChainInv /\ Phases /\ Sourced /\ Accepting /\ ChainLogged /\ Kept
  BY DEF FetchReceipt, chainVars, EvidenceInv, EvmInv
<1>2. ChainInv'
  BY <1>1, ChainSame
<1>3. Phases'
  BY <1>1 DEF Phases
<1>4. Sourced'
  BY <1>1 DEF Sourced, IsIn, OfTheLock
<1>5. Accepting'
  <2>1. Granted(request)' <=> Granted(request)
    BY <1>1 DEF Granted, Done, BlockOf
  <2>2. QED
    BY <1>1, <2>1 DEF Accepting
<1>6. ChainLogged' /\ Kept'
  BY <1>1, KeptSame DEF ChainLogged
<1>7. QED
  BY <1>2, <1>3, <1>4, <1>5, <1>6 DEF EvidenceInv, EvmInv

LEMMA FetchReceiptBundle ==
    ASSUME EvidenceInv, BundleInv, NEW tx \in tx_hashes \ Fetched, FetchReceipt(tx)
    PROVE  BundleInv'
<1>1. /\ UNCHANGED <<chain, reorgs, request, step, transcript, anchors, proof, file, copied, bundle,
                     result, bundle_exit>>
      /\ copied # None
      /\ CopiedInv /\ ReceiptsInv /\ BundledInv /\ ResultInv
  BY DEF FetchReceipt, chainVars, crossVars, BundleInv
<1>2. PICK r \in {ReceiptOf(tx), NoReceipt} :
          /\ receipts' = receipts \cup {<<tx, r>>}
          /\ (r = ReceiptOf(tx) /\ rpcFailed' = rpcFailed) \/ rpcFailed' = TRUE
  BY DEF FetchReceipt
<1>3. bundle = None
  BY <1>1 DEF BundledInv
<1>4. result = None /\ CopiedInv' /\ BundledInv' /\ ResultInv'
  BY <1>1, <1>3 DEF CopiedInv, BundledInv, ResultInv
<1>5. PICK t : t = <<tx, r>> /\ t[1] = tx /\ t[2] = r
  <2>1. PICK t : t = <<tx, r>>
    OBVIOUS
  <2>2. t[1] = tx /\ t[2] = r
    BY <2>1
  <2>3. QED
    BY <2>1, <2>2
<1>6. receipts' = receipts \cup {t}
  BY <1>2, <1>5
<1>7. ReceiptInv(t)
  <2>1. r.ok => r.tx = tx /\ r.logs \in Seq(Log) /\ Logged(tx, r.logs)
    BY <1>2, ReceiptFetched
  <2>2. QED
    BY <1>5, <2>1 DEF ReceiptInv
<1>8. tx_hashes' = tx_hashes /\ Fetched' = Fetched \cup {tx}
  BY <1>1, <1>5, <1>6 DEF tx_hashes, Fetched
<1>9. \A q \in receipts : q[1] # tx
  BY DEF Fetched
<1>10. /\ Fetched' \subseteq tx_hashes'
       /\ \A q \in receipts' : ReceiptInv(q)
       /\ \A q, p \in receipts' : q[1] = p[1] => q = p
  BY <1>1, <1>5, <1>6, <1>7, <1>8, <1>9 DEF ReceiptsInv
<1>11. ASSUME step' = "done", reorgs' = 0, ~rpcFailed', NEW q \in receipts'
       PROVE  \E b \in BlockOf(q[1]) : q[2] = chain[b]
  <2>1. ~rpcFailed /\ r = ReceiptOf(tx)
    BY <1>2, <1>11
  <2>2. CASE q \in receipts
    BY <1>1, <1>11, <2>1, <2>2 DEF ReceiptsInv
  <2>3. CASE q = t
    <3>1. BlockOf(tx) # {}
      BY <1>1, <1>11, HashesMined
    <3>2. \E b \in BlockOf(tx) : r = chain[b]
      BY <1>2, <2>1, <3>1, ReceiptFetched
    <3>3. QED
      BY <1>5, <2>3, <3>2
  <2>4. QED
    BY <1>6, <2>2, <2>3
<1>12. ReceiptsInv'
  BY <1>1, <1>10, <1>11 DEF ReceiptsInv, ReceiptInv, BlockOf
<1>13. QED
  BY <1>4, <1>12 DEF BundleInv

\* An archive that is packed, or changed, leaves what it was made of alone.
LEMMA ArchiveBundle ==
    ASSUME BundleInv, UNCHANGED <<allVars, file, copied, receipts, result, bundle_exit>>,
           result = None, copied # None, Fetched = tx_hashes,
           NEW f, NEW d, NEW n, NEW c, bundle' = Archive(f, d, n, c),
           f = [m \in Members |-> f[m]], d = [m \in Members |-> d[m]]
    PROVE  BundleInv'
<1>1. CopiedInv /\ ReceiptsInv /\ ResultInv
  BY DEF BundleInv
<1>2. UNCHANGED <<transcript, proof, request, step, chain, reorgs, rpcFailed>>
  BY DEF allVars, evmVars, chainVars, rpcVars, crossVars
<1>3. CopiedInv' /\ ReceiptsInv'
  BY <1>1, <1>2 DEF CopiedInv, ReceiptsInv, ReceiptInv, Fetched, tx_hashes, BlockOf
<1>4. UNCHANGED <<tx_hashes, Fetched>>
  BY <1>2 DEF tx_hashes, Fetched
<1>5. bundle'.files = f /\ bundle'.digests = d
  BY DEF Archive
<1>6. BundledInv'
  BY <1>4, <1>5 DEF BundledInv
<1>7. ResultInv'
  BY <1>1 DEF ResultInv
<1>8. QED
  BY <1>3, <1>6, <1>7 DEF BundleInv

LEMMA PackBundle ==
    ASSUME BundleInv, Pack
    PROVE  BundleInv'
<1>1. /\ UNCHANGED <<allVars, file, copied, receipts, result, bundle_exit>>
      /\ copied # None /\ Fetched = tx_hashes /\ bundle = None
      /\ bundle' = Archive(Files, Files, names_of_proof, FALSE)
  BY DEF Pack
<1>2. PICK f, n : f = Files /\ n = names_of_proof
  OBVIOUS
<1>3. f = [m \in Members |-> f[m]]
  <2> DEFINE Content(m) == CASE m = "transcript.jsonl" -> copied
                             [] m = "receipts.json" -> receipts
                             [] m = "proof.json" -> proof
                             [] m = "report.txt" -> "report"
  <2>1. f = [m \in Members |-> Content(m)]
    BY <1>2 DEF Files
  <2> HIDE DEF Content
  <2>2. QED
    BY <2>1
<1>4. result = None
  BY <1>1 DEF BundleInv, ResultInv
<1>5. QED
  BY <1>1, <1>2, <1>3, <1>4, ArchiveBundle

LEMMA VerifyBundleInv ==
    ASSUME BundleInv, VerifyBundle
    PROVE  BundleInv'
<1>1. /\ UNCHANGED <<allVars, file, copied, receipts, bundle>>
      /\ bundle # None /\ result' = verify_bundle(bundle)
      /\ bundle_exit' = IF result'.fatal THEN 2 ELSE IF result'.is_conformant THEN 0 ELSE 1
      /\ CopiedInv /\ ReceiptsInv /\ BundledInv
  BY DEF VerifyBundle, BundleInv
<1>2. UNCHANGED <<transcript, anchors, proof, request, step, chain, reorgs, rpcFailed>>
  BY <1>1 DEF allVars, evmVars, chainVars, rpcVars, crossVars
<1>3. CopiedInv' /\ ReceiptsInv'
  BY <1>1, <1>2 DEF CopiedInv, ReceiptsInv, ReceiptInv, Fetched, tx_hashes, BlockOf
<1>4. BundledInv'
  <2>1. UNCHANGED <<tx_hashes, Fetched, Files>>
    BY <1>1, <1>2 DEF tx_hashes, Fetched, Files
  <2>2. QED
    BY <1>1, <2>1 DEF BundledInv
<1>5. ResultInv'
  <2>1. PICK b, v : b = bundle /\ v = verify_bundle(b)
    OBVIOUS
  <2>2. verify_bundle(b)' = v /\ bundle' = b /\ result' = v
    BY <1>1, <1>2, <2>1, SameVerdict
  <2>3. bundle_exit' \in {0, 1, 2}
    BY <1>1
  <2>4. QED
    BY <1>1, <2>1, <2>2, <2>3 DEF ResultInv
<1>6. QED
  BY <1>3, <1>4, <1>5 DEF BundleInv

LEMMA CopyAndRewrite ==
    ASSUME BundleInv, CopyTranscript \/ \E lines \in Rewrites : Rewrite(lines)
    PROVE  BundleInv'
<1>1. /\ UNCHANGED <<allVars, receipts, bundle, result, bundle_exit>>
      /\ proof # None /\ copied = None
      /\ CopiedInv /\ ReceiptsInv /\ BundledInv /\ ResultInv
  BY DEF CopyTranscript, Rewrite, BundleInv
<1>2. UNCHANGED <<transcript, proof>>
  BY <1>1 DEF allVars, crossVars
<1>3. CopiedInv'
  BY <1>1, <1>2, BundleAssumption DEF CopyTranscript, Rewrite, CopiedInv
<1>4. receipts = {} /\ bundle = None /\ result = None
  BY <1>1 DEF ReceiptsInv, BundledInv, ResultInv
<1>5. QED
  BY <1>1, <1>3, <1>4 DEF BundleInv, ReceiptsInv, BundledInv, ResultInv, Fetched

LEMMA DamageBundle ==
    ASSUME BundleInv, NEW m \in Members, NEW content, Damage(m, content)
    PROVE  BundleInv'
<1>1. PICK f, d, n : f = bundle.files /\ d = bundle.digests /\ n = bundle.names
  OBVIOUS
<1>2. PICK g, e : g = [f EXCEPT ![m] = content] /\ e = [d EXCEPT ![m] = content]
  OBVIOUS
<1>3. /\ UNCHANGED <<allVars, file, copied, receipts, result, bundle_exit>>
      /\ bundle # None /\ result = None
      /\ \/ bundle' = Archive(g, d, n, TRUE)
         \/ bundle' = Archive(f, e, n, TRUE)
         \/ bundle' = Archive(g, e, n, TRUE)
  BY <1>1, <1>2 DEF Damage
<1>4. /\ copied # None /\ Fetched = tx_hashes
      /\ f = [k \in Members |-> f[k]] /\ d = [k \in Members |-> d[k]]
  BY <1>1, <1>3 DEF BundleInv, BundledInv
<1>5. g = [k \in Members |-> g[k]]
  BY <1>2, <1>4
<1>6. e = [k \in Members |-> e[k]]
  BY <1>2, <1>4
<1>7. QED
  BY <1>3, <1>4, <1>5, <1>6, ArchiveBundle

LEMMA MisnameBundle ==
    ASSUME BundleInv, NEW names, Misname(names)
    PROVE  BundleInv'
<1>1. PICK f, d : f = bundle.files /\ d = bundle.digests
  OBVIOUS
<1>2. /\ UNCHANGED <<allVars, file, copied, receipts, result, bundle_exit>>
      /\ bundle # None /\ result = None /\ bundle' = Archive(f, d, names, TRUE)
  BY <1>1 DEF Misname
<1>3. /\ copied # None /\ Fetched = tx_hashes
      /\ f = [k \in Members |-> f[k]] /\ d = [k \in Members |-> d[k]]
  BY <1>1, <1>2 DEF BundleInv, BundledInv
<1>4. QED
  BY <1>2, <1>3, ArchiveBundle

LEMMA BundleNextInv ==
    ASSUME EvidenceInv, CrossInv, BundleInv, [BundleNext]_<<allVars, bundleVars>>
    PROVE  EvidenceInv' /\ CrossInv' /\ BundleInv'
<1>1. CASE [CrossNext]_allVars /\ UNCHANGED bundleVars
  <2>1. EvidenceInv' /\ CrossInv'
    BY <1>1, CrossNextInv
  <2>2. Untouched
    BY <1>1, CrossUntouched
  <2>3. QED
    BY <2>1, <2>2, BundleSame
<1>2. CASE Reorganise /\ UNCHANGED <<crossVars, bundleVars>>
  <2>1. EvidenceInv'
    BY <1>2, EvidenceNextInv DEF EvmNext
  <2>2. Leaves
    BY <1>2 DEF Reorganise, Leaves, crossVars, rpcVars
  <2>3. Untouched
    BY <1>2, ReorganiseUntouched
  <2>4. QED
    BY <2>1, <2>2, <2>3, CrossSame, BundleSame
<1>3. ASSUME NEW tx \in tx_hashes \ Fetched, FetchReceipt(tx)
      PROVE  EvidenceInv' /\ CrossInv' /\ BundleInv'
  <2>1. Leaves
    BY <1>3 DEF FetchReceipt, Leaves, crossVars
  <2>2. QED
    BY <1>3, <2>1, FetchReceiptEvidence, FetchReceiptBundle, CrossSame
<1>4. CASE CopyTranscript \/ Pack \/ VerifyBundle \/ (\E lines \in Rewrites : Rewrite(lines))
           \/ (\E m \in Members : \E content \in Instead(m) : Damage(m, content))
           \/ \E names \in Names : Misname(names)
  <2>1. UNCHANGED allVars
    BY <1>4 DEF CopyTranscript, Pack, VerifyBundle, Rewrite, Damage, Misname
  <2>2. EvidenceInv' /\ CrossInv'
    BY <2>1, CrossNextInv
  <2>3. BundleInv'
    BY <1>4, CopyAndRewrite, PackBundle, VerifyBundleInv, DamageBundle, MisnameBundle
  <2>4. QED
    BY <2>2, <2>3
<1>5. QED
  BY <1>1, <1>2, <1>3, <1>4 DEF BundleNext

LEMMA BundleAlways == BundleSpec => [](EvidenceInv /\ CrossInv /\ BundleInv)
<1>1. BundleInit => EvidenceInv /\ CrossInv /\ BundleInv
  BY EvidenceInitInv, CrossInitInv, BundleInitInv DEF BundleInit, CrossInit
<1>2. EvidenceInv /\ CrossInv /\ BundleInv /\ [BundleNext]_<<allVars, bundleVars>>
          => (EvidenceInv /\ CrossInv /\ BundleInv)'
  BY BundleNextInv
<1>3. QED
  BY <1>1, <1>2, PTL DEF BundleSpec

\* What is in a bundle whose members are those that were packed.
LEMMA Contents ==
    ASSUME bundle.files = Files
    PROVE  /\ bundle.files["transcript.jsonl"] = copied /\ bundle.files["receipts.json"] = receipts
           /\ bundle.files["proof.json"] = proof
BY DEF Files, Members

\* If the members changed and the digests did not, or the other way round, a digest does not fit.
LEMMA ChangeShows ==
    ASSUME BundledInv, bundle # None, manifest_verified(bundle)
    PROVE  FilesKept <=> DigestsKept
<1>1. PICK f, d : f = bundle.files /\ d = bundle.digests
  OBVIOUS
<1>2. f = [m \in Members |-> f[m]] /\ d = [m \in Members |-> d[m]]
  BY <1>1 DEF BundledInv
<1>3. \A m \in Members : f[m] = d[m]
  BY <1>1 DEF manifest_verified
<1>4. [m \in Members |-> f[m]] = [m \in Members |-> d[m]]
  BY <1>3
<1>5. f = d
  BY <1>2, <1>4
<1>6. QED
  BY <1>1, <1>5 DEF FilesKept, DigestsKept

LEMMA BundleTyped == BundleInv => BundleTypeOK
<1> SUFFICES ASSUME BundleInv
             PROVE  BundleTypeOK
  OBVIOUS
<1>1. ASSUME bundle # None
      PROVE  /\ DOMAIN bundle.files = Members /\ DOMAIN bundle.digests = Members
             /\ Fetched = tx_hashes
  <2>1. PICK f, d : f = bundle.files /\ d = bundle.digests
    OBVIOUS
  <2>2. f = [m \in Members |-> f[m]] /\ d = [m \in Members |-> d[m]] /\ Fetched = tx_hashes
    BY <1>1, <2>1 DEF BundleInv, BundledInv
  <2>3. DOMAIN f = Members /\ DOMAIN d = Members
    BY <2>2
  <2>4. QED
    BY <2>1, <2>2, <2>3
<1>2. QED
  BY <1>1 DEF BundleInv, ResultInv, BundleTypeOK

LEMMA ReceiptIn ==
    ASSUME ReceiptsInv, NEW b, b.files["receipts.json"] = receipts, NEW tx, NEW r, r = receipt_in(b, tx)
    PROVE  /\ r.ok => \E q \in receipts : q[1] = tx /\ q[2] = r
           /\ r.ok => r.tx = tx /\ r.logs \in Seq(Log) /\ Logged(tx, r.logs)
           /\ \A q \in receipts : q[1] = tx => q[2] = r
<1>1. PICK found : found = {q \in receipts : q[1] = tx}
  OBVIOUS
<1>2. CASE found = {}
  BY <1>1, <1>2 DEF receipt_in, NoReceipt
<1>3. CASE found # {}
  <2>1. PICK p : p = CHOOSE q \in found : TRUE
    OBVIOUS
  <2>2. p \in found
    BY <1>3, <2>1
  <2>3. r = p[2]
    BY <1>1, <1>3, <2>1 DEF receipt_in
  <2>4. p \in receipts /\ p[1] = tx
    BY <1>1, <2>2
  <2>5. ReceiptInv(p) /\ \A q \in receipts : q[1] = tx => q = p
    BY <2>4 DEF ReceiptsInv
  <2>6. QED
    BY <2>3, <2>4, <2>5 DEF ReceiptInv
<1>4. QED
  BY <1>2, <1>3

\* If nothing went wrong, the receipt of a hash of the request is the one on the chain.
LEMMA ReceiptOnChain ==
    ASSUME EvidenceInv, ReceiptsInv, Fetched = tx_hashes, NEW b, b.files["receipts.json"] = receipts,
           step = "done", reorgs = 0, ~rpcFailed, NEW tx \in tx_hashes, NEW e \in Event,
           NEW name, IsIn(e, name, tx), NEW r, r = receipt_in(b, tx)
    PROVE  r.ok /\ r.tx = tx /\ r.logs \in Seq(Log) /\ Logged(tx, r.logs)
<1>1. PICK q \in receipts : q[1] = tx
  BY DEF Fetched
<1>2. q[2] = r
  BY <1>1, ReceiptIn
<1>3. PICK i \in BlockOf(tx) : r = chain[i]
  BY <1>1, <1>2 DEF ReceiptsInv
<1>4. i = e.block
  BY <1>3 DEF BlockOf, IsIn, EvidenceInv, EvmInv, ChainInv
<1>5. r.logs # << >>
  BY <1>3, <1>4 DEF IsIn
<1>6. r.ok
  BY <1>3, <1>5 DEF EvidenceInv, ChainLogged, BlockOf
<1>7. QED
  BY <1>6, ReceiptIn

\* The receipts of a conformant proof are found to hold its events.
LEMMA ReceiptsVerified ==
    ASSUME EvidenceInv, CrossInv, Conformant, ReceiptsInv, Fetched = tx_hashes, SentDirectly,
           reorgs = 0, ~rpcFailed, NEW b, b.files["receipts.json"] = receipts,
           b.files["proof.json"] = proof
    PROVE  receipts_verified(b)
<1>1. PICK s : s = proof.settlement
  OBVIOUS
<1>2. step = "done" /\ s = rpc_evidence /\ ~proof.refused
  <2>1. PICK a : a = proof.agreement
    OBVIOUS
  <2>2. QED
    BY <1>1, <2>1, ConformantProof
<1>3. PICK l, t : l = lock_event.log /\ t = lock_event.log.terms
  OBVIOUS
<1>4. /\ s.id = l.id /\ s.htlc = l.address /\ s.amount = t.amount /\ s.hashlock = t.hashlock
      /\ s.lock_tx = request.lock_tx /\ s.claim_tx = request.claim_tx
      /\ s.refund_tx = request.refund_tx
      /\ s.erc20 = IF t.token = Native THEN None ELSE TRUE
  BY <1>2, <1>3, RpcEvidence
<1>5. /\ request.lock_tx # None /\ lock_event \in Event
      /\ request.claim_tx # None => claim_event \in Event
      /\ request.refund_tx # None => refund_event \in Event
      /\ IsIn(lock_event, "Locked", request.lock_tx)
      /\ request.claim_tx # None => IsIn(claim_event, "Claimed", request.claim_tx)
      /\ request.refund_tx # None => IsIn(refund_event, "Refunded", request.refund_tx)
  BY <1>2 DEF EvidenceInv, EvmInv, Phases, Sourced, Kept
<1>6. /\ request.lock_tx \in tx_hashes
      /\ request.claim_tx # None => request.claim_tx \in tx_hashes
      /\ request.refund_tx # None => request.refund_tx \in tx_hashes
  BY <1>2, <1>5 DEF tx_hashes
<1>7. l.address # None /\ l.id # None
  BY <1>3, <1>5, EventsAreNot DEF IsIn, EventNames
<1>8. ReceiptHolds(b, s.lock_tx, "Locked")
  <2>1. PICK tx, r : tx = request.lock_tx /\ r = receipt_in(b, tx)
    OBVIOUS
  <2>2. r.ok /\ r.tx = tx /\ r.logs \in Seq(Log) /\ Logged(tx, r.logs)
    BY <1>2, <1>5, <1>6, <2>1, ReceiptOnChain
  <2>3. PICK htlc, id : Caught(l, tx, htlc, id, "Locked")
    BY <1>3, <1>5, <2>1, EventsAreNot DEF EvidenceInv, Kept
  <2>4. tx.to = l.address
    BY <1>2, <1>3, <2>1 DEF SentDirectly
  <2>5. HasEvent(r, l.address, l.id, "Locked") /\ TheEvent(r, 0, l.address, l.id, "Locked").log = l
    BY <2>2, <2>3, <2>4, FoundAgain DEF EventNames
  <2>6. s.erc20 = TRUE <=> t.token # Native
    BY <1>4, NotACode
  <2>7. QED
    BY <1>1, <1>3, <1>4, <2>1, <2>5, <2>6 DEF ReceiptHolds
<1>9. ASSUME NEW name \in {"Claimed", "Refunded"}, NEW tx \in tx_hashes, NEW e \in Event,
             IsIn(e, name, tx), Caught(e.log, tx, l.address, l.id, name)
      PROVE  ReceiptHolds(b, tx, name)
  <2>1. PICK r, g : r = receipt_in(b, tx) /\ g = e.log
    OBVIOUS
  <2>2. r.ok /\ r.tx = tx /\ r.logs \in Seq(Log) /\ Logged(tx, r.logs)
    BY <1>2, <1>9, <2>1, ReceiptOnChain
  <2>3. tx.to = l.address
    BY <1>7, <1>9 DEF Caught
  <2>4. g.address = l.address /\ g.id = l.id
    BY <1>7, <1>9, <2>1 DEF Caught, matching_events, EmittedBy
  <2>5. HasEvent(r, l.address, l.id, name)
    BY <1>9, <2>1, <2>2, <2>3, <2>4, FoundAgain DEF EventNames
  <2>6. QED
    BY <1>1, <1>4, <1>9, <2>1, <2>5 DEF ReceiptHolds
<1>10. s.claim_tx # None => ReceiptHolds(b, s.claim_tx, "Claimed")
  BY <1>3, <1>4, <1>5, <1>6, <1>9, EventsAreNot DEF EvidenceInv, Kept
<1>11. s.refund_tx # None => ReceiptHolds(b, s.refund_tx, "Refunded")
  BY <1>3, <1>4, <1>5, <1>6, <1>9, EventsAreNot DEF EvidenceInv, Kept
<1>12. QED
  BY <1>1, <1>8, <1>10, <1>11 DEF receipts_verified

\* A bundle that passes with the proof that was packed has a proof that passes.
LEMMA PassesAsDeal ==
    ASSUME CrossInv, BundleInv, result # None, result.is_conformant,
           bundle.files["proof.json"] = proof
    PROVE  /\ exit = 0 /\ Conformant /\ ~proof.refused /\ proof.root = transcript.root
           /\ receipts_verified(bundle) /\ transcript_matches(bundle)
<1>1. result = verify_bundle(bundle) /\ bundle # None /\ CopiedInv /\ BundledInv
  BY DEF BundleInv, ResultInv
<1>2. PICK b, p, v, says : /\ b = bundle /\ p = proof /\ v = verify_bundle(b)
                           /\ says = verify_standalone_proof(p)
  OBVIOUS
<1>3. says.is_conformant /\ says.valid /\ receipts_verified(b) /\ transcript_matches(b)
  BY <1>1, <1>2, BundleSays
<1>4. p # None
  BY <1>1, <1>2 DEF CopiedInv, BundledInv
<1>5. /\ exit = IF ~says.schema THEN 2 ELSE IF says.is_conformant THEN 0 ELSE 1
      /\ p.is_conformant <=> says.is_conformant
      /\ p.refused <=> ~says.schema
  BY <1>2, <1>4, JudgedAgain
<1>6. Conformant
  BY <1>2, <1>3, <1>4, <1>5 DEF Conformant
<1>7. PICK a, s, g : a = Agreement /\ s = rpc_evidence /\ g = p.agreement
  OBVIOUS
<1>8. p = Proof(a, s) /\ ~p.refused
  BY <1>2, <1>6, <1>7, ConformantProof
<1>9. p.root = transcript.root
  BY <1>8, ProofFields
<1>10. QED
  BY <1>2, <1>3, <1>5, <1>6, <1>8, <1>9

LEMMA AgreesHolds == EvidenceInv /\ CrossInv /\ BundleInv => BundleAgrees
<1> SUFFICES ASSUME EvidenceInv, CrossInv, BundleInv, result # None
             PROVE  BundleAgrees
  BY DEF BundleAgrees
<1>1. /\ CopiedInv /\ ReceiptsInv /\ BundledInv
      /\ bundle # None /\ result = verify_bundle(bundle)
      /\ bundle_exit = IF result.fatal THEN 2 ELSE IF result.is_conformant THEN 0 ELSE 1
      /\ copied # None /\ Fetched = tx_hashes
  BY DEF BundleInv, ResultInv, BundledInv
<1>2. PICK b, p, v, says : /\ b = bundle /\ p = proof /\ v = verify_bundle(b)
                           /\ says = verify_standalone_proof(p)
  OBVIOUS
<1>3. ASSUME Undisturbed, transcript.kind = "export", Ordinary(copied), SentDirectly
      PROVE  bundle_exit = exit
  <2>1. /\ reorgs = 0 /\ ~rpcFailed /\ copied = transcript.root
        /\ bundle.files = Files /\ bundle.digests = Files
    BY <1>3 DEF Undisturbed, FilesKept, DigestsKept, file_of
  <2>2. /\ b.files["proof.json"] = p /\ b.files["receipts.json"] = receipts
        /\ b.files["transcript.jsonl"] = copied /\ manifest_verified(b)
    BY <1>2, <2>1, Contents DEF manifest_verified
  <2>3. /\ v.valid <=> says.valid /\ receipts_verified(b) /\ transcript_matches(b)
        /\ v.is_conformant <=> v.valid /\ says.is_conformant
        /\ v.fatal <=> ~says.schema
    BY <1>2, <2>2, BundleSays
  <2>4. p # None
    BY <1>1, <1>2 DEF CopiedInv
  <2>5. /\ exit = IF ~says.schema THEN 2 ELSE IF says.is_conformant THEN 0 ELSE 1
        /\ p.is_conformant <=> says.is_conformant
        /\ p.is_conformant => says.valid
    BY <1>2, <2>4, JudgedAgain
  <2>6. ASSUME says.is_conformant
        PROVE  receipts_verified(b) /\ transcript_matches(b)
    <3>1. Conformant
      BY <1>2, <2>4, <2>5, <2>6 DEF Conformant
    <3>2. receipts_verified(b)
      BY <1>1, <1>2, <1>3, <2>1, <2>2, <3>1, ReceiptsVerified
    <3>3. p.root = transcript.root
      <4>1. PICK a, s : a = Agreement /\ s = rpc_evidence
        OBVIOUS
      <4>2. PICK g : g = p.agreement
        OBVIOUS
      <4>3. p = Proof(a, s)
        BY <1>2, <3>1, <4>1, <4>2, ConformantProof
      <4>4. QED
        BY <4>3, ProofFields
    <3>4. recomputed_root(copied) = copied
      BY <1>1, <1>3, OrdinaryRoot DEF CopiedInv
    <3>5. \A i \in DOMAIN copied : copied[i].text # Undecodable
      BY <1>3 DEF Ordinary
    <3>6. transcript_matches(b)
      BY <2>1, <2>2, <3>3, <3>4, <3>5 DEF transcript_matches
    <3>7. QED
      BY <3>2, <3>6
  <2>7. QED
    BY <1>1, <1>2, <2>3, <2>5, <2>6
<1>4. ASSUME Undisturbed, transcript.kind = "archive"
      PROVE  bundle_exit # 0
  <2> SUFFICES ASSUME bundle_exit = 0
               PROVE  FALSE
    OBVIOUS
  <2>1. bundle.files["proof.json"] = proof /\ bundle.files["transcript.jsonl"] = ArchiveFile
    BY <1>4, Contents DEF Undisturbed, FilesKept, file_of
  <2>2. result.is_conformant
    BY <1>1
  <2>3. ~proof.refused /\ proof.root = transcript.root /\ transcript_matches(bundle)
    BY <2>1, <2>2, PassesAsDeal
  <2>4. recomputed_root(ArchiveFile) \in {transcript.root, << >>}
    BY <2>1, <2>3 DEF transcript_matches
  <2>5. transcript \in Transcripts
    BY <1>1 DEF CopiedInv
  <2>6. QED
    BY <1>4, <2>4, <2>5, ArchiveAssumption
<1>5. ASSUME bundle_exit = 0, bundle.files["proof.json"] = proof
      PROVE  exit = 0
  <2>1. result.is_conformant
    BY <1>1, <1>5
  <2>2. QED
    BY <1>5, <2>1, PassesAsDeal
<1>6. QED
  BY <1>3, <1>4, <1>5 DEF BundleAgrees

\* A root that is found again is of the texts that were copied.
LEMMA SameTexts ==
    ASSUME NEW lines, NEW root \in Seq(FileLines), recomputed_root(lines) \in {root, << >>}
    PROVE  Texts(NonBlank(lines)) \in {Texts(root), << >>}
<1>1. PICK kept : kept = NonBlank(lines)
  OBVIOUS
<1>2. PICK r : r = recomputed_root(lines)
  OBVIOUS
<1>3. r = [i \in DOMAIN kept |-> [text |-> kept[i].text, end |-> "lf"]]
  BY <1>1, <1>2 DEF recomputed_root
<1>4. DOMAIN r = DOMAIN kept /\ \A i \in DOMAIN kept : r[i].text = kept[i].text
  BY <1>3
<1>5. Texts(kept) = Texts(r)
  BY <1>4 DEF Texts
<1>6. r = << >> => Texts(r) = << >>
  <2>1. ASSUME r = << >>
        PROVE  Texts(r) = << >>
    <3>1. DOMAIN r = {}
      BY <2>1
    <3>2. r = [i \in DOMAIN r |-> r[i]]
      BY <1>3
    <3>3. Texts(r) = [i \in DOMAIN r |-> r[i]]
      BY <3>1 DEF Texts
    <3>4. QED
      BY <2>1, <3>2, <3>3
  <2>2. QED
    BY <2>1
<1>7. QED
  BY <1>1, <1>2, <1>5, <1>6

\* A receipt that holds a Locked event holds one of the terms of the settlement.
LEMMA LockHeld ==
    ASSUME NEW b, NEW tx, ReceiptHolds(b, tx, "Locked"), NEW s, s = b.files["proof.json"].settlement,
           s.id # None, NEW logs, logs = receipt_in(b, tx).logs
    PROVE  \E i \in DOMAIN logs : /\ logs[i].name = "Locked" /\ logs[i].id = s.id
                                  /\ logs[i].terms.amount = s.amount
<1>1. PICK r, M, e : /\ r = receipt_in(b, tx) /\ M = matching_events(logs, s.htlc, s.id, "Locked")
                     /\ e = TheEvent(r, 0, s.htlc, s.id, "Locked")
  OBVIOUS
<1>2. Cardinality(M) = 1 /\ e.log.terms.amount = s.amount
  BY <1>1 DEF ReceiptHolds, HasEvent
<1>3. M # {}
  BY <1>2, FS_EmptySet
<1>4. PICK i : i = CHOOSE n \in M : TRUE
  OBVIOUS
<1>5. i \in M
  BY <1>3, <1>4
<1>6. e = [log |-> logs[i], block |-> 0]
  BY <1>1, <1>4 DEF TheEvent
<1>7. e.log = logs[i]
  BY <1>6
<1>8. i \in DOMAIN logs /\ logs[i].id = s.id /\ logs[i].name = "Locked"
  BY <1>1, <1>5 DEF matching_events
<1>9. QED
  BY <1>2, <1>7, <1>8

LEMMA HoldsHolds == EvidenceInv /\ CrossInv /\ BundleInv => BundleHolds
<1> SUFFICES ASSUME EvidenceInv, CrossInv, BundleInv, result # None
             PROVE  BundleHolds
  BY DEF BundleHolds
<1>1. /\ CopiedInv /\ ReceiptsInv /\ BundledInv
      /\ bundle # None /\ result = verify_bundle(bundle)
      /\ bundle_exit = IF result.fatal THEN 2 ELSE IF result.is_conformant THEN 0 ELSE 1
  BY DEF BundleInv, ResultInv
<1>2. PICK b, v : b = bundle /\ v = verify_bundle(b)
  OBVIOUS
<1>3. PICK q, says : q = b.files["proof.json"] /\ says = verify_standalone_proof(q)
  OBVIOUS
<1>4. /\ v.valid <=> /\ manifest_verified(b) /\ says.valid
                     /\ receipts_verified(b) /\ transcript_matches(b)
      /\ v.fatal <=> ~manifest_verified(b) \/ ~says.schema
  BY <1>2, <1>3, BundleSays
<1>5. ASSUME ~(FilesKept <=> DigestsKept)
      PROVE  bundle_exit = 2 /\ ~result.valid
  <2>1. ~manifest_verified(b)
    BY <1>1, <1>2, <1>5, ChangeShows
  <2>2. QED
    BY <1>1, <1>2, <1>4, <2>1
<1>6. ASSUME result.is_conformant, bundle.files["proof.json"] = proof
      PROVE  LET s == proof.settlement
                 logs(tx) == receipt_in(bundle, tx).logs
             IN  /\ Texts(NonBlank(bundle.files["transcript.jsonl"]))
                        \in {Texts(transcript.root), << >>}
                 /\ \E i \in DOMAIN logs(s.lock_tx) :
                        /\ logs(s.lock_tx)[i].name = "Locked"
                        /\ logs(s.lock_tx)[i].id = proof.agreement.id
                        /\ logs(s.lock_tx)[i].terms.amount = proof.agreement.amount
                 /\ s.claim_tx # None /\ bundle.files["receipts.json"] = receipts =>
                        \E i \in DOMAIN logs(s.claim_tx) :
                            /\ logs(s.claim_tx)[i].name = "Claimed"
                            /\ Sha256[logs(s.claim_tx)[i].secret] = proof.agreement.hashlock
  <2>1. /\ Conformant /\ ~proof.refused /\ proof.root = transcript.root
        /\ receipts_verified(b) /\ transcript_matches(b)
    BY <1>2, <1>6, PassesAsDeal
  <2>2. PICK a, s, t : a = proof.agreement /\ s = proof.settlement /\ t = lock_event.log.terms
    OBVIOUS
  <2>3. step = "done" /\ s = rpc_evidence
    BY <2>1, <2>2, ConformantProof
  <2>4. /\ lock_event.log.id = a.id /\ t.amount = a.amount
        /\ claim_event # None => Sha256[claim_event.log.secret] = a.hashlock
    BY <2>1, <2>2, ConformantTerms
  <2>5. Texts(NonBlank(b.files["transcript.jsonl"])) \in {Texts(transcript.root), << >>}
    <3>1. PICK root, lines : root = transcript.root /\ lines = b.files["transcript.jsonl"]
      OBVIOUS
    <3>2. root \in Seq(FileLines)
      BY <1>1, <3>1, BundleAssumption DEF CopiedInv
    <3>3. recomputed_root(lines) \in {root, << >>}
      BY <1>2, <1>6, <2>1, <3>1 DEF transcript_matches
    <3>4. QED
      BY <3>1, <3>2, <3>3, SameTexts
  <2>6. /\ s.provenance = "rpc_receipt_verified" /\ s.id = lock_event.log.id /\ s.amount = t.amount
        /\ s.lock_tx = request.lock_tx /\ s.claim_tx = request.claim_tx
    BY <2>2, <2>3, RpcEvidence
  <2>7. /\ ReceiptHolds(b, s.lock_tx, "Locked")
        /\ s.claim_tx # None => ReceiptHolds(b, s.claim_tx, "Claimed")
    BY <1>2, <1>6, <2>1, <2>2, <2>6 DEF receipts_verified
  <2>8. s.id # None
    <3>1. lock_event \in Event
      BY <2>3 DEF EvidenceInv, EvmInv, Phases
    <3>2. Caught(lock_event.log, request.lock_tx, request.htlc, request.id, "Locked")
      BY <3>1, EventsAreNot DEF EvidenceInv, Kept
    <3>3. lock_event.log.name = "Locked"
      BY <3>2 DEF Caught, matching_events
    <3>4. QED
      BY <2>6, <3>1, <3>3, EventsAreNot DEF EventNames
  <2>9. \E i \in DOMAIN receipt_in(b, s.lock_tx).logs :
            /\ receipt_in(b, s.lock_tx).logs[i].name = "Locked"
            /\ receipt_in(b, s.lock_tx).logs[i].id = a.id
            /\ receipt_in(b, s.lock_tx).logs[i].terms.amount = a.amount
    <3>1. PICK logs, tx : tx = s.lock_tx /\ logs = receipt_in(b, tx).logs
      OBVIOUS
    <3>2. \E i \in DOMAIN logs : /\ logs[i].name = "Locked" /\ logs[i].id = s.id
                                 /\ logs[i].terms.amount = s.amount
      BY <1>2, <1>6, <2>2, <2>7, <2>8, <3>1, LockHeld
    <3>3. s.id = a.id /\ s.amount = a.amount
      BY <2>4, <2>6
    <3>4. QED
      BY <3>1, <3>2, <3>3
  <2>10. s.claim_tx # None /\ b.files["receipts.json"] = receipts =>
             \E i \in DOMAIN receipt_in(b, s.claim_tx).logs :
                 /\ receipt_in(b, s.claim_tx).logs[i].name = "Claimed"
                 /\ Sha256[receipt_in(b, s.claim_tx).logs[i].secret] = a.hashlock
    <3> SUFFICES ASSUME s.claim_tx # None, b.files["receipts.json"] = receipts
                 PROVE  \E i \in DOMAIN receipt_in(b, s.claim_tx).logs :
                            /\ receipt_in(b, s.claim_tx).logs[i].name = "Claimed"
                            /\ Sha256[receipt_in(b, s.claim_tx).logs[i].secret] = a.hashlock
      OBVIOUS
    <3>1. PICK htlc, id, log, tx, r : /\ log = claim_event.log /\ tx = s.claim_tx /\ r = receipt_in(b, tx)
                                      /\ htlc = lock_event.log.address /\ id = lock_event.log.id
      OBVIOUS
    <3>2. claim_event # None
      BY <2>3, <2>6 DEF EvidenceInv, Kept
    <3>3. Caught(log, tx, htlc, id, "Claimed")
      BY <2>6, <3>1, <3>2 DEF EvidenceInv, Kept
    <3>4. r.ok
      BY <2>7, <3>1 DEF ReceiptHolds, HasEvent
    <3>5. r.logs \in Seq(Log) /\ Logged(tx, r.logs)
      BY <1>1, <3>1, <3>4, ReceiptIn
    <3>6. PICK logs : logs = r.logs
      OBVIOUS
    <3>7. \E i \in DOMAIN logs : logs[i] = log /\ log.name = "Claimed"
      BY <3>3, <3>5, <3>6, InReceipt
    <3>8. QED
      BY <2>4, <3>1, <3>2, <3>6, <3>7
  <2>11. QED
    BY <1>2, <2>2, <2>5, <2>9, <2>10
<1>7. QED
  BY <1>5, <1>6 DEF BundleHolds

\* In bundles as well, a conformant proof is of an escrow on the chain that is as agreed: also
\* when the chain drops blocks and the file changes once the proof is made.
THEOREM BundledIsSettledAlways == BundleSpec => []ConformantIsSettled
BY SettledHolds, BundleAlways, PTL

\* An archive has a receipt or an error for every transaction of its proof.
THEOREM BundleTypeOKAlways == BundleSpec => []BundleTypeOK
BY BundleTyped, BundleAlways, PTL

\* The verdicts on a deal, on its stored proof and on the bundle of its export are the same, if
\* nothing that the bundle is made of changed in between and the export's lines are ordinary
\* ones; the bundle of a deal archive never passes, and with the proof that was packed none
\* passes that did not pass as a deal.
THEOREM VerdictsAgreeAlways == BundleSpec => []VerdictsAgree
<1>1. EvidenceInv /\ CrossInv /\ BundleInv => VerdictsAgree
  BY StandaloneHolds, AgreesHolds DEF VerdictsAgree
<1>2. QED
  BY <1>1, BundleAlways, PTL

\* A bundle of which members or digests changed, but not both, is refused, whatever they changed
\* to. With the proof that was packed, whatever else changed while or after it was made, a
\* conformant one holds the texts that were verified, or none, and a receipt of the agreed lock,
\* and with the receipts that were packed one of a claim that opens the agreed hashlock.
THEOREM BundleHoldsAlways == BundleSpec => []BundleHolds
BY HoldsHolds, BundleAlways, PTL

\* The types of the state of the reader, the RPC calls, the verifier and the bundle.
THEOREM EvidenceTypesCorrect == EvidenceSpec => []TypesOK
<1>1. EvidenceInv /\ CrossInv /\ BundleInv => EvmTypeOK /\ CrossTypeOK /\ BundleTypeOK
  BY EvmTyped, CrossTyped, BundleTyped DEF EvidenceInv
<1>2. QED
  BY <1>1, BundleAlways, ReadTypeOKAlways, PTL DEF EvidenceSpec, TypesOK
=============================================================================
