------------------------------ MODULE Transcript ------------------------------
(***************************************************************************)
(* What the cross verifier reads in a room's export (parse_export_lines in *)
(* cross_verify.py): it goes through the lines once, then correlates each  *)
(* accept with the offer it refers to, and selects the one agreement the   *)
(* caller asks for.                                                        *)
(*                                                                         *)
(* A line is a record with the status verify_signed_record gives it, its   *)
(* sender and its text, or JSON of another kind, or not JSON.  A text is a *)
(* sequence of pieces: frames that stand alone, in a code fence or inline, *)
(* and prose.  The contract id is a hash of offer and accept, and stands   *)
(* for the two.                                                            *)
(***************************************************************************)
EXTENDS Naturals, Sequences, SequencesExt, FiniteSets

CONSTANTS
    Lines,    \* lines of an export
    Targets,  \* values of the expected contract id, Null among them
    Null,
    MaxLines  \* bound on the export

ASSUME TranscriptAssumption == MaxLines \in Nat

VARIABLES
    read,              \* history: the lines read so far
    offers_by_id,      \* the offer of each id, a partial function: a set of <<id, offer>>
    accepts_list,      \* accepts in the order of their lines
    frames_by_contract, \* set of <<contract id, type>>
    signatures_ok,
    selection          \* what was selected, or Null while lines are read

transcriptVars == <<read, offers_by_id, accepts_list, frames_by_contract, signatures_ok, selection>>

-----------------------------------------------------------------------------

\* extract_tclk_frame_from_text: a text that is one frame, else the first frame in a
\* code fence, else the first inline.
extract(text) ==
    LET at(form) == {i \in DOMAIN text : text[i].form = form}
        first(form) == text[CHOOSE i \in at(form) : \A j \in at(form) : i <= j].frame
    IN  IF Len(text) = 1 /\ at("bare") # {} THEN first("bare")
        ELSE IF at("fenced") # {} THEN first("fenced")
        ELSE IF at("inline") # {} THEN first("inline")
        ELSE Null

ContractId(offer, accept) == [offer |-> offer, accept |-> [accept EXCEPT !.contract = Null]]

\* Mutant: an accept is of the latest offer, whatever it refers to.
latest_offer(accept) == {o[2] : o \in offers_by_id}

offers_of(accept) == {o[2] : o \in {p \in offers_by_id : p[1] = accept.ref}}

Stages == {"lock", "reveal", "claim", "receipt", "refund", "cancel"}

signatures_after(line) == signatures_ok /\ (line.json => line.status = "VALID")

offers_with(offer) == {o \in offers_by_id : o[1] # offer.id} \cup {<<offer.id, offer>>}

Ingest(line, frame) ==
    /\ offers_by_id' = IF frame # Null /\ frame.type = "offer" THEN offers_with(frame) ELSE offers_by_id
    /\ accepts_list' = IF frame # Null /\ frame.type = "accept"
                       THEN Append(accepts_list, frame) ELSE accepts_list
    /\ frames_by_contract' = IF frame # Null /\ frame.type \in Stages \cup {"accept"} /\ frame.contract # Null
                             THEN frames_by_contract \cup {<<frame.contract, frame.type>>}
                             ELSE frames_by_contract
    /\ signatures_ok' = signatures_after(line)

Read(line) ==
    /\ selection = Null /\ Len(read) < MaxLines
    /\ line.json => line.object
    /\ read' = Append(read, line)
    /\ Ingest(line, IF line.json THEN extract(line.text) ELSE Null)
    /\ UNCHANGED selection

\* JSON that is no object, or whose text is no string, ends the parse with an exception.
Raise(line) ==
    /\ selection = Null
    /\ line.json /\ ~line.object
    /\ selection' = [found |-> FALSE, target |-> Null]
    /\ UNCHANGED <<read, offers_by_id, accepts_list, frames_by_contract, signatures_ok>>

-----------------------------------------------------------------------------

\* The agreement of an offer and an accept of it.
AgreementOf(offer, accept) ==
    LET paying == IF offer.role = "payer" THEN offer ELSE accept
        paid == IF offer.role = "payer" THEN accept ELSE offer
    IN  [contract_id |-> IF accept.contract # Null THEN accept.contract ELSE ContractId(offer, accept),
         computed |-> ContractId(offer, accept),
         payer_did |-> paying.from, payee_did |-> paid.from, terms |-> offer.terms,
         hashlock |-> accept.statement, payer_key |-> paying.key, payee_key |-> paid.key,
         offer |-> offer, accept |-> accept]

\* Positions of accepts that have an offer.
candidates == {i \in DOMAIN accepts_list : offers_of(accepts_list[i]) # {}}
candidate(i) == AgreementOf(CHOOSE o \in offers_of(accepts_list[i]) : TRUE, accepts_list[i])

matched(target) ==
    {i \in candidates : \/ target = Null
                        \/ target \in {candidate(i).contract_id, candidate(i).computed}}

\* Mutant: the first of several agreements is selected.
SelectFirst(target) ==
    /\ selection = Null
    /\ selection' = IF matched(target) = {} THEN [found |-> FALSE, target |-> target]
                    ELSE LET a == candidate(CHOOSE i \in matched(target) : \A j \in matched(target) : i <= j)
                         IN  [found |-> TRUE, target |-> target, agreement |-> a,
                              stages |-> {"offer", "accept"}, authentic |-> signatures_ok]
    /\ UNCHANGED <<read, offers_by_id, accepts_list, frames_by_contract, signatures_ok>>

\* No match and several matches both raise.
Select(target) ==
    /\ selection = Null
    /\ selection' =
           IF Cardinality(matched(target)) # 1 THEN [found |-> FALSE, target |-> target]
           ELSE LET a == candidate(CHOOSE i \in matched(target) : TRUE)
                IN  [found |-> TRUE, target |-> target, agreement |-> a,
                     stages |-> {"offer", "accept"}
                                \cup {f[2] : f \in {g \in frames_by_contract : g[1] = a.contract_id}},
                     authentic |-> signatures_ok]
    /\ UNCHANGED <<read, offers_by_id, accepts_list, frames_by_contract, signatures_ok>>

ReadInit == /\ read = << >> /\ offers_by_id = {} /\ accepts_list = << >>
            /\ frames_by_contract = {} /\ signatures_ok = TRUE /\ selection = Null

ReadNext == \/ \E line \in Lines : Read(line) \/ Raise(line)
            \/ \E target \in Targets : Select(target)

ReadSpec == ReadInit /\ [][ReadNext]_transcriptVars

-----------------------------------------------------------------------------
(* Properties *)

FramesRead == {extract(read[i].text) : i \in {k \in DOMAIN read : read[k].json}} \ {Null}
OffersRead == {f \in FramesRead : f.type = "offer"}
Found == selection # Null /\ selection.found

\* Types of the state; at most one offer per id, and every accept a line of the export.
ReadTypeOK ==
    /\ read \in Seq(Lines) /\ signatures_ok \in BOOLEAN
    /\ \A o, p \in offers_by_id : o[1] = p[1] => o = p
    /\ \A o \in offers_by_id : o[2] \in OffersRead
    /\ Len(accepts_list) <= Len(read)

\* An agreement is that of two frames of the export that belong together, with the parties
\* in the roles the offer gives them, and it has the id that was asked for; it passes
\* as signed only if every record of the transcript is.
AgreementTraced ==
    Found => LET a == selection.agreement
             IN  /\ selection.authentic =>
                        \A i \in DOMAIN read : read[i].json => read[i].status = "VALID"
                 /\ a.offer \in OffersRead /\ a.accept \in FramesRead
                 /\ a.accept.ref = a.offer.id
                 /\ {a.payer_did, a.payee_did} = {a.offer.from, a.accept.from}
                 /\ IF a.offer.role = "payer" THEN a.payer_did = a.offer.from
                    ELSE a.payee_did = a.offer.from
                 /\ selection.target \in {Null, a.contract_id, a.computed}

\* A transcript with two agreements that both fit never yields one of them.
NeverGuesses ==
    Found => \A i, j \in DOMAIN read :
        LET f == extract(read[i].text)  g == extract(read[j].text)
            fits(h) == /\ h.ref \in {o.id : o \in OffersRead}
                       /\ selection.target \in {Null, h.contract}
        IN  /\ i # j /\ read[i].json /\ read[j].json /\ Null \notin {f, g}
            /\ f.type = "accept" /\ g.type = "accept"
            => ~(fits(f) /\ fits(g))
=============================================================================
