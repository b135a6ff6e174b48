----------------------------- MODULE WalletKinds ------------------------------
(* crates/core/src/parser/kind{7374,7375,7376,9321,9735,10019,17375}.rs and   *)
(* types/proof.rs: the Cashu wallet's events and zaps, in the form of         *)
(* NoteKinds. Amounts are scalars that are always written and are left out.   *)
EXTENDS Article

CONSTANTS
  TokenOf,   \* TokenContent::from_json: [mint, proofs, del]
  ProofOf,   \* Proof::from_json: [id, dleq, witness, locked, p2pk]
  ZapOf,     \* ZapRequest::from_json: [kind, pubkey, content, tags, signature]
  PublicOf,  \* derive_p2pk_public_key
  LongKey    \* the strings of at least 32 bytes

Has(tags, name) == Named(tags, name, 2) # <<>>

-----------------------------------------------------------------------------
(* Proof::to_offset: what the JSON left out is not written. A DLEQ proof is   *)
(* the Option r, a witness the table it is written as and its signatures.     *)
DleqRow(d) == Row("DLEQProof", {"e", "s"} \cup When(d.r # <<>>, {"r"}), <<>>)

WitnessRow(w) ==
  Row(w.table, When(w.table = "WitnessString", {"value"}) \cup When(w.table = "HTLCWitness", {"preimage"})
                 \cup When(w.signed, {"signatures"}), <<>>)

ProofRow(p) ==
  UnionRow("Proof", Written(p, {"amount", "secret", "c", "version"}, {"id", "dleq", "witness"}),
           Kids([dleq |-> {DleqRow(d) : d \in Rows(p.dleq)},
                 witness |-> {WitnessRow(w) : w \in Rows(p.witness)}]),
           IF p.witness = <<>> THEN "NONE" ELSE p.witness[1].table)

-----------------------------------------------------------------------------
(* The wallet's contents are encrypted to its owner. Content that reads as    *)
(* plaintext already is taken as it stands; else a configured signer has to   *)
(* decrypt it, and only a parser without a signer goes on with what is there. *)
PlainOrRaw(readable, event, signer) ==
  IF Decrypts(signer, "nip44", event.content) THEN <<PlainOf[event.content]>> ELSE <<event.content>>

Plaintext(readable, event, signer) ==
  IF event.content \in readable \/ signer = "none" THEN <<event.content>>
  ELSE IF Decrypts(signer, "nip44", event.content) THEN <<PlainOf[event.content]>>
  ELSE <<>>

\* Template::new(kind, nip44_encrypt("", content), tags), then sign_template.
SealAndSign(template, content, signer) ==
  IF signer # "ok" THEN Err("Crypto")
  ELSE Sign([template EXCEPT !.content = Encrypted("nip44", content)], signer)

-----------------------------------------------------------------------------
(* Kind 7374: a mint quote. The last mint tag counts, an empty one erases it. *)
Parse7374(event, signer) ==
  LET mint == LastOf(TagValues(event.tags, "mint"))
      quote == Plaintext({}, event, signer)
  IN  IF mint \in {<<>>, <<"">>} THEN Err("Other")
      ELSE IF event.content = "" THEN Err("InvalidContent")
      ELSE IF quote = <<>> THEN Err("Crypto")
      ELSE Ok([quote_id |-> quote[1], mint_url |-> mint[1]], <<>>, {})

Prepare7374(template, signer) ==
  IF ~Has(template.tags, "mint") THEN Err("Other") ELSE SealAndSign(template, template.content, signer)

Build7374(p) == Row("Kind7374Parsed", {"quote_id", "mint_url", "expiration"}, <<>>)

-----------------------------------------------------------------------------
(* Kind 7375: unspent proofs.                                                 *)
Parse7375(event, signer) ==
  LET plain == Plaintext(DOMAIN TokenOf, event, signer)
  IN  IF plain = <<>> THEN Err("Crypto")
      ELSE IF plain[1] \notin DOMAIN TokenOf THEN Err("InvalidContent")
      ELSE LET token == TokenOf[plain[1]]
           IN  Ok([mint_url |-> token.mint, proofs |-> token.proofs, deleted_ids |-> token.del,
                   decrypted |-> TRUE], <<>>, {})

Prepare7375(template, signer) ==
  IF template.content \notin DOMAIN TokenOf \/ TokenOf[template.content].proofs = <<>> THEN Err("Other")
  ELSE SealAndSign(template, template.content, signer)

Build7375(p) ==
  Row("Kind7375Parsed", Written(p, {"mint_url", "proofs", "decrypted"}, {"deleted_ids"}),
      Kids([proofs |-> {ProofRow(x) : x \in Rows(p.proofs)}]))

-----------------------------------------------------------------------------
(* Kind 7376: spending history. Redeemed events are named in the clear and    *)
(* asked for, the others stand in the encrypted tags.                         *)
EventsMarked(tags, marker) ==
  Entry(SelectSeq(Named(tags, "e", 4), LAMBDA t : t[4] = marker), 2)

Parse7376(event, signer) ==
  LET redeemed == EventsMarked(event.tags, "redeemed")
      plain == Plaintext(DOMAIN TagArraysOf, event, signer)
      asked == [i \in DOMAIN redeemed |-> [AskIds({redeemed[i]}, {}) EXCEPT !.kinds = {7375}]]
  IN  IF plain = <<>> THEN Err("Crypto")
      ELSE IF plain[1] \notin DOMAIN TagArraysOf THEN Err("InvalidContent")
      ELSE LET tags == TagArraysOf[plain[1]]
               pairs == SelectSeq(tags, LAMBDA t : Len(t) >= 2)
           IN  Ok([direction |-> Or(LastOf(TagValues(tags, "direction")), <<"">>)[1],
                   created_events |-> EventsMarked(tags, "created"),
                   destroyed_events |-> EventsMarked(tags, "destroyed"),
                   redeemed_events |-> redeemed \o EventsMarked(tags, "redeemed"),
                   tags |-> pairs, decrypted |-> TRUE], asked, Rows(asked))

Prepare7376Loosely(template, signer) ==
  IF template.content \notin DOMAIN TagArraysOf \/ ~Has(TagArraysOf[template.content], "amount")
  THEN Err("Other")
  ELSE SealAndSign(template, Reserialised(template.content), signer)

Prepare7376(template, signer) ==
  IF template.content \notin DOMAIN TagArraysOf THEN Err("Other")
  ELSE LET tags == TagArraysOf[template.content]
       IN  IF \/ Rows(TagValues(tags, "direction")) \notin {{"in"}, {"out"}, {"in", "out"}}
              \/ ~Has(tags, "amount")
           THEN Err("Other")
           ELSE SealAndSign(template, Reserialised(template.content), signer)

HistoryTagRow(t) ==
  Row("HistoryTag", {"name", "value"} \cup When(Len(t) >= 3, {"relay"}) \cup When(Len(t) >= 4, {"marker"}), <<>>)

Build7376(p) ==
  Row("Kind7376Parsed",
      Written(p, {"direction", "amount", "decrypted"},
              {"created_events", "destroyed_events", "redeemed_events", "tags"}),
      Kids([tags |-> {HistoryTagRow(t) : t \in Rows(p.tags)}]))

-----------------------------------------------------------------------------
(* Kind 9321: a nutzap. A proof that does not parse is skipped.               *)
Parse9321(event) ==
  LET mint == TagValue(event.tags, "u")
      to == TagValue(event.tags, "p")
      about == TagValue(event.tags, "e")
      read == SelectSeq(TagValues(event.tags, "proof"), LAMBDA s : s \in DOMAIN ProofOf)
      proofs == [i \in DOMAIN read |-> ProofOf[read[i]]]
      keys == SelectSeq(proofs, LAMBDA p : p.locked /\ p.p2pk # <<>>)
      asked == <<AskProfile(event.pubkey, {}), AskProfile(to[1], {}),
                 [Ask EXCEPT !.authors = {to[1]}, !.kinds = {7376}, !.tags = {event.id}, !.limit = 1]>>
               \o [i \in DOMAIN about |-> [AskIds({about[i]}, {}) EXCEPT !.kinds = {1}]]
  IN  IF ~Has(event.tags, "proof") \/ mint = <<>> \/ to = <<>> THEN Err("Other")
      ELSE Ok([mint_url |-> mint[1], recipient |-> to[1], event_id |-> about, proofs |-> proofs,
               comment |-> IF event.content = "" THEN <<>> ELSE <<event.content>>,
               is_p2pk_locked |-> \E p \in Rows(proofs) : p.locked,
               p2pk_pubkey |-> IF keys = <<>> THEN <<>> ELSE keys[1].p2pk],
              asked, DeduplicateRequests(asked))

Prepare9321(template, signer) ==
  IF \E name \in {"proof", "u", "p"} : ~Has(template.tags, name) THEN Err("Other")
  ELSE Sign(template, signer)

Build9321Sparse(p) ==
  Row("Kind9321Parsed",
      Written(p, {"id", "amount", "recipient", "sender", "mint_url", "redeemed", "is_p2pk_locked"},
              {"event_id", "comment", "p2pk_pubkey", "proofs"}),
      Kids([proofs |-> {ProofRow(x) : x \in Rows(p.proofs)}]))

Build9321(p) ==
  Row("Kind9321Parsed",
      Written(p, {"id", "amount", "recipient", "sender", "mint_url", "redeemed", "proofs", "is_p2pk_locked"},
              {"event_id", "comment", "p2pk_pubkey"}),
      Kids([proofs |-> {ProofRow(x) : x \in Rows(p.proofs)}]))

-----------------------------------------------------------------------------
(* Kind 9735: a zap receipt, valid when it agrees with the request it quotes. *)
FirstTag(tags, name) == FirstOf(Named(tags, name, 1))

\* Of the recipient a short tag passes, of the event and the address it does not.
ZapValid(to, about, address, request) ==
  LET p == FirstTag(request.tags, "p")
      e == FirstTag(request.tags, "e")
      a == FirstTag(request.tags, "a")
  IN  /\ p # <<>> /\ (Len(p[1]) >= 2 => p[1][2] = to)
      /\ about # <<>> => e # <<>> /\ Len(e[1]) >= 2 /\ e[1][2] = about[1]
      /\ address # <<>> => a # <<>> /\ Len(a[1]) >= 2 /\ a[1][2] = address[1]

ZapWellFormed(s) == s \in DOMAIN ZapOf /\ ZapOf[s].kind = 9734 /\ ZapOf[s].tags # <<>>

Parse9735(event) ==
  LET Value(name) == LastOf(TagValues(event.tags, name))
      to == Value("p")
      description == Value("description")
      request == ZapOf[description[1]]
      relays == FirstTag(request.tags, "relays")
      asked == <<AskProfile(event.pubkey, {}),
                 [AskProfile(event.pubkey, IF relays = <<>> THEN {} ELSE Rows(Tail(relays[1])))
                    EXCEPT !.limit = 1]>>
  IN  IF to = <<>> \/ Value("bolt11") = <<>> \/ description = <<>> THEN Err("Other")
      ELSE IF ~ZapWellFormed(description[1]) THEN Err("Other")
      ELSE Ok([recipient |-> to[1], sender |-> Or(Value("P"), <<request.pubkey>>)[1],
               preimage |-> Value("preimage"), event |-> Value("e"), event_coordinate |-> Value("a"),
               valid |-> ZapValid(to[1], Value("e"), Value("a"), request), description |-> request],
              asked, DeduplicateRequests(asked))

\* The request moves from the content to a tag; the receipt's own tags are not looked at.
Prepare9735(template, signer) ==
  IF \/ ~ZapWellFormed(template.content)
     \/ \E name \in {"p", "amount"} : ~Has(ZapOf[template.content].tags, name)
  THEN Err("Other")
  ELSE Sign([template EXCEPT !.tags = Append(@, <<"description", Reserialised(template.content)>>),
                             !.content = ""], signer)

Build9735(p) ==
  Row("Kind9735Parsed",
      Written(p, {"id", "amount", "content", "bolt11", "sender", "recipient", "timestamp", "valid", "description"},
              {"preimage", "event", "event_coordinate"}),
      [description |->
         {Row("ZapRequest", {"kind", "pubkey", "content", "tags"} \cup When(p.description.signature # <<>>, {"signature"}),
              [tags |-> {StringVecRow}])}])

-----------------------------------------------------------------------------
(* Kinds 10019 and 17375: what a nutzap has to look like, and the wallet.     *)
Parse10019(event) ==
  LET mints == Named(event.tags, "mint", 2)
      key == LastOf(TagValues(event.tags, "pubkey"))
  IN  IF mints = <<>> \/ key = <<>> THEN Err("Other")
      ELSE Ok([trusted_mints |-> mints, p2pk_pubkey |-> key, read_relays |-> TagValues(event.tags, "relay")],
              <<>>, {})

Prepare10019(template, signer) ==
  IF \E name \in {"mint", "pubkey"} : ~Has(template.tags, name) THEN Err("Other") ELSE Sign(template, signer)

Build10019(p) ==
  Row("Kind10019Parsed", Written(p, {"trusted_mints"}, {"p2pk_pubkey", "read_relays"}),
      Kids([trusted_mints |-> {Row("MintInfo", {"url", "base_units"}, <<>>)}]))

\* Content that is no list of tags leaves a wallet with the mints of the event's own tags.
Parse17375(event, signer) ==
  LET plain == Plaintext(DOMAIN TagArraysOf, event, signer)
      read == plain # <<>> /\ plain[1] \in DOMAIN TagArraysOf
      tags == IF read THEN TagArraysOf[plain[1]] ELSE <<>>
      inside == TagValues(tags, "mint")
      more == FoldLeft(LAMBDA known, m : IF m \in Rows(inside \o known) THEN known ELSE Append(known, m),
                       <<>>, TagValues(event.tags, "mint"))
      keys == TagValues(tags, "privkey")
  IN  IF plain = <<>> THEN Err("Crypto")
      ELSE Ok([mints |-> inside \o more, p2pk_priv_key |-> LastOf(keys),
               p2pk_pub_key |-> LET good == SelectSeq(keys, LAMBDA k : k \in DOMAIN PublicOf)
                                IN  Through(PublicOf, LastOf(good)),
               decrypted |-> read], <<>>, {})

Prepare17375(template, signer) ==
  IF template.content \notin DOMAIN TagArraysOf THEN Err("Other")
  ELSE LET tags == TagArraysOf[template.content]
       IN  IF \/ ~Has(tags, "mint") \/ ~Has(tags, "privkey")
              \/ ~(Rows(TagValues(tags, "privkey")) \subseteq LongKey)
           THEN Err("Other")
           ELSE SealAndSign(template, template.content, signer)

Build17375(p) ==
  Row("Kind17375Parsed", Written(p, {"mints", "decrypted"}, {"p2pk_priv_key", "p2pk_pub_key"}), <<>>)
=============================================================================
