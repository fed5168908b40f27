-------------------------- MODULE ConfigPublication --------------------------
(***************************************************************************)
(* From the organizer's configuration to the participants': the parsers of *)
(* validation.ts accept a document, sanitizeAdminConfig makes the public   *)
(* one. A document is a function from the entities it nests (a spot with   *)
(* one condition, a reward with one unlock condition) to their fields, and *)
(* a field has the kind of its value. What entities say of each other is   *)
(* in links, which publication leaves as it is.                            *)
(***************************************************************************)
EXTENDS Naturals, FiniteSets, Relation

CONSTANT ConditionTypes  \* the types of the spot's condition

ASSUME TypesAssumption == ConditionTypes \subseteq {"qr", "passcode", "gps", "nfc", "custom"}

VARIABLES
  admin,      \* the organizer's document
  links,      \* what its entities say of each other
  public,     \* the document that was published, or the organizer's
  accepted    \* "unread", "refused", or "published"

publicationVars == <<admin, links, public, accepted>>

Missing == {"absent", "undefined"}
Strings == {"text", "empty"}
Maps == {"map", "mapWithToken", "mapWithPassword"}  \* string values; a private key
Numbers == {"negative", "zero", "fraction", "number", "excess"}
Kinds ==
  Missing \union Strings \union Maps \union Numbers \union {"list", "listOfKnown", "boolean", "known"}

PrivateKeys == {"staffPasscode", "serverMetadata", "inventory", "secretToken", "secretParams",
                "digitalContentUrl", "code", "tagId"}

IsPrivateKey(key) == key \in PrivateKeys \union {"password"}

-----------------------------------------------------------------------------
(* The kinds of a field that a parser accepts, entity by entity.           *)

RequiredString == {"text", "known"}
OptionalString == Missing \union Strings \union {"known"}
LocalizedText == Strings \union Maps \union {"known"}
OptionalText == LocalizedText \union {"absent"}
Whole == {"zero", "number", "excess"}
Anything == Kinds
Never == {"absent"}
OptionalRecord == Missing \union Maps
ReadAsKnown == {"known", "listOfKnown"}  \* String(["server_claim"]) is "server_claim"

ConfigFields(isPublic) ==
  [id |-> RequiredString, version |-> RequiredString, title |-> LocalizedText,
   description |-> OptionalText, theme |-> OptionalRecord, completion |-> OptionalRecord,
   availability |-> OptionalRecord, metadata |-> Anything,
   publicMetadata |-> IF isPublic THEN Anything ELSE OptionalRecord,
   serverEndpoint |-> OptionalString,
   staffPasscode |-> IF isPublic THEN Never ELSE OptionalString,
   serverMetadata |-> IF isPublic THEN Never ELSE OptionalRecord,
   inventory |-> IF isPublic THEN Never ELSE Missing \union {"map"},
   inventoryMode |-> IF isPublic THEN Never ELSE Missing \union {"known"},
   spots |-> {"list"}, rewards |-> {"list"}]

ThemeFields ==
  [primaryColor |-> RequiredString, backgroundColor |-> OptionalString, slotShape |-> {"known"},
   gridColumns |-> {"number", "excess"},
   unclaimedOpacity |-> {"absent", "zero", "fraction", "number"}, password |-> Anything]

SpotFields ==
  [id |-> RequiredString, orderIndex |-> Whole, name |-> LocalizedText,
   description |-> OptionalText, imageUrl |-> OptionalString, location |-> OptionalRecord,
   conditions |-> {"list"}, externalReferences |-> Missing \union {"list"},
   metadata |-> Anything, password |-> Anything, staffPasscode |-> Anything]

LocationFields ==
  [latitude |-> Numbers \ {"excess"}, longitude |-> Numbers \ {"excess"},
   address |-> OptionalText \union {"undefined"}]

ReferenceFields ==
  [type |-> RequiredString, id |-> RequiredString, url |-> OptionalString, code |-> Anything]

AnyCondition ==
  [type |-> ConditionTypes, secretToken |-> Anything, qrEntryUrl |-> Anything, code |-> Anything,
   caseSensitive |-> Anything, latitude |-> Anything, radiusMeters |-> Anything,
   tagId |-> Anything, validatorName |-> Anything, secretParams |-> Anything]

ConditionFields(type, isPublic) ==
  LET secret(kinds) == IF isPublic THEN Never ELSE kinds IN
  CASE type = "qr" ->
         [AnyCondition EXCEPT !.secretToken = secret(RequiredString), !.qrEntryUrl = OptionalString]
    [] type = "passcode" ->
         [AnyCondition EXCEPT !.code = secret(RequiredString),
                              !.caseSensitive = secret(Missing \union {"boolean"})]
    [] type = "gps" ->
         [AnyCondition EXCEPT !.latitude = Numbers \ {"excess"},
                              !.radiusMeters = {"fraction", "number", "excess"}]
    [] type = "nfc" -> [AnyCondition EXCEPT !.tagId = secret(RequiredString)]
    [] type = "custom" ->
         [AnyCondition EXCEPT !.validatorName = RequiredString,
                              !.secretParams = secret({"absent"} \union Maps)]

RewardFields(isPublic) ==
  [id |-> RequiredString, title |-> LocalizedText, description |-> OptionalText,
   type |-> {"known"}, redemptionMethod |-> ReadAsKnown, requiredStampCount |-> Whole,
   stockLimit |-> Missing \union Whole, userClaimLimit |-> Missing \union Whole,
   stockKey |-> OptionalString, validUntil |-> Missing \union {"known"},
   staffPasscode |-> IF isPublic THEN Never ELSE OptionalString,
   digitalContentUrl |-> IF isPublic THEN Never ELSE OptionalString,
   conditions |-> Missing \union {"list"}]

UnlockFields == [type |-> {"known"}, count |-> Numbers \ {"negative"}]

(* The entities of a document, and the field of which each is the value.   *)
Part(entity, doc) ==
  CASE entity \in {"config", "spot", "reward", "condition"} -> TRUE
    [] entity = "theme" -> doc["config"].theme \in Maps
    [] entity = "location" -> doc["spot"].location \in Maps
    [] entity = "reference" -> doc["spot"].externalReferences = "list"
    [] entity = "unlock" -> doc["reward"].conditions = "list"

FieldsOf(entity, doc, isPublic) ==
  CASE entity = "config" -> ConfigFields(isPublic)
    [] entity = "theme" -> ThemeFields
    [] entity = "spot" -> SpotFields
    [] entity = "location" -> LocationFields
    [] entity = "reference" -> ReferenceFields
    [] entity = "condition" -> ConditionFields(doc["condition"].type, isPublic)
    [] entity = "reward" -> RewardFields(isPublic)
    [] entity = "unlock" -> UnlockFields

Validate(doc, isPublic) ==
  \A entity \in DOMAIN doc : Part(entity, doc) =>
    LET fields == FieldsOf(entity, doc, isPublic)
    IN  \A key \in DOMAIN fields : doc[entity][key] \in fields[key]

-----------------------------------------------------------------------------
(* validateRallyConfigRelations: the second spot's id, whether both have   *)
(* one order index, the prerequisites, the spots the completion and the    *)
(* rewards ask for, and the inventory the reward's stockKey names.         *)

SpotIds(l) == {"s1", l.second}

Relations(doc, l) ==
  LET follows == [pair \in SpotIds(l) \X SpotIds(l) |-> pair[2] \in l.prerequisites[pair[1]]]
      reached == TransitiveClosure(follows, SpotIds(l))
  IN
  /\ l.second # "s1" /\ ~l.sameOrder
  /\ \A s \in SpotIds(l) : l.prerequisites[s] \subseteq SpotIds(l)
  /\ \A s \in SpotIds(l) : ~reached[<<s, s>>]
  /\ l.required \subseteq SpotIds(l)
  /\ doc["reward"].requiredStampCount # "excess"
  /\ doc["reward"].stockKey \notin Missing => doc["config"].inventory = "map"

SafeParse(doc, l, isPublic) == Validate(doc, isPublic) /\ Relations(doc, l)

-----------------------------------------------------------------------------
(* toPublicConfig and sanitizeAdminConfig.                                 *)

Published == {"id", "version", "title", "description", "theme", "completion", "availability",
              "serverEndpoint", "spots", "rewards"}

PublicFields(type) ==
  CASE type = "qr" -> {"qrEntryUrl"}
    [] type = "gps" -> {"latitude", "radiusMeters"}
    [] type = "custom" -> {"validatorName"}
    [] OTHER -> {}

MutantKept(entity, key, doc) == entity # "reward" \/ key # "digitalContentUrl"

Kept(entity, key, doc) ==
  CASE entity = "config" -> key \in Published \union {"metadata"}
    [] entity = "condition" -> key \in PublicFields(doc[entity].type) \union {"type"}
    [] entity = "reward" -> key \notin {"digitalContentUrl", "staffPasscode"}
    [] OTHER -> TRUE

ToPublicConfig(doc) ==
  [entity \in DOMAIN doc |->
     [key \in DOMAIN doc[entity] |->
        IF ~Kept(entity, key, doc) THEN "absent"
        ELSE IF entity = "config" /\ key = "metadata" /\ doc[entity].publicMetadata # "undefined"
                /\ doc[entity].publicMetadata # "absent"
          THEN doc[entity].publicMetadata
          ELSE doc[entity][key]]]

(* A value without what is private at any depth; undefined is left out.    *)
SanitizeValue(kind) ==
  CASE kind \in Maps -> "map"
    [] kind = "undefined" -> "absent"
    [] OTHER -> kind

Sanitize(doc) ==
  [entity \in DOMAIN doc |->
     [key \in DOMAIN doc[entity] |->
        IF IsPrivateKey(key) THEN "absent" ELSE SanitizeValue(doc[entity][key])]]

SanitizeAdminConfig(doc) == Sanitize(ToPublicConfig(doc))

-----------------------------------------------------------------------------
(* validatePublicConfigSafety: no private key anywhere.                    *)
Safe(doc) ==
  \A entity \in DOMAIN doc : Part(entity, doc) =>
    \A key \in DOMAIN doc[entity] :
      /\ IsPrivateKey(key) => doc[entity][key] = "absent"
      /\ doc[entity][key] \notin {"mapWithToken", "mapWithPassword"}

(* isPublicConfig, which knows another list of keys.                       *)
IsPublicConfig(doc) ==
  LET present(entity, keys) ==
        \E key \in keys \intersect DOMAIN doc[entity] : doc[entity][key] # "absent"
  IN
  /\ \A entity \in DOMAIN doc : Part(entity, doc) =>
       /\ ~present(entity, {"staffPasscode", "secretToken", "serverMetadata", "secretParams",
                            "digitalContentUrl"})
       /\ \A key \in DOMAIN doc[entity] : doc[entity][key] # "mapWithToken"
  /\ ~present("spot", {"code", "tagId"}) /\ ~present("condition", {"code", "tagId"})
  /\ \A key \in {"id", "version"} : doc["config"][key] \in Strings \union {"known"}
  /\ doc["config"].title \in LocalizedText
  /\ doc["config"].spots = "list" /\ doc["config"].rewards = "list"
  /\ doc["spot"].id \in Strings \union {"known"} /\ doc["spot"].orderIndex \in Numbers
  /\ doc["spot"].name \notin Missing /\ doc["spot"].conditions = "list"
  /\ LET condition == doc["condition"] IN
       /\ condition.type = "custom" => condition.validatorName \in Strings \union {"known"}
       /\ condition.type = "gps" =>
            condition.latitude \in Numbers /\ condition.radiusMeters \in Numbers
  /\ doc["reward"].id \in Strings \union {"known"}
  /\ doc["reward"].requiredStampCount \in Numbers
  /\ doc["reward"].type = "known" /\ doc["reward"].redemptionMethod = "known"

-----------------------------------------------------------------------------
(* The documents considered: an ordinary one for each type of condition,   *)
(* with one field of some other kind; or with other links.                  *)

Ordinary(type) ==
  LET conditionOf == [key \in DOMAIN AnyCondition |->
        IF key = "type" THEN type
        ELSE IF key \in CASE type = "qr" -> {"secretToken", "qrEntryUrl"}
                          [] type = "passcode" -> {"code"}
                          [] type = "nfc" -> {"tagId"}
                          [] type = "custom" -> {"validatorName"}
                          [] OTHER -> {} THEN "text"
        ELSE IF type = "passcode" /\ key = "caseSensitive" THEN "boolean"
        ELSE IF type = "custom" /\ key = "secretParams" THEN "map"
        ELSE IF type = "gps" /\ key \in {"latitude", "radiusMeters"} THEN "number"
        ELSE "absent"]
      ordinary(kinds) ==
        CASE kinds = OptionalString -> "text"
          [] kinds \in {LocalizedText, OptionalText} -> "map"
          [] kinds = Anything -> "mapWithToken"
          [] "map" \in kinds -> "map"
          [] "known" \in kinds -> "known"
          [] "list" \in kinds -> "list"
          [] OTHER -> "number"
      of(fields) == [key \in DOMAIN fields |-> ordinary(fields[key])]
  IN
  [entity \in {"config", "theme", "spot", "location", "reference", "condition", "reward", "unlock"} |->
     CASE entity = "condition" -> conditionOf
       [] entity = "reward" -> [of(RewardFields(FALSE)) EXCEPT !.stockKey = "absent"]
       [] OTHER -> of(FieldsOf(entity, <<>>, FALSE))]

Fields(doc) ==
  (UNION {{entity} \X DOMAIN doc[entity] : entity \in DOMAIN doc}) \ {<<"condition", "type">>}

Changed(doc, entity, key, kind) == [doc EXCEPT ![entity] = [@ EXCEPT ![key] = kind]]

Variants(doc) ==
  {doc} \union {Changed(doc, field[1], field[2], kind) : field \in Fields(doc), kind \in Kinds}

OrdinaryLinks ==
  [second |-> "s2", sameOrder |-> FALSE,
   prerequisites |-> [s \in {"s1", "s2"} |-> IF s = "s2" THEN {"s1"} ELSE {}], required |-> {"s1"}]

OtherLinks ==
  [second : {"s1", "s2"}, sameOrder : BOOLEAN,
   prerequisites : [{"s1", "s2"} -> SUBSET {"s1", "s2", "gone"}], required : SUBSET {"s1", "gone"}]

PublicationInit ==
  /\ accepted = "unread"
  /\ \E type \in ConditionTypes :
       \/ admin \in Variants(Ordinary(type)) /\ links = OrdinaryLinks
       \/ admin = Ordinary(type) /\ links \in OtherLinks
  /\ public = admin

(* A document that safeParseAdminConfig accepts is published.              *)
Publish ==
  /\ accepted = "unread"
  /\ IF SafeParse(admin, links, FALSE)
       THEN accepted' = "published" /\ public' = SanitizeAdminConfig(admin)
       ELSE accepted' = "refused" /\ UNCHANGED public
  /\ UNCHANGED <<admin, links>>

PublicationNext == Publish

-----------------------------------------------------------------------------
(* What is published of any document the organizer's parser accepts holds  *)
(* nothing private, and is a public configuration for the two checks that  *)
(* read one, safeParsePublicConfig and isPublicConfig, each of which has   *)
(* lists of its own; except that a redemption method in a list, which both *)
(* parsers read as the string in it, is not one for isPublicConfig, and    *)
(* that safeParsePublicConfig refuses a reward that names a stock: it is   *)
(* published without the inventory the name is looked up in.               *)
PublishedIsSafe ==
  accepted = "published" =>
    /\ Safe(public)
    /\ admin["reward"].redemptionMethod = "known" => IsPublicConfig(public)
    /\ admin["reward"].stockKey \in Missing => SafeParse(public, links, TRUE)
=============================================================================
