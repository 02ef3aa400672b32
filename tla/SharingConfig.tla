---------------------------- MODULE SharingConfig ----------------------------
(***************************************************************************)
(* The sharing section of the plugin's configuration (api/config/v1):      *)
(* which resources are replicated, for time slicing or for MPS.  A         *)
(* document is what the YAML parser hands on: a record whose fields are    *)
(* those the author wrote, so that a field is absent when it is not in its *)
(* DOMAIN.  Parsing gives a set: the value, or nothing if it is refused.   *)
(***************************************************************************)
EXTENDS Integers, Sequences, SequencesExt

Given(doc, field) == field \in DOMAIN doc
OrElse(doc, field, default) == IF Given(doc, field) THEN doc[field] ELSE default
ValueOf(parsed) == CHOOSE v \in parsed : TRUE

\* The one value "rename" has if it is not set.
NoName == ""
DefaultSharedRename(name) == name \o ".shared"

\* The ways to refer to a device: IsGPUIndex, IsMigIndex, IsUUID.
ValidRefs == {"index", "uuid"}

\* ReplicatedDevices.UnmarshalJSON: the word "all", a count, or a list of references.
ParsedDevices(doc) ==
  LET value == [all |-> FALSE, count |-> 0, list |-> <<>>] IN
  CASE Given(doc, "word")  -> {[value EXCEPT !.all = TRUE] : w \in {"all"} \cap {doc.word}}
    [] Given(doc, "count") -> {[value EXCEPT !.count = n] : n \in {n \in {doc.count} : n > 0}}
    [] Given(doc, "list")  -> {[value EXCEPT !.list = l] : l \in
                                {l \in {doc.list} : \A k \in DOMAIN l : l[k].by \in ValidRefs}}
    [] OTHER               -> {}

\* ReplicatedResource.UnmarshalJSON: a name and at least two replicas are required.
ParsedResource(doc) ==
  IF ~Given(doc, "name") \/ OrElse(doc, "replicas", 0) < 2 THEN {}
  ELSE {[name |-> doc.name, rename |-> OrElse(doc, "rename", NoName), devices |-> d,
         replicas |-> doc.replicas] :
           d \in ParsedDevices(OrElse(doc, "devices", [word |-> "all"]))}

\* ReplicatedResources.UnmarshalJSON: there must be resources, and all must parse.
ParsedResources(doc) ==
  LET byDefault == OrElse(doc, "renameByDefault", FALSE)
      docs == OrElse(doc, "resources", <<>>)
      Rename(r) == IF byDefault /\ r.rename = NoName
                     THEN [r EXCEPT !.rename = DefaultSharedRename(r.name)] ELSE r
  IN IF docs = <<>> \/ \E k \in DOMAIN docs : ParsedResource(docs[k]) = {} THEN {}
     ELSE {[renameByDefault |-> byDefault,
            failRequestsGreaterThanOne |-> OrElse(doc, "failRequestsGreaterThanOne", FALSE),
            resources |-> [k \in DOMAIN docs |-> Rename(ValueOf(ParsedResource(docs[k])))]]}

\* The value of a section that is not there; only that of MPS is a pointer, nil then.
NoResources ==
  [renameByDefault |-> FALSE, failRequestsGreaterThanOne |-> FALSE, resources |-> <<>>]
Section(doc, field) ==
  IF Given(doc, field) THEN ParsedResources(doc[field]) ELSE {NoResources}

\* parseConfigFrom and NewConfig: with MPS a request has one shared device at most.
NewConfig(doc) ==
  {[timeSlicing |-> t, hasMPS |-> Given(doc, "mps"),
    mps |-> [m EXCEPT !.failRequestsGreaterThanOne = Given(doc, "mps")]] :
     t \in Section(doc, "timeSlicing"), m \in Section(doc, "mps")}

\* Mutant of disableResoureRenaming: a choice of devices is kept.
disableResoureRenamingMutant(rrs) ==
  [rrs EXCEPT !.resources = [k \in DOMAIN rrs.resources |->
     [rrs.resources[k] EXCEPT !.rename =
        IF rrs.renameByDefault THEN DefaultSharedRename(rrs.resources[k].name) ELSE NoName]]]

\* Neither a name of one's own nor a choice of devices is supported yet.
disableResoureRenaming(rrs) ==
  [rrs EXCEPT !.resources = [k \in DOMAIN rrs.resources |->
     [rrs.resources[k] EXCEPT
        !.rename = IF rrs.renameByDefault THEN DefaultSharedRename(rrs.resources[k].name) ELSE NoName,
        !.devices = [all |-> TRUE, count |-> 0, list |-> <<>>]]]]

\* DisableResourceNamingInConfig, before the plugins are built.
DisableResourceNamingInConfig(s) ==
  [s EXCEPT !.timeSlicing = disableResoureRenaming(@), !.mps = disableResoureRenaming(@)]

isReplicated(rrs) == \E k \in DOMAIN rrs.resources : rrs.resources[k].replicas > 1

SharingStrategy(s) ==
  IF s.hasMPS /\ isReplicated(s.mps) THEN "mps"
  ELSE IF isReplicated(s.timeSlicing) THEN "time-slicing" ELSE "none"

\* The resources of the active strategy.
ReplicatedResources(s) == IF s.hasMPS THEN s.mps ELSE s.timeSlicing
=============================================================================
