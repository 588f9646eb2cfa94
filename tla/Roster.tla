------------------------------- MODULE Roster -------------------------------
(***************************************************************************)
(* Who is in the room: bmad-party-mode's resolve_party.py and              *)
(* bmad-forge-idea's resolve_personas.py each build one pool of the        *)
(* installed agents and of the custom members, with an index from every    *)
(* token (code, short alias, name) to a code.  Agents are installed,       *)
(* members and parties are written into the team's and the user's          *)
(* override after a look at the code map, by one session or by several.    *)
(*                                                                         *)
(* Codes, aliases and names are compared in lower case throughout.         *)
(***************************************************************************)
EXTENDS Naturals, Sequences, SequencesExt

CONSTANTS AgentCards,     \* what may be installed: [code, name]
          MemberCards,    \* custom members: [code, name], the name "" when it is left out
          ShippedMembers, \* party_members of customize.toml, in order
          PartyGroups,    \* the members' tokens of each party
          AliasOf(_),     \* a code without bmad-agent- or bmad-
          MaxCastings     \* bound on the changes of agents and members

ASSUME RosterAssumption ==
  /\ MaxCastings \in Nat /\ ShippedMembers \in Seq(Range(ShippedMembers))
  /\ \A i, j \in DOMAIN ShippedMembers : ShippedMembers[i].code = ShippedMembers[j].code => i = j

VARIABLES installedAgents, \* agents of _bmad/config.toml, in order
          castings,        \* party_members of the team's and of the user's override
          partySkill,      \* whether bmad-party-mode is installed beside the forge
          unreadable,      \* which resolver of _bmad/scripts fails: "none", "config" or "customization"
          codesListed,     \* the code map a session has looked at, NotListed before
          allMissed,       \* whether all that was written since has none of its tokens
          castingsMade

rosterVars == <<installedAgents, castings, partySkill, unreadable, codesListed, allMissed, castingsMade>>

NotListed == [unlisted |-> TRUE]
EmptyRoom == [pool |-> <<>>, index |-> <<>>]
With(map, keys, value) == [k \in DOMAIN map \cup keys |-> IF k \in keys THEN value ELSE map[k]]
TokensOfCard(card) == {card.code, AliasOf(card.code)} \cup ({card.name} \ {""})

(***************************************************************************)
(* Pools and indexes.                                                      *)
(***************************************************************************)
\* The party's: the last one to register has the token.
RegisterInParty(room, card) ==
  [pool |-> With(room.pool, {card.code}, card), index |-> With(room.index, TokensOfCard(card), card.code)]

\* The forge's: a name that leads to somebody else is left alone.
RegisterInForge(room, card) ==
  LET index == With(room.index, {card.code, AliasOf(card.code)}, card.code)
  IN [pool |-> With(room.pool, {card.code}, card),
      index |-> IF card.name \in DOMAIN index \cup {""} THEN index ELSE With(index, {card.name}, card.code)]

CanonicalCode(room, code) == IF code \in DOMAIN room.index THEN room.index[code] ELSE code

\* The entry of a custom member starts from the one it overrides.
Casting(room, member) ==
  LET code == CanonicalCode(room, member.code)
      Kept == IF code \in DOMAIN room.pool THEN room.pool[code].name ELSE code
  IN [code |-> code, name |-> IF member.name = "" THEN Kept ELSE member.name, custom |-> TRUE]

InstalledCard(agent) == [code |-> agent.code, name |-> agent.name, custom |-> FALSE]

PartyAgent(room, agent) == RegisterInParty(room, InstalledCard(agent))
PartyMember(room, member) == RegisterInParty(room, Casting(room, member))
BuildCollective(agents, members) == FoldLeft(PartyMember, FoldLeft(PartyAgent, EmptyRoom, agents), members)

ForgeAgent(room, agent) == RegisterInForge(room, InstalledCard(agent))
ForgeMember(room, member) == RegisterInForge(room, Casting(room, member))
BuildPool(agents, members) == FoldLeft(ForgeMember, FoldLeft(ForgeAgent, EmptyRoom, agents), members)

ResolveMembers(tokens, room) ==
  LET Known(token) == token \in DOMAIN room.index /\ room.index[token] \in DOMAIN room.pool
      found == SelectSeq(tokens, Known)
  IN [i \in DOMAIN found |-> room.pool[room.index[found[i]]]]

CodeMap(room) == [token \in DOMAIN room.index |-> room.index[token]]

(***************************************************************************)
(* What the two scripts read.                                              *)
(***************************************************************************)
\* party_members is an array of tables keyed by code (config_utils.py).
PutMember(members, member) ==
  LET same == {i \in DOMAIN members : members[i].code = member.code}
  IN IF same = {} THEN Append(members, member) ELSE [members EXCEPT ![CHOOSE i \in same : TRUE] = member]
KeyedMembers(base, override) == FoldLeft(PutMember, base, override)

LoadAgents == IF unreadable = "config" THEN <<>> ELSE installedAgents

\* Without the resolver the base of the skill is read alone.
LoadWorkflow ==
  IF unreadable = "customization" THEN ShippedMembers
  ELSE KeyedMembers(KeyedMembers(ShippedMembers, castings.team), castings.user)

\* Without the skill the two overrides are read one after the other.
LoadPartyOverrides == castings.team \o castings.user

\* With the skill, the forge asks the same resolver.
LoadPartyWorkflow == IF partySkill THEN LoadWorkflow ELSE LoadPartyOverrides

PartyRoom == BuildCollective(LoadAgents, LoadWorkflow)
ForgeRoom == BuildPool(LoadAgents, LoadPartyWorkflow)

(***************************************************************************)
(* What they print.                                                        *)
(***************************************************************************)
\* resolve_party.py --party, and the forge's "parties".
GroupDetail(i, room) == ResolveMembers(PartyGroups[i], room)
ResolveParties(room) == [i \in DOMAIN PartyGroups |-> ResolveMembers(PartyGroups[i], room)]

\* Without a default party, and the forge's "agents".
DefaultRoom(room) == [i \in DOMAIN LoadAgents |-> room.pool[LoadAgents[i].code]]

(***************************************************************************)
(* Installing agents and writing members.                                  *)
(***************************************************************************)
Casts == castingsMade < MaxCastings /\ castingsMade' = castingsMade + 1

InstallAgent(agent) ==
  /\ Casts /\ \A i \in DOMAIN installedAgents : installedAgents[i].code # agent.code
  /\ installedAgents' = Append(installedAgents, agent) /\ allMissed' = FALSE
  /\ UNCHANGED <<castings, partySkill, unreadable, codesListed>>

\* resolve_party.py --list-codes.
ListCodes ==
  /\ codesListed' = CodeMap(PartyRoom) /\ allMissed' = TRUE
  /\ UNCHANGED <<installedAgents, castings, partySkill, unreadable, castingsMade>>

\* Members are written after one look at the code map, on a hit as an override.
WriteMember(layer, member) ==
  /\ Casts /\ codesListed # NotListed
  /\ castings' = [castings EXCEPT ![layer] = KeyedMembers(@, <<member>>)]
  /\ allMissed' = (allMissed /\ TokensOfCard(member) \cap DOMAIN codesListed = {})
  /\ UNCHANGED <<installedAgents, partySkill, unreadable, codesListed>>

RosterInit ==
  /\ installedAgents = <<>> /\ castings = [team |-> <<>>, user |-> <<>>]
  /\ partySkill \in BOOLEAN /\ unreadable \in {"none", "config", "customization"} /\ codesListed = NotListed
  /\ allMissed = FALSE /\ castingsMade = 0

RosterNext ==
  \/ \E agent \in AgentCards : InstallAgent(agent)
  \/ ListCodes
  \/ \E layer \in {"team", "user"}, member \in MemberCards : WriteMember(layer, member)

RosterSpec == RosterInit /\ [][RosterNext]_rosterVars

-----------------------------------------------------------------------------
\* Every token of either index leads to somebody in the pool.
RosterTypeOK ==
  /\ castingsMade \in 0..MaxCastings /\ unreadable \in {"none", "config", "customization"} /\ partySkill \in BOOLEAN
  /\ LET party == PartyRoom forge == ForgeRoom
     IN Range(party.index) \subseteq DOMAIN party.pool /\ Range(forge.index) \subseteq DOMAIN forge.pool

CardsRead == Range(LoadAgents) \cup Range(LoadWorkflow)

\* No member is named like somebody else.
NamesAreOwn ==
  \A card \in CardsRead, other \in CardsRead : card.code # other.code => card.name \notin TokensOfCard(other)

\* Nobody else goes by the agent's code.  The scripts do not look: an agent bmad-x that is
\* registered after x takes the token x, and with it the members that are written with it.
OwnsItsCode(agent) ==
  agent.code # "" /\ \A card \in CardsRead : card.code # agent.code => agent.code \notin TokensOfCard(card)

\* The forge casts every party as party mode does, from the same overrides, as long
\* as no member takes the name of another and every agent's code is its own.
RostersAgree ==
  LET party == PartyRoom forge == ForgeRoom
  IN partySkill /\ NamesAreOwn /\ (\A agent \in Range(LoadAgents) : OwnsItsCode(agent)) =>
       \A i \in DOMAIN PartyGroups : GroupDetail(i, party) = ResolveParties(forge)[i]

\* In both scripts the default room is the installed agents, whatever is written and
\* whatever others are called, and a member that is written with the code of an agent
\* who alone goes by it takes that agent's place.
RoomIsTheInstalled ==
  LET party == DefaultRoom(PartyRoom) forge == DefaultRoom(ForgeRoom) members == Range(LoadWorkflow)
      TakesPlace(card, agent) ==
        card.code = agent.code /\ (OwnsItsCode(agent) /\ (\E m \in members : m.code = agent.code) => card.custom)
  IN \A i \in DOMAIN LoadAgents :
       TakesPlace(party[i], LoadAgents[i]) /\ (partySkill => TakesPlace(forge[i], LoadAgents[i]))

\* Members whose tokens the code map does not have take no token from anybody in it,
\* however many are written after one look and into whichever layer.
NewFacesShadowNobody ==
  allMissed => LET index == PartyRoom.index IN \A token \in DOMAIN codesListed : index[token] = codesListed[token]
=============================================================================
