------------------------------- MODULE Talent -------------------------------
(***************************************************************************)
(* Management companies, their groups and idols, and the lookup tables of  *)
(* positions and colours (services/talent).  Names, dates and images are   *)
(* left out: an edit of them changes no row here, though it does change    *)
(* the pages built from the rows (Site).  One commit is one step.          *)
(***************************************************************************)
EXTENDS Identity

CONSTANTS
  Groups, Idols, Colors, Positions,
  Absent        \* no row with this id

VARIABLES
  companies,    \* rows of management_companies
  group,        \* groups: [company, active], or Absent
  idol,         \* idols: [company, group, color, active], or Absent
  colors,       \* rows of idol_colors
  positions,    \* rows of positions
  held          \* idol_positions: "no", "secondary" or "primary"

talentVars == <<companies, employer, group, idol, colors, positions, held>>

Managers == {u \in Users : role[u] = "manager"}
Admins == {u \in Users : role[u] = "admin"}

\* require_manager_or_admin
Staff == Managers \cup Admins

\* the negation of _manager_scope_violation: admins are not scoped
InScope(who, c) == who \in Managers => employer[who] = c

Exists(row) == row # Absent

\* columns of groups and idols; only idols may have none of what they refer to
GroupRow == [company : Companies, active : BOOLEAN]
IdolRow == [company : Companies, group : Groups \cup {None}, color : Colors \cup {None}, active : BOOLEAN]

\* idol_positions.is_primary, of the rows there are
PositionLinks == {"no", "secondary", "primary"}

-----------------------------------------------------------------------------
(***************************************************************************)
(* Companies                                                               *)
(***************************************************************************)
AddCompany(c) ==
  /\ c \notin companies
  /\ companies' = companies \cup {c}
  /\ UNCHANGED <<employer, group, idol, colors, positions, held>>

UpdateCompany(c) == c \in companies /\ UNCHANGED talentVars

\* groups, idols and concerts of the company: SQLAlchemy sets their
\* company_id to NULL before it deletes the row, which NOT NULL refuses
HasArtists(c) ==
  \/ \E g \in Groups : Exists(group[g]) /\ group[g].company = c
  \/ \E i \in Idols : Exists(idol[i]) /\ idol[i].company = c

\* the staff of a deleted company stay managers, of no company
DeleteCompany(c) ==
  /\ c \in companies
  /\ ~HasArtists(c)
  /\ companies' = companies \ {c}
  /\ employer' = [m \in Users |-> IF employer[m] = c THEN None ELSE employer[m]]
  /\ UNCHANGED <<group, idol, colors, positions, held>>

(***************************************************************************)
(* Groups                                                                  *)
(***************************************************************************)
AddGroup(who, g, c) ==
  /\ group[g] = Absent
  /\ InScope(who, c)
  /\ c \in companies
  /\ group' = [group EXCEPT ![g] = [company |-> c, active |-> TRUE]]
  /\ UNCHANGED <<companies, employer, idol, colors, positions, held>>

ManagesGroup(who, g) == Exists(group[g]) /\ InScope(who, group[g].company)

UpdateGroup(who, g) == ManagesGroup(who, g) /\ UNCHANGED talentVars

\* a soft delete: products and concerts keep their credits
DeleteGroup(who, g) ==
  /\ ManagesGroup(who, g)
  /\ group' = [group EXCEPT ![g].active = FALSE]
  /\ UNCHANGED <<companies, employer, idol, colors, positions, held>>

ReactivateGroup(who, g) ==
  /\ ManagesGroup(who, g)
  /\ group' = [group EXCEPT ![g].active = TRUE]
  /\ UNCHANGED <<companies, employer, idol, colors, positions, held>>

(***************************************************************************)
(* Idols                                                                   *)
(***************************************************************************)
\* mutant: any active group will do
ValidRefsOfAnyCompany(c, g, color, currentGroup) ==
  /\ c \in companies
  /\ g # None => Exists(group[g]) /\ (group[g].active \/ g = currentGroup)
  /\ color \in colors \cup {None}

\* _validate_refs: the company exists, the group is one of its groups and
\* takes members unless the idol is already in it, and the colour exists
ValidRefs(c, g, color, currentGroup) ==
  /\ c \in companies
  /\ g # None => /\ Exists(group[g])
                 /\ group[g].company = c
                 /\ group[g].active \/ g = currentGroup
  /\ color \in colors \cup {None}

AddIdol(who, i, c, g, color) ==
  /\ idol[i] = Absent
  /\ InScope(who, c)
  /\ ValidRefs(c, g, color, None)
  /\ idol' = [idol EXCEPT ![i] = [company |-> c, group |-> g, color |-> color, active |-> TRUE]]
  /\ UNCHANGED <<companies, employer, group, colors, positions, held>>

ManagesIdol(who, i) == Exists(idol[i]) /\ InScope(who, idol[i].company)

\* company_id is not among the columns an update may write
UpdateIdol(who, i, g, color) ==
  /\ ManagesIdol(who, i)
  /\ ValidRefs(idol[i].company, g, color, idol[i].group)
  /\ idol' = [idol EXCEPT ![i].group = g, ![i].color = color]
  /\ UNCHANGED <<companies, employer, group, colors, positions, held>>

DeleteIdol(who, i) ==
  /\ ManagesIdol(who, i)
  /\ idol' = [idol EXCEPT ![i].active = FALSE]
  /\ UNCHANGED <<companies, employer, group, colors, positions, held>>

ReactivateIdol(who, i) ==
  /\ ManagesIdol(who, i)
  /\ idol' = [idol EXCEPT ![i].active = TRUE]
  /\ UNCHANGED <<companies, employer, group, colors, positions, held>>

SetIdolImage(who, i) == ManagesIdol(who, i) /\ UNCHANGED talentVars

(***************************************************************************)
(* Colours and positions                                                   *)
(***************************************************************************)
AddColor(color) ==
  /\ color \notin colors
  /\ colors' = colors \cup {color}
  /\ UNCHANGED <<companies, employer, group, idol, positions, held>>

UpdateColor(color) == color \in colors /\ UNCHANGED talentVars

DeleteColor(color) ==
  /\ color \in colors
  /\ colors' = colors \ {color}
  /\ idol' = [i \in Idols |-> IF Exists(idol[i]) /\ idol[i].color = color
                              THEN [idol[i] EXCEPT !.color = None] ELSE idol[i]]
  /\ UNCHANGED <<companies, employer, group, positions, held>>

AddPosition(p) ==
  /\ p \notin positions
  /\ positions' = positions \cup {p}
  /\ UNCHANGED <<companies, employer, group, idol, colors, held>>

UpdatePosition(p) == p \in positions /\ UNCHANGED talentVars

\* a position in use cannot go: its links have it in their primary key
DeletePosition(p) ==
  /\ p \in positions
  /\ \A i \in Idols : held[<<i, p>>] = "no"
  /\ positions' = positions \ {p}
  /\ UNCHANGED <<companies, employer, group, idol, colors, held>>

AssignPosition(who, i, p, primary) ==
  /\ ManagesIdol(who, i)
  /\ p \in positions
  /\ held[<<i, p>>] = "no"
  /\ held' = [held EXCEPT ![<<i, p>>] = IF primary THEN "primary" ELSE "secondary"]
  /\ UNCHANGED <<companies, employer, group, idol, colors, positions>>

SetPrimary(who, i, p, primary) ==
  /\ ManagesIdol(who, i)
  /\ held[<<i, p>>] # "no"
  /\ held' = [held EXCEPT ![<<i, p>>] = IF primary THEN "primary" ELSE "secondary"]
  /\ UNCHANGED <<companies, employer, group, idol, colors, positions>>

RemovePosition(who, i, p) ==
  /\ ManagesIdol(who, i)
  /\ held[<<i, p>>] # "no"
  /\ held' = [held EXCEPT ![<<i, p>>] = "no"]
  /\ UNCHANGED <<companies, employer, group, idol, colors, positions>>

-----------------------------------------------------------------------------
(***************************************************************************)
(* What the services show and promise                                      *)
(***************************************************************************)
\* scope_manager_idols_page keeps the groups its idols belong to, whatever
\* their company
IdolsShownTo(m) == {i \in Idols : Exists(idol[i]) /\ idol[i].company = employer[m]}
GroupsShownTo(m) == {idol[i].group : i \in IdolsShownTo(m)} \ {None}

\* scope_manager_idol_form_page and scope_manager_groups_page
GroupOptionsOf(m) == {g \in Groups : Exists(group[g]) /\ group[g].company = employer[m]}

TalentTypeOK ==
  /\ companies \subseteq Companies
  /\ group \in [Groups -> GroupRow \cup {Absent}]
  /\ idol \in [Idols -> IdolRow \cup {Absent}]
  /\ colors \subseteq Colors
  /\ positions \subseteq Positions
  /\ held \in [Idols \X Positions -> PositionLinks]

\* An idol is in a group of its own company, through every edit of idols,
\* groups and companies (idol_service.py:58 "An idol's company must match
\* its group's company.", which 3bb50b855520 84 leaves to the services), so
\* the groups a manager's idols page labels, which it takes from the idols,
\* are groups the form and the groups page offer the manager.
IdolGroupSameCompany ==
  /\ \A i \in Idols : (Exists(idol[i]) /\ idol[i].group # None) =>
       /\ Exists(group[idol[i].group])
       /\ group[idol[i].group].company = idol[i].company
  /\ \A m \in Managers : GroupsShownTo(m) \subseteq GroupOptionsOf(m)

\* No row refers to a row that was deleted: what the handlers do not check
\* before a delete, the foreign keys and the unit of work must.
TalentRefsExist ==
  /\ \A g \in Groups : Exists(group[g]) => group[g].company \in companies
  /\ \A i \in Idols : Exists(idol[i]) =>
       idol[i].company \in companies /\ idol[i].color \in colors \cup {None}
  /\ \A m \in Users : employer[m] \in companies \cup {None}
  /\ \A i \in Idols, p \in Positions :
       held[<<i, p>>] # "no" => Exists(idol[i]) /\ p \in positions
=============================================================================
