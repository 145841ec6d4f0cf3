---- MODULE Profiles ----
(***************************************************************************)
(* What users show of themselves (profile.service.ts): the slug of a       *)
(* profile, the skills on it with their endorsements, and the ordered      *)
(* lists of portfolio items and services.                                  *)
(*                                                                         *)
(* The three have one shape: a handler reads, decides, and writes in a     *)
(* later statement, and the database's unique keys are all that stands     *)
(* between.  A find that is followed by a delete of what was found is one  *)
(* step: the delete alone decides.  Names, texts and pictures are left     *)
(* out: the service writes them without reading anything.                  *)
(*                                                                         *)
(* The clean-up timer of auth.service.ts deletes users meanwhile, and the  *)
(* database what is theirs.  Any user can be one that has yet to verify.   *)
(***************************************************************************)
EXTENDS Integers, FiniteSets

CONSTANTS
    Users,
    Names,     \* what display names become by createSlug
    MaxSuffix, \* the bound on the numbers that are put behind them
    Skills,
    Items,     \* the rows there may be at a time
    MaxPlace,  \* the bound on their sortOrder
    Lists,     \* of "portfolio" and "services"
    Requests,  \* the requests that can be in flight together
    None

VARIABLES
    gone,         \* users that were deleted
    slug,         \* user -> its slug, or None
    skill,        \* user, skill -> the endorsements of its row, or None
    endorsements, \* the rows <<by, user, skill>>
    item,         \* the rows of the lists, or None
    req,          \* request -> what it is about to do, or Idle
    (* History, read by the properties and by no guard: *)
    earlier,   \* row -> those still there of the rows of its list when its
               \* place in it was read
    forgotten, \* user, skill -> the endorsements that a removal left behind
    departed,  \* user, skill -> endorsers since it was added who are gone
    hasty      \* users one of whose slugs was written while another request
               \* of theirs was making up one

history == <<earlier, forgotten, departed, hasty>>
vars    == <<gone, slug, skill, endorsements, item, req, history>>

Slugs  == Names \X (0 .. MaxSuffix)
Row(u, l, n) == [user |-> u, list |-> l, order |-> n]
AllRows == [user : Users, list : {"portfolio", "services"}, order : Nat]

ASSUME ProfilesAssumption ==
    /\ IsFiniteSet(Users)
    /\ MaxSuffix \in Nat /\ MaxPlace \in Nat
    /\ Lists \subseteq {"portfolio", "services"}
    /\ None \notin Slugs \cup Nat \cup AllRows

Idle == [next |-> "idle"]
SlugRequest  == [next : {"generate", "writeGenerated", "writeChosen"}, user : Users, slug : Slugs]
SkillRequest == [next : {"addSkill"}, user : Users, skill : Skills]
EndorseRequest == [next : {"endorse"}, user : Users, skill : Skills, by : Users]
ItemRequest  == [next : {"newItem"}, user : Users, list : Lists, order : Nat, found : SUBSET Items]
InFlight == SlugRequest \cup SkillRequest \cup EndorseRequest \cup ItemRequest

ForSlug(w, u, s) == [next |-> w, user |-> u, slug |-> s]
ForSkill(u, k)   == [next |-> "addSkill", user |-> u, skill |-> k]
ForEndorsement(u, k, by) == [next |-> "endorse", user |-> u, skill |-> k, by |-> by]
ForItem(u, l, n, S) == [next |-> "newItem", user |-> u, list |-> l, order |-> n, found |-> S]

Doing(r, w) == req[r].next = w
Done(r)     == [req EXCEPT ![r] = Idle]
Begin(r, q) == req[r] = Idle /\ req' = [req EXCEPT ![r] = q]

-----------------------------------------------------------------------------
(* Slugs *)

Holders(s) == {u \in Users : slug[u] = s}

(* Mutant: the slug is made from the name at every update. *)
UpdateProfileAlways(r, u, n) ==
    /\ Begin(r, ForSlug("generate", u, <<n, 0>>))
    /\ UNCHANGED <<gone, slug, skill, endorsements, item, history>>

(* updateProfile: the first one makes the slug up from the display name, or
   from the address.  One that finds a slug changes none. *)
UpdateProfile(r, u, n) ==
    /\ slug[u] = None
    /\ Begin(r, ForSlug("generate", u, <<n, 0>>))
    /\ UNCHANGED <<gone, slug, skill, endorsements, item, history>>

(* generateUniqueSlug counts up until it finds nobody. *)
TrySlug(r) ==
    /\ Doing(r, "generate")
    /\ LET s == req[r].slug
           u == req[r].user
       IN  IF Holders(s) = {} THEN req' = [req EXCEPT ![r] = ForSlug("writeGenerated", u, s)]
           ELSE /\ s[2] < MaxSuffix
                /\ req' = [req EXCEPT ![r] = ForSlug("generate", u, <<s[1], s[2] + 1>>)]
    /\ UNCHANGED <<gone, slug, skill, endorsements, item, history>>

(* updateSlug: nobody else has it. *)
UpdateSlug(r, u, s) ==
    /\ Holders(s) \subseteq {u}
    /\ Begin(r, ForSlug("writeChosen", u, s))
    /\ UNCHANGED <<gone, slug, skill, endorsements, item, history>>

(* Mutant: slugs are not unique. *)
WriteAnySlug(r) ==
    /\ Doing(r, "writeGenerated") \/ Doing(r, "writeChosen")
    /\ slug' = [slug EXCEPT ![req[r].user] = IF req[r].user \in gone THEN @ ELSE req[r].slug]
    /\ req' = Done(r)
    /\ UNCHANGED <<gone, skill, endorsements, item, history>>

(* Slugs are unique: the update rejects one that somebody has taken since, and
   one of a user that is gone. *)
WriteSlug(r) ==
    /\ Doing(r, "writeGenerated") \/ Doing(r, "writeChosen")
    /\ LET u == req[r].user IN
         IF Holders(req[r].slug) \subseteq {u} /\ u \notin gone
         THEN /\ slug' = [slug EXCEPT ![u] = req[r].slug]
              /\ hasty' = IF \E o \in Requests \ {r} :
                               (Doing(o, "generate") \/ Doing(o, "writeGenerated")) /\ req[o].user = u
                          THEN hasty \cup {u} ELSE hasty
         ELSE UNCHANGED <<slug, hasty>>
    /\ req' = Done(r)
    /\ UNCHANGED <<gone, skill, endorsements, item, earlier, forgotten, departed>>

-----------------------------------------------------------------------------
(* Skills *)

EndorsersOf(u, k) == {by \in Users : <<by, u, k>> \in endorsements}

AddSkill(r, u, k) ==
    /\ skill[<<u, k>>] = None
    /\ Begin(r, ForSkill(u, k))
    /\ UNCHANGED <<gone, slug, skill, endorsements, item, history>>

(* The insert rejects a skill that another request has added since, and one
   of a user that is gone. *)
CreateSkill(r) ==
    /\ Doing(r, "addSkill")
    /\ skill' = [skill EXCEPT ![<<req[r].user, req[r].skill>>] =
                    IF @ = None /\ req[r].user \notin gone THEN 0 ELSE @]
    /\ req' = Done(r)
    /\ UNCHANGED <<gone, slug, endorsements, item, history>>

(* removeSkill: its endorsements stay, and stand in the way of new ones. *)
RemoveSkill(u, k) ==
    /\ skill[<<u, k>>] # None
    /\ skill' = [skill EXCEPT ![<<u, k>>] = None]
    /\ forgotten' = [forgotten EXCEPT ![<<u, k>>] = EndorsersOf(u, k)]
    /\ departed' = [departed EXCEPT ![<<u, k>>] = {}]
    /\ UNCHANGED <<gone, slug, endorsements, item, req, earlier, hasty>>

EndorseSkill(r, u, k, by) ==
    /\ by # u
    /\ by \notin EndorsersOf(u, k)
    /\ Begin(r, ForEndorsement(u, k, by))
    /\ UNCHANGED <<gone, slug, skill, endorsements, item, history>>

(* Mutant: not in one transaction, so the row stays when the count fails. *)
EndorseInTwo(r) ==
    /\ Doing(r, "endorse")
    /\ LET u == req[r].user
           k == req[r].skill
       IN  IF {req[r].by, u} \cap gone = {} /\ req[r].by \notin EndorsersOf(u, k)
           THEN /\ endorsements' = endorsements \cup {<<req[r].by, u, k>>}
                /\ skill' = [skill EXCEPT ![<<u, k>>] = IF @ = None THEN @ ELSE @ + 1]
           ELSE UNCHANGED <<endorsements, skill>>
    /\ req' = Done(r)
    /\ UNCHANGED <<gone, slug, item, history>>

(* The transaction: the row is new and of users that are there, and the skill
   is on the profile. *)
Endorse(r) ==
    /\ Doing(r, "endorse")
    /\ LET u == req[r].user
           k == req[r].skill
       IN  IF /\ {req[r].by, u} \cap gone = {}
              /\ req[r].by \notin EndorsersOf(u, k)
              /\ skill[<<u, k>>] # None
           THEN /\ endorsements' = endorsements \cup {<<req[r].by, u, k>>}
                /\ skill' = [skill EXCEPT ![<<u, k>>] = @ + 1]
           ELSE UNCHANGED <<endorsements, skill>>
    /\ req' = Done(r)
    /\ UNCHANGED <<gone, slug, item, history>>

-----------------------------------------------------------------------------
(* Lists *)

Rows(u, l) == {i \in Items : item[i] # None /\ item[i].user = u /\ item[i].list = l}

(* (_max.sortOrder ?? -1) + 1 *)
NextPlace(u, l) ==
    IF Rows(u, l) = {} THEN 0
    ELSE CHOOSE n \in {item[i].order + 1 : i \in Rows(u, l)} :
            \A i \in Rows(u, l) : item[i].order < n

AddTo(r, u, l) ==
    /\ l \in Lists
    /\ NextPlace(u, l) <= MaxPlace
    /\ Begin(r, ForItem(u, l, NextPlace(u, l), Rows(u, l)))
    /\ UNCHANGED <<gone, slug, skill, endorsements, item, history>>

AddPortfolioItem(r, u) == AddTo(r, u, "portfolio")
AddService(r, u)       == AddTo(r, u, "services")

(* The insert rejects a row of a user that is gone. *)
NewItem(r) ==
    /\ Doing(r, "newItem")
    /\ IF req[r].user \in gone THEN UNCHANGED <<item, earlier>>
       ELSE \E i \in Items :
              /\ item[i] = None
              /\ item' = [item EXCEPT ![i] = Row(req[r].user, req[r].list, req[r].order)]
              /\ earlier' = [earlier EXCEPT ![i] = req[r].found]
    /\ req' = Done(r)
    /\ UNCHANGED <<gone, slug, skill, endorsements, forgotten, departed, hasty>>

(* The rows go; what was seen of them is forgotten with them. *)
Drop(S) ==
    /\ item' = [i \in Items |-> IF i \in S THEN None ELSE item[i]]
    /\ earlier' = [i \in Items |-> IF i \in S THEN {} ELSE earlier[i] \ S]
    /\ req' = [r \in Requests |->
                  IF Doing(r, "newItem")
                  THEN ForItem(req[r].user, req[r].list, req[r].order, req[r].found \ S)
                  ELSE req[r]]

Delete(u, l) ==
    /\ \E i \in Rows(u, l) : Drop({i})
    /\ UNCHANGED <<gone, slug, skill, endorsements, forgotten, departed, hasty>>

DeletePortfolioItem(u) == Delete(u, "portfolio")
DeleteService(u)       == Delete(u, "services")

-----------------------------------------------------------------------------
(* The clean-up of a user that has not verified, 15 minutes after registering:
   the rows that name the user go along (onDelete: Cascade), the endorsements
   that the user gave included.  What others have for those stays. *)
DeleteUser(u) ==
    /\ u \notin gone
    /\ gone' = gone \cup {u}
    /\ slug' = [slug EXCEPT ![u] = None]
    /\ skill' = [p \in Users \X Skills |-> IF p[1] = u THEN None ELSE skill[p]]
    /\ endorsements' = {e \in endorsements : u \notin {e[1], e[2]}}
    /\ forgotten' = [p \in Users \X Skills |-> IF p[1] = u THEN {} ELSE forgotten[p] \ {u}]
    /\ departed' = [p \in Users \X Skills |->
                       IF p[1] = u THEN {}
                       ELSE IF u \in EndorsersOf(p[1], p[2]) \ forgotten[p]
                       THEN departed[p] \cup {u}
                       ELSE departed[p]]
    /\ Drop(Rows(u, "portfolio") \cup Rows(u, "services"))
    /\ UNCHANGED hasty

(* A statement rejects, or the process stops. *)
Abort(r) ==
    /\ req[r] # Idle
    /\ req' = Done(r)
    /\ UNCHANGED <<gone, slug, skill, endorsements, item, history>>

Init ==
    /\ gone = {}
    /\ slug = [u \in Users |-> None]
    /\ skill = [p \in Users \X Skills |-> None]
    /\ endorsements = {}
    /\ item = [i \in Items |-> None]
    /\ req = [r \in Requests |-> Idle]
    /\ hasty = {}
    /\ earlier = [i \in Items |-> {}]
    /\ forgotten = [p \in Users \X Skills |-> {}]
    /\ departed = [p \in Users \X Skills |-> {}]

(* The routes of profile.controller.ts, each for the signed-in user, who is
   there when JwtStrategy.validate asks. *)
Arrive(r, u) ==
    /\ u \notin gone
    /\ \/ \E n \in Names : UpdateProfile(r, u, n)
       \/ \E s \in Slugs : UpdateSlug(r, u, s)
       \/ \E k \in Skills : AddSkill(r, u, k)
       \/ \E k \in Skills, o \in Users : EndorseSkill(r, o, k, u)
       \/ AddPortfolioItem(r, u)
       \/ AddService(r, u)

Step(r) ==
    \/ TrySlug(r)
    \/ WriteSlug(r)
    \/ CreateSkill(r)
    \/ Endorse(r)
    \/ NewItem(r)

Next ==
    \/ \E r \in Requests : Step(r) \/ Abort(r) \/ \E u \in Users : Arrive(r, u)
    \/ \E u \in Users :
          \/ \E k \in Skills : RemoveSkill(u, k)
          \/ DeletePortfolioItem(u)
          \/ DeleteService(u)
          \/ DeleteUser(u)

Spec == Init /\ [][Next]_vars

-----------------------------------------------------------------------------
(* Properties *)

(* Every variable has its type, and no two users have one slug. *)
TypeOK ==
    /\ gone \subseteq Users
    /\ slug \in [Users -> Slugs \cup {None}]
    /\ \A s \in Slugs, u, v \in Users : slug[u] = s /\ slug[v] = s => u = v
    /\ skill \in [Users \X Skills -> Nat \cup {None}]
    /\ endorsements \subseteq Users \X Users \X Skills
    /\ item \in [Items -> AllRows \cup {None}]
    /\ req \in [Requests -> InFlight \cup {Idle}]
    /\ earlier \in [Items -> SUBSET Items]
    /\ forgotten \in [Users \X Skills -> SUBSET Users]
    /\ departed \in [Users \X Skills -> SUBSET gone]
    /\ hasty \subseteq Users

(* The endorsements a profile shows for a skill are as many as others have
   given it since it was last added, each of them once and none of them its
   user; those from before it was removed are never counted again, and those
   of users that are gone still are: their rows go with them, the count stays.
   So it is exactly by its endorsers that are gone that the count is more than
   the rows. (the transaction of endorseSkill; addSkill, removeSkill; the
   clean-up of auth.service.ts and the cascade of skill_endorsements) *)
EndorsementsAreCounted ==
    \A u \in Users, k \in Skills :
        LET rows == EndorsersOf(u, k) \ forgotten[<<u, k>>] IN
        /\ u \notin rows \cup departed[<<u, k>>]
        /\ forgotten[<<u, k>>] \subseteq EndorsersOf(u, k)
        /\ EndorsersOf(u, k) \cap gone = {}
        /\ skill[<<u, k>>] # None =>
              skill[<<u, k>>] = Cardinality(rows \cup departed[<<u, k>>])

(* What is added to a list comes after all that its owner saw there, whatever
   was deleted meanwhile. Only two additions at once can share a place.
   (addPortfolioItem and addService) *)
NewComesLast ==
    \A i \in Items : item[i] # None =>
        \A j \in earlier[i] : item[j] # None /\ item[j].order < item[i].order

(* A profile's slug, which links to it name, is replaced only by a choice of
   its user, while the user is there, unless one was written while an updateProfile that had read none
   was making up another. (updateProfile and updateSlug) *)
SlugsStay ==
    [][\A u \in Users \ hasty :
          slug[u] # None /\ slug'[u] # slug[u] /\ u \notin gone' =>
              \E r \in Requests : Doing(r, "writeChosen") /\ req[r].user = u]_vars
====
