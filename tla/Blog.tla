---------------------------------- MODULE Blog ----------------------------------
(***************************************************************************)
(* The blog and the applications of its writers.                           *)
(*                                                                         *)
(*   internal/blog  Handler, Service, PostgresRepository                   *)
(*   internal/admin UsersHandler, RoleService; internal/auth Service       *)
(*                  the other writers of users.role                        *)
(*                                                                         *)
(* A request on a post reads the row, decides, and writes in a statement   *)
(* of its own: any two requests may be between their read and their write. *)
(* Of a post there is its body.  Its title, description and cover are left *)
(* out: an edit of these writes the body it sent again, and no rule but a  *)
(* short title, which is not published, looks at them.  Slugs are left out *)
(* too: a write the unique index of slugs refuses is a write that fails.   *)
(* An EDITOR may do here what a STUDENT may.  Permissions and the list of  *)
(* super administrators stand still.                                       *)
(***************************************************************************)
EXTENDS Naturals, Sequences, FiniteSets

CONSTANTS
  Posts,             \* posts that may be written
  Members,           \* accounts
  Moderators,        \* accounts with the permission BLOG_MODERATOR
  Bodies,            \* bodies of posts
  Drafty,            \* bodies too short to be published
  SuperAdmins,       \* accounts whose address is in super_admins
  Desks,             \* requests in flight
  Applicants,        \* bound on the accounts that upload a certificate
  MaxApplications,   \* bound on the applications of an account
  MaxAppointed       \* bound on the accounts whose role an administrator has set

ASSUME BlogAssumption ==
  /\ Moderators \subseteq Members /\ SuperAdmins \subseteq Members /\ Drafty \subseteq Bodies
  /\ MaxApplications \in Nat /\ MaxAppointed \in Nat

VARIABLES
  posts,             \* blog_posts
  atDesk,            \* what each request on a post has read
  role,              \* users.role
  appointed,         \* history: accounts whose role an administrator or the list was the last to set
  files,             \* the certificate of each account: its object, its row in blog_media
  applications       \* writer_applications of each account, oldest first

postVars == <<posts, atDesk>>
applicantVars == <<role, appointed, files, applications>>
blogVars == <<posts, atDesk, role, appointed, files, applications>>

NoPost == [status |-> "none"]

Post == [status : {"DRAFT", "PUBLISHED", "ARCHIVED"}, author : Members, body : Bodies]

NoEdit == [kind |-> "none"]

Edit ==
  [kind : {"update"}, post : Posts, saw : Post, body : Bodies]
    \cup [kind : {"publish", "archive"}, post : Posts]

Decisions == {"APPROVED", "REJECTED"}

Roles == {"STUDENT", "WRITER", "ADMIN"}

BlogTypeOK ==
  /\ posts \in [Posts -> Post \cup {NoPost}]
  /\ atDesk \in [Desks -> Edit \cup {NoEdit}]
  /\ role \in [Members -> Roles]
  /\ appointed \subseteq Members
  /\ files \in [Members -> {"none", "object", "stored", "left"}]
  /\ \A u \in Members :
       applications[u] \in UNION {[1..n -> {"PENDING"} \cup Decisions] : n \in 0..MaxApplications}

BlogInit ==
  /\ posts = [p \in Posts |-> NoPost]
  /\ atDesk = [d \in Desks |-> NoEdit]
  /\ role \in [Members -> {"STUDENT", "ADMIN"}]
  /\ appointed = {}
  /\ files = [u \in Members |-> "none"]
  /\ applications = [u \in Members |-> <<>>]

-------------------------------------------------------------------------------
(* Faulty variants, the slips the properties are there to notice.           *)

FromAnyStatus(p) == TRUE

BodyAlwaysOpen(post, body) == TRUE

DecidesAgain(u, n) == TRUE

-------------------------------------------------------------------------------
(* Posts.                                                                   *)

Written(p) == posts[p] # NoPost

Writes(u) == role[u] \in {"WRITER", "ADMIN"} \/ u \in Moderators

MayManage(u, post) == role[u] = "ADMIN" \/ u \in Moderators \/ post.author = u

\* A published post is not edited, only archived: decided on the row that was read.
BodyOpen(post, body) == post.status = "PUBLISHED" => body = post.body

\* What the statement of Publish asks of the row it finds.
Publishable(p) == posts[p].status = "DRAFT"

CreatePost(u) ==
  /\ role[u] \in {"WRITER", "ADMIN"}
  /\ \E p \in Posts, body \in Bodies :
       /\ ~Written(p)
       /\ posts' = [posts EXCEPT ![p] = [status |-> "DRAFT", author |-> u, body |-> body]]
  /\ UNCHANGED <<atDesk, applicantVars>>

Opens(d, edit) ==
  /\ atDesk[d] = NoEdit
  /\ atDesk' = [atDesk EXCEPT ![d] = edit]
  /\ UNCHANGED <<posts, applicantVars>>

ReadForUpdate(d, u, p) ==
  /\ Writes(u) /\ Written(p) /\ MayManage(u, posts[p])
  /\ \E body \in Bodies :
       /\ BodyOpen(posts[p], body)
       /\ Opens(d, [kind |-> "update", post |-> p, saw |-> posts[p], body |-> body])

ReadForPublish(d, u, p) ==
  /\ Writes(u) /\ Written(p) /\ MayManage(u, posts[p])
  /\ posts[p].body \notin Drafty
  /\ Opens(d, [kind |-> "publish", post |-> p])

ReadForArchive(d, u, p) ==
  /\ Writes(u) /\ Written(p) /\ MayManage(u, posts[p])
  /\ Opens(d, [kind |-> "archive", post |-> p])

Closes(d) == atDesk' = [atDesk EXCEPT ![d] = NoEdit] /\ UNCHANGED applicantVars

\* Update locks the row, but asks nothing of the status it finds there.
WriteUpdate(d) ==
  /\ atDesk[d].kind = "update"
  /\ Closes(d)
  /\ posts' = [posts EXCEPT ![atDesk[d].post].body = atDesk[d].body]

WritePublish(d) ==
  /\ atDesk[d].kind = "publish"
  /\ Closes(d)
  /\ posts' = [posts EXCEPT ![atDesk[d].post].status = IF Publishable(atDesk[d].post) THEN "PUBLISHED" ELSE @]

WriteArchive(d) ==
  /\ atDesk[d].kind = "archive"
  /\ Closes(d)
  /\ posts' = [posts EXCEPT ![atDesk[d].post].status = "ARCHIVED"]

\* The slug is taken, the client is gone, or the database: nothing is written.
GiveUpEdit(d) == atDesk[d] # NoEdit /\ Closes(d) /\ UNCHANGED posts

-------------------------------------------------------------------------------
(* Applications.                                                            *)

\* StoreMedia: the object first, then its row.
StoreObject(u) ==
  /\ u \in Applicants
  /\ files[u] \in {"none", "left"}
  /\ files' = [files EXCEPT ![u] = "object"]
  /\ UNCHANGED <<postVars, role, appointed, applications>>

CreateMedia(u) ==
  /\ files[u] = "object"
  /\ files' = [files EXCEPT ![u] = "stored"]
  /\ UNCHANGED <<postVars, role, appointed, applications>>

\* The row fails: deleting the object is tried once, and its error is dropped.
NoMedia(u) ==
  /\ files[u] = "object"
  /\ \E after \in {"none", "left"} : files' = [files EXCEPT ![u] = after]
  /\ UNCHANGED <<postVars, role, appointed, applications>>

IsPending(u, n) == applications[u][n] = "PENDING"

HasPending(u) == \E n \in DOMAIN applications[u] : applications[u][n] = "PENDING"

\* Any account may apply, a writer or an administrator too.
Apply(u) ==
  /\ Len(applications[u]) < MaxApplications
  /\ files[u] = "stored"
  /\ ~HasPending(u)
  /\ applications' = [applications EXCEPT ![u] = Append(@, "PENDING")]
  /\ UNCHANGED <<postVars, role, appointed, files>>

\* ReviewApplication, one transaction with the row locked.
ReviewApplication(u, n, decision) ==
  /\ n \in DOMAIN applications[u] /\ IsPending(u, n)
  /\ applications' = [applications EXCEPT ![u][n] = decision]
  /\ role' = [role EXCEPT ![u] = IF decision = "APPROVED" THEN "WRITER" ELSE @]
  /\ appointed' = IF decision = "APPROVED" THEN appointed \ {u} ELSE appointed
  /\ UNCHANGED <<postVars, files>>

-------------------------------------------------------------------------------
(* The other writers of a role.                                             *)

Appoints(u, r) ==
  /\ Cardinality(appointed \cup {u}) <= MaxAppointed
  /\ role' = [role EXCEPT ![u] = r]
  /\ appointed' = appointed \cup {u}
  /\ UNCHANGED <<postVars, files, applications>>

\* The users page, which leaves the roles of the list and of who uses it alone.
UpdateUser(actor, u, r) ==
  /\ role[actor] = "ADMIN" /\ actor # u
  /\ r # role[u] /\ u \notin SuperAdmins
  /\ Appoints(u, r)

\* The command of an operator, cmd/admin.
SetRole(u, r) == Appoints(u, r)

\* A login of someone on the list.
LogIn(u) ==
  /\ u \in SuperAdmins /\ role[u] # "ADMIN"
  /\ Appoints(u, "ADMIN")

BlogNext ==
  \/ \E u \in Members : CreatePost(u) \/ StoreObject(u) \/ CreateMedia(u) \/ NoMedia(u) \/ Apply(u)
  \/ \E d \in Desks, u \in Members, p \in Posts :
       ReadForUpdate(d, u, p) \/ ReadForPublish(d, u, p) \/ ReadForArchive(d, u, p)
  \/ \E d \in Desks : WriteUpdate(d) \/ WritePublish(d) \/ WriteArchive(d) \/ GiveUpEdit(d)
  \/ \E u \in Members, n \in 1..MaxApplications, decision \in Decisions : ReviewApplication(u, n, decision)
  \/ \E u \in Members, r \in Roles : SetRole(u, r) \/ (\E actor \in Members : UpdateUser(actor, u, r))
  \/ \E u \in Members : LogIn(u)

BlogSpec == BlogInit /\ [][BlogNext]_blogVars

-------------------------------------------------------------------------------
(* Properties.                                                              *)

\* A post that was taken down never comes back, whatever a publisher read before it was.
ArchivedStaysDown ==
  [][\A p \in Posts : posts[p].status = "ARCHIVED" => posts'[p].status = "ARCHIVED"]_blogVars

\* The body of a published post is only replaced by what a request decided on the row it
\* had read: an edit that read the post unpublished, late, or the body the published post
\* had then.  An edit that reads the post published is refused any other.
PublishedChangesLate ==
  [][\A p \in Posts :
       posts[p].status = "PUBLISHED" /\ posts'[p].body # posts[p].body =>
         \E d \in Desks :
           /\ atDesk[d].kind = "update" /\ atDesk[d].post = p /\ atDesk'[d] = NoEdit
           /\ atDesk[d].saw.status = "PUBLISHED" => posts'[p].body = atDesk[d].saw.body]_blogVars

\* Role and application do not diverge by a review: unless somebody has set its role
\* since, an account is a writer exactly when an application of its was approved.
RoleFollowsApplication ==
  \A u \in Members \ appointed :
    role[u] = "WRITER" <=> \E n \in DOMAIN applications[u] : applications[u][n] = "APPROVED"

\* Of two reviewers of an application one decides, for good; and nobody is a writer by a
\* decision but the one that approved.
DecisionsStand ==
  [][\A u \in Members :
       /\ \A n \in DOMAIN applications[u] :
            applications[u][n] \in Decisions => applications'[u][n] = applications[u][n]
       /\ role'[u] # role[u] /\ u \notin appointed' =>
            \E n \in DOMAIN applications[u] :
              applications[u][n] = "PENDING" /\ applications'[u][n] = "APPROVED"]_blogVars

\* Posts only move forward, a decision stands, and roles follow the applications.
BlogHolds ==
  /\ []BlogTypeOK /\ []RoleFollowsApplication
  /\ ArchivedStaysDown /\ PublishedChangesLate /\ DecisionsStand
===============================================================================
