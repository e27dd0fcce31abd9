------------------------------- MODULE Policy -------------------------------
(***************************************************************************)
(* The authorization policy (internal/authorization/policy.go): which role *)
(* allows which action, at which kind of resource, and when a grant on an  *)
(* ancestor is enough.  One chain of scopes stands for the resource tree:  *)
(* the instance, an organization, a project of it, an environment of that. *)
(***************************************************************************)
EXTENDS Naturals, Sequences

\* The kinds of scope, from the root of the tree down (policy.go, order).
Order == <<"instance", "organization", "project", "environment">>
Kinds == {Order[i] : i \in 1..4}

\* scopeResource: the path of a scope is the scope and its ancestors.
Path(kind) == {Order[i] : i \in 1..(CHOOSE k \in 1..4 : Order[k] = kind)}

\* roleAllows.
Reading == {"resource.read", "deployment.read"}
Developing == Reading \cup {"run.read", "run.create", "run.cancel", "pipeline.write"}
Maintaining == Developing \cup {"repository.manage", "secret.manage",
                                "environment.manage", "deployment.create"}
RoleAllows ==
  [viewer     |-> Reading \cup {"run.read"},
   developer  |-> Developing,
   maintainer |-> Maintaining,
   admin      |-> Maintaining \cup {"members.manage", "audit.read",
                                    "runner.manage", "instance.manage"},
   deployer   |-> Reading \cup {"deployment.create"},
   approver   |-> Reading \cup {"deployment.approve"}]
Roles == DOMAIN RoleAllows
DeploymentRoles == {"deployer", "approver"}

\* validActionTarget: the kinds of resource an action makes sense for.
ValidActionTarget(action, kind) ==
  CASE action \in {"resource.read", "members.manage", "audit.read"} -> TRUE
    [] action \in {"run.read", "run.create", "run.cancel", "pipeline.write",
                   "repository.manage"} -> kind = "project"
    [] action = "secret.manage" -> kind # "instance"
    [] action \in {"environment.manage", "deployment.read", "deployment.create",
                   "deployment.approve"} -> kind = "environment"
    [] action \in {"runner.manage", "instance.manage"} -> kind = "instance"
    [] OTHER -> FALSE

\* protectedMutation.
ProtectedMutation == {"secret.manage", "environment.manage", "deployment.create",
                      "deployment.approve", "members.manage"}

\* Allowed, for an active principal with these grants (pairs of a role and a
\* kind of scope).  A protected environment and an approval need a grant on
\* the environment itself; an approver other than the requester is assumed.
Allowed(grants, action, kind, protected) ==
  /\ ValidActionTarget(action, kind)
  /\ \E g \in grants :
       /\ action \in RoleAllows[g[1]]
       /\ g[1] \in DeploymentRoles => g[2] = "environment"
       /\ (action = "deployment.approve" \/ (protected /\ action \in ProtectedMutation))
             => g[2] = kind
       /\ g[2] \in Path(kind)
=============================================================================
