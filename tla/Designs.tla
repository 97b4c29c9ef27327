------------------------------- MODULE Designs -------------------------------
(***************************************************************************)
(* A team and its resources, and the canvas that draws ERD workspaces.  A  *)
(* behaviour exercises the server or the canvas, the focus; the other one  *)
(* stays as it starts.                                                     *)
(***************************************************************************)
EXTENDS Workspaces

CONSTANTS Databases, Home, CanvasSaves, MaxDrawings, MaxTurns

ASSUME DesignsAssumption ==
  Home \in Databases /\ MaxDrawings \in Nat /\ MaxTurns \in Nat

VARIABLES focus, page, canvas, remembered, workspaces, listed, posts, removal, drawings, astray, unheard, turns

ErdCanvas == INSTANCE ErdCanvas WITH Saves <- CanvasSaves

erd == <<page, canvas, remembered, workspaces, listed, posts, removal, drawings, astray, unheard, turns>>

DesignsInit == focus \in {"server", "canvas"} /\ WorkspaceInit /\ ErdCanvas!Init

DesignsNext ==
  \/ focus = "server" /\ WorkspaceNext /\ UNCHANGED <<focus, erd>>
  \/ focus = "canvas" /\ ErdCanvas!Next /\ UNCHANGED <<focus, vars>>

DesignsSpec == DesignsInit /\ [][DesignsNext]_<<focus, vars, erd>>

-----------------------------------------------------------------------------
\* The drawings of ERD workspaces and canvases do not get into each other.
DrawingsStayApart == ErdCanvas!DrawingsStayApart
=============================================================================
