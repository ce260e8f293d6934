------------------------------ MODULE Layout ------------------------------
(***************************************************************************)
(* What lies on the disk of a host next to the object store                *)
(* (zerith/layout.py): the deployment directories and their files, the     *)
(* three role symlinks, and the ESP files that the firmware and Limine     *)
(* read at boot.                                                           *)
(***************************************************************************)
CONSTANTS
    Deployments,    \* deploy ids that can be published
    None,           \* "no deployment": an unset role, a missing ESP file
    Torn            \* a UKI on the ESP whose bytes are not a whole image

ASSUME LayoutAssumption ==
    None \notin Deployments /\ Torn \notin Deployments /\ None # Torn

VARIABLES
    dirs,           \* the deployment directories that exist
    file,           \* file[d][f]: the file f inside the directory of d
    role,           \* role[r]: the target of the role symlink r
    esp,            \* esp[s]: the image in zerith/<s>.efi
    espLoader,      \* the Limine loader EFI/BOOT/BOOTX64.EFI
    swapTmp         \* the temporary zerith/.swap.efi.tmp of a rollback

layoutVars == <<dirs, file, role, esp, espLoader, swapTmp>>

Roles == {"current", "fallback", "staging"}

Slots == {"current", "fallback"}

\* root.cfs, zerith.efi, BOOTX64.EFI and deployment.json.
FileNames == {"cfs", "uki", "loader", "meta"}

\* A file is missing, exists with content that is not (all of) the intended
\* content, or is whole; root.cfs counts as whole once it is sealed and its
\* measured digest matched.
FileState == {"none", "torn", "whole"}

Images == Deployments \cup {None, Torn}

LayoutTypeOK ==
    /\ dirs \subseteq Deployments
    /\ file \in [Deployments -> [FileNames -> FileState]]
    /\ role \in [Roles -> Deployments \cup {None}]
    /\ esp \in [Slots -> Images]
    /\ espLoader \in {"torn", "whole"}
    /\ swapTmp \in Images

Exists(d, f) == file[d][f] # "none"

\* What a copy of <d>/zerith.efi carries to the ESP.
UkiOf(d) == IF file[d]["uki"] = "whole" THEN d ELSE Torn

----------------------------------------------------------------------------
(* Primitives.  A role change and an ESP copy are a rename over the old    *)
(* name, one step; a copy into a deployment directory is not.              *)

SetRole(r, d) == role' = [role EXCEPT ![r] = d]

ClearRole(r) == role' = [role EXCEPT ![r] = None]

CopyToEsp(slot, image) == esp' = [esp EXCEPT ![slot] = image]

SetFile(d, f, state) == file' = [file EXCEPT ![d][f] = state]

\* Seeded faults: the staging role protects nothing; the fallback does not.
ProtectedBootable == {role[r] : r \in {"current", "fallback"}} \ {None}

ProtectedNew == {role[r] : r \in {"current", "staging"}} \ {None}

\* The deployments a role protects from garbage collection.
Protected == {role[r] : r \in Roles} \ {None}
=============================================================================
