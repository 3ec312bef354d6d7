----------------------------- MODULE MCProvisioner -----------------------------
(***************************************************************************)
(* Instances of Provisioner: scenario s1 owns the template, s2 shares its  *)
(* index with other dimensions and a newer template, s3's template is      *)
(* unknown.                                                                *)
(***************************************************************************)
EXTENDS Provisioner

CONSTANTS s1, s2, s3, wide, narrow

MCSchemaOf == [s \in Scenarios |-> IF s = s1 THEN wide ELSE IF s = s2 THEN narrow ELSE None]

MCVersionOf == [s \in Scenarios |-> IF s = s2 THEN 2 ELSE 1]

=============================================================================
