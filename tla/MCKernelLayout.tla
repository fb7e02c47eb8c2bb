---------------------------- MODULE MCKernelLayout ----------------------------
(***************************************************************************)
(* Loop bodies of up to five nodes, closed by their branch: loads, a       *)
(* division and what reads it, a function of the EFU, sums on ACC, stores, *)
(* pointers.  The times of the pipes are scaled down.                      *)
(***************************************************************************)
EXTENDS VuKernelLayout

Bases == {"VF04", "VF05", "VF06", "VF30", "VF31", "VI01", "Q", "P", "ACC"}
VectorBases == {"VF04", "VF05", "VF06", "VF30", "VF31"}
Fields == {"x", "y", "all"}

R(base, field) == [base |-> base, field |-> field]
W(base, field, ready) == [base |-> base, field |-> field, ready |-> ready]

Op(pipe, unit, duration, reads, writes) ==
  [pipe |-> pipe, unit |-> unit, duration |-> duration, reads |-> reads, writes |-> writes,
   splittable |-> pipe = "upper"]

Lq   == Op("lower", "none", 1, <<R("VI01", "all")>>, <<W("VF04", "x", 2), W("VF04", "y", 2)>>)
Div  == Op("lower", "fdiv", 3, <<R("VF04", "y")>>, <<W("Q", "all", 3)>>)
Sqrt == Op("lower", "fdiv", 2, <<R("VF06", "x")>>, <<W("Q", "all", 3)>>)
Eleng == Op("lower", "efu", 3, <<R("VF04", "x")>>, <<W("P", "all", 4)>>)
Mfp  == Op("lower", "none", 1, <<R("P", "all")>>, <<W("VF05", "y", 2)>>)
Mulq == Op("upper", "none", 1, <<R("VF04", "x"), R("Q", "all")>>, <<W("VF05", "x", 2)>>)
Add  == Op("upper", "none", 1, <<R("VF05", "x"), R("VF05", "y")>>, <<W("VF06", "x", 2)>>)
Mul  == Op("upper", "none", 1, <<R("VF04", "x"), R("VF04", "y")>>, <<W("VF05", "x", 2), W("VF05", "y", 2)>>)
Mula == Op("upper", "none", 1, <<R("VF04", "x")>>, <<W("ACC", "all", 1)>>)
Madd == Op("upper", "none", 1, <<R("ACC", "all"), R("VF05", "x")>>, <<W("VF06", "x", 2)>>)
Sq   == Op("lower", "none", 1, <<R("VF06", "x"), R("VI01", "all")>>, <<>>)
Inc  == Op("lower", "none", 1, <<R("VI01", "all")>>, <<W("VI01", "all", 1)>>)
Nop  == Op("none", "none", 1, <<>>, <<>>)
Ibne == Op("lower", "none", 1, <<R("VI01", "all")>>, <<>>)

Kinds == {Lq, Div, Sqrt, Eleng, Mfp, Mulq, Add, Mula, Madd, Sq, Inc, Nop}

Short == UNION {[1 .. n -> Kinds] : n \in 1 .. 3}

Long ==
  { <<Lq, Div, Mulq, Sq, Inc>>, <<Lq, Div, Mulq, Add, Sq, Inc>>, <<Lq, Eleng, Mfp, Add, Sq>>,
    <<Lq, Div, Mulq, Sqrt, Mulq>>, <<Mula, Madd, Mula, Madd>>, <<Lq, Mula, Madd, Sq, Inc, Nop>>,
    <<Lq, Mul, Mula, Madd>>, <<Lq, Mul, Mul, Add>>, <<Lq, Mula, Mul, Add>>, <<Lq, Mul, Madd, Add>>, <<Lq, Mul, Add, Add>>,  <<Lq, Mul, Add, Mul>>, <<Lq, Mul, Sq, Add>> }

MCLoops == {body \o <<Ibne>> : body \in Short \cup Long}
MCKeyOrder == <<R("VF04", "x"), R("VF04", "y"), R("VF05", "x"), R("VF05", "y"), R("VF06", "x")>>
MCCandidates == <<"VF31", "VF30">>
=============================================================================
