--------------------------- MODULE MCPointSchedule ---------------------------
(* Small specs for TLC: two testbenches at two corners with one device, one testbench with two devices, no corners. *)
EXTENDS PointSchedule

S(testbenches, devices, corners, constraints, objective) ==
    [testbenches |-> testbenches, devices |-> devices, corners |-> corners,
     constraints |-> constraints, objective |-> objective]

TwoCorners == <<"ss", "nominal">>

\* The policies that go together, with and without corners and devices.
Plain == {
    S(<<"mixer", "lna">>, <<"coil">>, TwoCorners, "all_corners", "worst_case"),
    S(<<"mixer", "lna">>, <<>>, TwoCorners, "nominal", "nominal"),
    S(<<"mixer">>, <<"coil", "balun">>, TwoCorners, "all_corners", "none"),
    S(<<"mixer">>, <<"coil">>, <<"ss", "ff">>, "nominal", "nominal"),
    S(<<"mixer", "lna">>, <<"coil">>, <<>>, "all_corners", "worst_case"),
    S(<<>>, <<"coil", "balun">>, <<>>, "all_corners", "worst_case"),
    S(<<>>, <<"coil">>, TwoCorners, "nominal", "worst_case")}

\* Constraints at the nominal corner, the objective at the worst one.
Mixed == {S(<<"mixer">>, <<>>, TwoCorners, "nominal", "worst_case")}
=============================================================================
