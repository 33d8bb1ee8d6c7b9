SPECIFICATION Spec
CHECK_DEADLOCK FALSE
CONSTANTS
  wrk_nginx = wrk_nginx
  nginx_nginx = nginx_nginx
  Flow = {wrk_nginx, nginx_nginx}
  Src <- MCSrc
  Dst <- MCDst
  Addr = "10.0.0.10"
  MaxGraphDepth = 4
  Ago = {0, 2}
  Writer = {w1, w2}
  Zone = {0, 1}
  MaxTime = 3
  Never = Never
SYMMETRY Symmetry
INVARIANTS
  TypeOK
  ProcessesShown
