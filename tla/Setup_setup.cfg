SPECIFICATION SetupSpec
CONSTANTS
  c1 = c1
  c2 = c2
  u1 = u1
  u2 = u2
  b1 = b1
  w1 = w1
  w2 = w2
  l1 = l1
  p1 = p1
  f1 = f1
  g1 = g1
  a1 = a1
  v1 = v1
  v2 = v2
  d1 = d1
  lt1 = lt1
  lt2 = lt2
  ho1 = ho1
  ho2 = ho2
  sh1 = sh1
  sh2 = sh2
  em1 = em1
  hr1 = hr1
  hr2 = hr2
  pa1 = pa1
  pa2 = pa2
  us1 = us1
  sc1 = sc1
  sc2 = sc2
  st1 = st1
  pt1 = pt1
  co1 = co1
  ru1 = ru1
  sl1 = sl1
  sl2 = sl2
  pr1 = pr1
  pr2 = pr2
  cy1 = cy1
  cy2 = cy2
  gr1 = gr1
  ac1 = ac1
  ac2 = ac2
  ac3 = ac3
  fy1 = fy1
  pe1 = pe1
  pe2 = pe2
  pe3 = pe3
  cu1 = cu1
  cu2 = cu2
  ra1 = ra1
  ra2 = ra2
  cc1 = cc1
  di1 = di1
  tx1 = tx1
  tr1 = tr1
  jt1 = jt1
  po1 = po1
  ba1 = ba1
  as1 = as1
  bu1 = bu1
  vc1 = vc1
  su1 = su1
  ad1 = ad1
  sd1 = sd1
  fi1 = fi1
  kc1 = kc1
  cs1 = cs1
  ck1 = ck1
  cd1 = cd1
  ka1 = ka1
  bt1 = bt1
  bt2 = bt2
  sn1 = sn1
  lo1 = lo1
  ro1 = ro1
  ro2 = ro2
  pm1 = pm1
  gt1 = gt1
  mb1 = mb1
  Missing = Missing
  Tasks = {t1, t2}
  Ids = {c1, c2, u1, u2, b1, w1, w2, l1, p1, f1, g1, a1, v1, v2, d1, lt1, lt2, ho1, ho2, sh1, sh2, em1, hr1, hr2, pa1, pa2, us1, sc1, sc2, st1, pt1, co1, ru1, sl1, sl2, pr1, pr2, cy1, cy2, gr1, ac1, ac2, ac3, fy1, pe1, pe2, pe3, cu1, cu2, ra1, ra2, cc1, di1, tx1, tr1, jt1, po1, ba1, as1, bu1, vc1, su1, ad1, sd1, fi1, kc1, cs1, ck1, cd1, ka1, bt1, bt2, sn1, lo1, ro1, ro2, pm1, gt1, mb1}
  KindOf <- KindOfIds
  Codes = {"x", "y", "z"}
  Levels = {0, 1}
  Scenarios <- Demands
INVARIANTS RowsAgree CacheIsCurrent AccountsInTree
PROPERTIES LinksKept
CHECK_DEADLOCK FALSE
SYMMETRY Symmetry
