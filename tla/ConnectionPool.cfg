CONSTANTS
  Nobody = Nobody
  Tasks = {t1, t2, t3}
  Peers = {p1}
SPECIFICATION PoolSpec
INVARIANT PoolTypeOK
PROPERTIES CallsReturn StaleConnectionsLeave StaleByCrossingOnly ForgottenByHealthCheckOnly
