---------------------------- MODULE GenericServices ----------------------------
(***************************************************************************)
(* The generic service definitions of server/services/definitions: kinds   *)
(* of services rather than products, tried after all the others.           *)
(***************************************************************************)
EXTENDS ServicePatterns

AccessPoint == Define("Access Point", {"generic"}, NoPattern)
Amqp == Define("AMQP", {"generic"}, AnyOf(<<Port(PortType.AMQP), Port(PortType.AMQPTls)>>))
Camera == Define("RTSP Camera", {"generic"}, Port(PortType.Rtsp))
Cassandra == Define("Cassandra", {"generic", "logo"}, Port(PortType.Cassandra))
CouchDB == Define("CouchDB", {"generic", "logo"},
  Endpoint(PortType.CouchDb, "/", "couchdb", NoRange))
DhcpServer == Define("Dhcp Server", {"generic"}, Port(PortType.Dhcp))
DnsServer == Define("Dns Server", {"generic"},
  AnyOf(<<Port(PortType.DnsTcp), Port(PortType.DnsUdp)>>))
DockerContainer == Define("Docker Container", {"generic", "logo"},
  AllOf(<<InDockerContainer, Custom("ContainerNotMatched")>>))
Elasticsearch == Define("Elasticsearch", {"generic", "logo"},
  Endpoint(PortType.Elasticsearch, "/", "lucene", NoRange))
FileServer == Define("FTP Server", {"generic"}, Port(PortType.Ftp))
Firewall == Define("Firewall", {"generic"}, NoPattern)
Gateway == Define("Gateway", {"generic"}, AllOf(<<IsGateway, Custom("NoNonGatewayMatched")>>))
InfluxDB == Define("InfluxDB", {"generic", "logo"}, Port(PortType.InfluxDb))
Iot == Define("IoT", {"generic"}, NoPattern)
Jaeger == Define("Jaeger", {"generic", "logo"}, Endpoint(NewTcp(16686), "/", "jaeger", NoRange))
Kafka == Define("Kafka", {"generic", "logo"}, Port(PortType.Kafka))
Kerberos == Define("Kerberos", {"generic"}, Port(PortType.Kerberos))
LDAP == Define("Open LDAP", {"generic", "logo"},
  AnyOf(<<Port(PortType.Ldap), Port(PortType.Ldaps)>>))
MariaDB == Define("MariaDB", {"generic", "logo"}, NoPattern)
MongoDB == Define("MongoDB", {"generic", "logo"}, Port(PortType.MongoDB))
MQTT == Define("MQTT", {"generic", "logo"},
  AnyOf(<<Port(PortType.Mqtt), Port(PortType.MqttTls)>>))
MSSQLServer == Define("Microsoft SQL Server", {"generic", "logo"}, Port(PortType.MsSql))
MySQL == Define("MySQL", {"generic", "logo"}, Port(PortType.MySql))
Nagios == Define("Nagios", {"generic", "logo"},
  Endpoint(PortType.Http, "/nagios", "nagios", NoRange))
Netdata == Define("Netdata", {"generic", "logo"},
  Endpoint(NewTcp(19999), "/api/v1/info", "netdata", NoRange))
NFSServer == Define("NFS", {"generic"}, Port(PortType.Nfs))
NtpServer == Define("NTP Server", {"generic"}, Port(PortType.Ntp))
OpenPorts == Define("Unclaimed Open Ports", {"generic"}, Custom("SomePortUnbound"))
OpenVpn == Define("OpenVPN", {"generic", "logo"}, Port(PortType.OpenVPN))
PostgreSQL == Define("PostgreSQL", {"generic", "logo"}, Port(PortType.PostgreSQL))
PrintServer == Define("Print Server", {"generic"},
  AnyOf(<<Port(PortType.Ipp), Port(PortType.LdpTcp), Port(PortType.LdpUdp)>>))
RabbitMQ == Define("RabbitMQ", {"generic", "logo"},
  Endpoint(PortType.RabbitMqMgmt, "/", "rabbitmq", NoRange))
RemoteDesktop == Define("Remote Desktop", {"generic"}, Port(PortType.Rdp))
RedisDB == Define("Redis", {"generic", "logo"}, Port(PortType.Redis))
Samba == Define("Samba", {"generic"}, Port(PortType.Samba))
Sensu == Define("Sensu", {"generic", "logo"},
  Endpoint(NewTcp(4567), "/health", "sensu", NoRange))
SIPServer == Define("SIP Server", {"generic"},
  AnyOf(<<Port(PortType.Sip), Port(PortType.SipTls)>>))
Snmp == Define("SNMP", {"generic"}, Port(PortType.Snmp))
Ssh == Define("SSH", {"generic"}, Port(PortType.Ssh))
Switch == Define("Switch", {"generic"},
  AllOf(<<Not(IsGateway), AllOf(<<Port(PortType.Http), Port(PortType.Telnet)>>)>>))
Telnet == Define("Telnet", {"generic"}, Port(PortType.Telnet))
Wireguard == Define("WireGuard", {"generic", "logo"}, Port(PortType.Wireguard))
Workstation == Define("Workstation", {"generic"},
  AllOf(<<Port(PortType.Rdp), Port(PortType.Samba)>>))
ZWaveJS == Define("Z-Wave JS", {"generic", "logo"},
  Endpoint(NewTcp(8091), "/health", "", NoRange))
===============================================================================
